------------------------------- MODULE WsApi -------------------------------
(***************************************************************************)
(* The web socket API (api/v2) over the RPC client: subscriptions and      *)
(* their connections (api/v2/types.rs WsClients, api/v2/ws.rs), the        *)
(* requests a connection handles one at a time, transactions submitted     *)
(* through the RPC client, and the publishers of the three topics          *)
(* (api/v2/mod.rs), which read a broadcast channel of messages 1, 2, ...   *)
(***************************************************************************)
EXTENDS RpcClient

CONSTANT
    Conn,           \* web socket connections, each a caller of the RPC client
    Id,             \* subscription ids
    Topics,         \* the topics published in the configuration
    Subscription,   \* the subscriptions considered
    Capacity        \* capacity of a topic's channel

\* Positions of the publishers when a connection became its id's sender, and
\* when it was replaced.
Window == [from : [Topics -> Nat], to : [Topics -> Nat] \cup {None}]

ASSUME WsAssumption ==
    /\ Caller = Conn \cup {Stream} /\ Stream \notin Conn
    /\ None \notin Conn /\ None \notin Id /\ None \notin [Topics -> Nat] /\ None \notin Window
    /\ "submitted" \notin Node
    /\ Topics \subseteq {"header-verified", "confidence-achieved", "data-verified"}
    /\ Subscription \subseteq [topics : SUBSET Topics, fields : SUBSET {"data", "extrinsic"}]
    /\ Capacity \in Nat

VARIABLE
    clients,    \* of each subscribed id: its subscription and its sender
    conn,       \* of each connection: its id, None when not open
    requests,   \* messages received on each connection
    taken,      \* how many of them the connection has handled
    outbox,     \* messages sent to each connection
    sent,       \* messages sent to each topic's channel
    pos,        \* messages its publisher has received
    unreadable, \* of each topic: the messages that were not converted
    ended,      \* topics whose publisher has returned
    window      \* of each connection: its window, None before it is made

wsVars == <<clients, conn, requests, taken, outbox, sent, pos, unreadable, ended, window>>
vars == <<rpcVars, wsVars>>
connVars == <<clients, conn, window>>
topicVars == <<sent, pos, unreadable, ended>>

Init ==
    /\ RpcInit
    /\ clients = [id \in {} |-> None]
    /\ conn = [c \in Conn |-> None]
    /\ requests = [c \in Conn |-> <<>>]
    /\ taken = [c \in Conn |-> 0]
    /\ outbox = [c \in Conn |-> <<>>]
    /\ sent = [t \in Topics |-> 0]
    /\ pos = [t \in Topics |-> 0]
    /\ unreadable = [t \in Topics |-> {}]
    /\ ended = {}
    /\ window = [c \in Conn |-> None]
-----------------------------------------------------------------------------
\* POST /v2/subscriptions: a fresh id.
subscribe(id) ==
    /\ id \notin DOMAIN clients
    /\ \E s \in Subscription :
          clients' = [x \in DOMAIN clients \cup {id} |->
                         IF x = id THEN [subscription |-> s, sender |-> None] ELSE clients[x]]
    /\ UNCHANGED <<rpcVars, conn, window, requests, taken, outbox, topicVars>>

\* GET /v2/ws/id: the connection becomes the sender of its id; an earlier
\* connection stays open but is not published to any more.
connect(c, id) ==
    /\ conn[c] = None /\ window[c] = None
    /\ id \in DOMAIN clients
    /\ conn' = [conn EXCEPT ![c] = id]
    /\ clients' = [clients EXCEPT ![id].sender = c]
    /\ window' = [d \in Conn |->
                     IF d = c THEN [from |-> pos, to |-> None]
                     ELSE IF d = clients[id].sender THEN [window[d] EXCEPT !.to = pos]
                     ELSE window[d]]
    /\ UNCHANGED <<rpcVars, requests, taken, outbox, topicVars>>

\* The peer goes away: the task returns once it has handled what it is in.
Close(c) ==
    /\ conn[c] # None /\ call[c].pc = "idle" /\ taken[c] = Len(requests[c])
    /\ Cardinality({d \in Conn : window[d] # None /\ conn[d] = None}) < scenario.closes
    /\ conn' = [conn EXCEPT ![c] = None]
    /\ UNCHANGED <<rpcVars, clients, window, requests, taken, outbox, topicVars>>

Receive(c) ==
    /\ conn[c] # None
    /\ FoldFunction(LAMBDA r, n : Len(r) + n, 0, requests) < scenario.requests
    /\ \E p \in scenario.payloads : requests' = [requests EXCEPT ![c] = Append(@, p)]
    /\ UNCHANGED <<rpcVars, connVars, taken, outbox, topicVars>>

\* The answer to the request the connection is at.
Respond(c, kind) ==
    outbox' = [outbox EXCEPT ![c] =
                  Append(@, [type |-> "response", of |-> taken[c] + 1, kind |-> kind,
                             blocks |-> included[c]])]

HasRequest(c) == conn[c] # None /\ call[c].pc = "idle" /\ taken[c] < Len(requests[c])

\* handle_request: what is answered at once.  A message that is not text is
\* skipped; status reports the node of State.
Handle(c) ==
    /\ HasRequest(c) /\ call[c].result = "none"
    /\ LET p == requests[c][taken[c] + 1] IN
       /\ p \notin {"data", "extrinsic"} \/ ~scenario.submitter
       /\ CASE p = "binary" -> UNCHANGED outbox
            [] p = "version" -> Respond(c, "version")
            [] p = "status" -> Respond(c, connected_node)
            [] OTHER -> Respond(c, "bad-request")
    /\ taken' = [taken EXCEPT ![c] = @ + 1]
    /\ UNCHANGED <<rpcVars, connVars, requests, topicVars>>

\* Submitter::submit: the transaction, then the header of its block.
Submit(c) ==
    /\ HasRequest(c) /\ call[c].result = "none"
    /\ scenario.submitter
    /\ LET p == requests[c][taken[c] + 1] IN
       /\ p \in {"data", "extrinsic"}
       /\ call' = [call EXCEPT ![c] =
                      Begin(IF p = "data" THEN Operation.submit_data ELSE Operation.submit_extrinsic)]
    /\ included' = [included EXCEPT ![c] = 0]
    /\ UNCHANGED <<up, flaps, subxt_client, connected_node, stream, stopped, calls, scenario>>
    /\ UNCHANGED wsVars

\* An error that is answered like a success.
MutSubmitted(c) ==
    /\ HasRequest(c) /\ call[c].result # "none"
    /\ Respond(c, "submitted")
    /\ taken' = [taken EXCEPT ![c] = @ + 1]
    /\ call' = [call EXCEPT ![c] = Idle("none")]
    /\ UNCHANGED <<up, flaps, subxt_client, connected_node, stream, included, stopped, calls, scenario>>
    /\ UNCHANGED <<connVars, requests, topicVars>>

\* The submission returned.
Submitted(c) ==
    /\ HasRequest(c) /\ call[c].result # "none"
    /\ Respond(c, IF call[c].result = "ok" THEN "submitted" ELSE "internal-server-error")
    /\ taken' = [taken EXCEPT ![c] = @ + 1]
    /\ call' = [call EXCEPT ![c] = Idle("none")]
    /\ UNCHANGED <<up, flaps, subxt_client, connected_node, stream, included, stopped, calls, scenario>>
    /\ UNCHANGED <<connVars, requests, topicVars>>

-----------------------------------------------------------------------------
\* A block is verified, sampled or its data decoded: one more message.
Produce(t) ==
    /\ sent[t] < scenario.messages
    /\ sent' = [sent EXCEPT ![t] = @ + 1]
    /\ UNCHANGED <<rpcVars, connVars, requests, taken, outbox, pos, unreadable, ended>>

\* filter_fields: without fields the data is kept.
apply_filter(t, fields) ==
    IF t # "data-verified" THEN {}
    ELSE IF "extrinsic" \notin fields THEN {"data"}
    ELSE fields

\* WsClients::publish: the senders that are subscribed; a send to a closed
\* connection fails and is only logged.
Publish(t, n) ==
    outbox' = [c \in Conn |->
        IF /\ conn[c] # None
           /\ clients[conn[c]].sender = c
           /\ t \in clients[conn[c]].subscription.topics
        THEN Append(outbox[c], [type |-> t, of |-> n,
                                fields |-> apply_filter(t, clients[conn[c]].subscription.fields)])
        ELSE outbox[c]]

\* A publisher that goes on after it lagged.
MutPublishNext(t) ==
    /\ t \notin ended /\ ~stopped
    /\ pos[t] < sent[t]
    /\ pos' = [pos EXCEPT ![t] = IF sent[t] - pos[t] <= Capacity THEN @ + 1 ELSE sent[t] - Capacity]
    /\ Publish(t, pos'[t])
    /\ UNCHANGED <<rpcVars, connVars, requests, taken, sent, unreadable, ended>>

\* publish: the next message; one that cannot be converted is dropped.
PublishNext(t) ==
    /\ t \notin ended /\ ~stopped
    /\ pos[t] < sent[t] /\ sent[t] - pos[t] <= Capacity
    /\ pos' = [pos EXCEPT ![t] = @ + 1]
    /\ \/ /\ t # "confidence-achieved"
          /\ unreadable' = [unreadable EXCEPT ![t] = @ \cup {pos[t] + 1}]
          /\ UNCHANGED outbox
       \/ /\ Publish(t, pos[t] + 1)
          /\ UNCHANGED unreadable
    /\ UNCHANGED <<rpcVars, connVars, requests, taken, sent, ended>>

\* A publisher that lags behind its channel returns for good.
PublishLags(t) ==
    /\ t \notin ended /\ ~stopped
    /\ sent[t] - pos[t] > Capacity
    /\ ended' = ended \cup {t}
    /\ UNCHANGED <<rpcVars, connVars, requests, taken, outbox, sent, pos, unreadable>>

Next ==
    \/ RpcNext /\ UNCHANGED wsVars
    \/ \E id \in Id : subscribe(id)
    \/ \E c \in Conn, id \in Id : connect(c, id)
    \/ \E c \in Conn : Close(c) \/ Receive(c) \/ Handle(c) \/ Submit(c) \/ Submitted(c)
    \/ \E t \in Topics : Produce(t) \/ PublishNext(t) \/ PublishLags(t)

Spec == Init /\ [][Next]_vars

\* The runtime polls every task that can proceed.
FairSpec ==
    /\ Spec
    /\ \A c \in Conn : /\ WF_vars(Handle(c) \/ Submit(c) \/ Submitted(c))
                       /\ WF_vars(CallStep(c) /\ UNCHANGED wsVars)
-----------------------------------------------------------------------------
\* The messages of a type in an outbox are of exactly those in due, each once
\* and in order.
Delivered(box, type, due) ==
    LET sends == {i \in DOMAIN box : box[i].type = type}
    IN  /\ {box[i].of : i \in sends} = due
        /\ \A i, j \in sends : i < j => box[i].of < box[j].of

\* connect handles one request at a time: what a connection was answered is
\* one answer for each text message it sent, in the order it sent them,
\* whatever the other connections and the publishers do meanwhile; and what
\* is confirmed is a transaction that is in a block.
AnsweredInOrder ==
    \A c \in Conn :
        /\ Delivered(outbox[c], "response", {n \in 1..taken[c] : requests[c][n] # "binary"})
        /\ \A i \in DOMAIN outbox[c] :
              LET m == outbox[c][i]
              IN  m.type = "response" /\ m.kind = "submitted" =>
                     m.blocks > 0 /\ requests[c][m.of] \in {"data", "extrinsic"}

\* The position up to which connection c is published to.
LastDue(c, t) == IF window[c].to = None THEN pos[t] ELSE window[c].to[t]

\* WsClients::publish: an open connection that is subscribed to a topic has
\* received, in order and once, exactly the messages that its publisher
\* converted while the connection was its id's latest one.
PublishedToLatest ==
    \A c \in Conn, t \in Topics : conn[c] # None =>
        Delivered(outbox[c], t, IF t \in clients[conn[c]].subscription.topics
                                THEN (window[c].from[t] + 1 .. LastDue(c, t)) \ unreadable[t] ELSE {})

\* The retry loops are bounded: every request of a connection is answered,
\* or skipped, in the end, shutdown or not.
RequestsAreHandled ==
    []<>(\A c \in Conn : taken[c] = Len(requests[c]))
-----------------------------------------------------------------------------
(* What AnsweredInOrder and PublishedToLatest depend on *)

Message ==
    [type : {"response"}, of : Nat, blocks : Nat,
     kind : {"version", "bad-request", "submitted", "internal-server-error"} \cup Matching]
    \cup [type : Topics, of : Nat, fields : SUBSET {"data", "extrinsic"}]

Submission == {Operation.submit_data, Operation.submit_extrinsic}

\* A submission that is under way or has returned is of the request the
\* connection is at; its transaction is in a block once it is past its first
\* request, or has connected for it.
SubmitInv(c) ==
    /\ call[c].pc # "idle" \/ call[c].result # "none" =>
          taken[c] < Len(requests[c]) /\ requests[c][taken[c] + 1] \in {"data", "extrinsic"}
    /\ call[c].pc # "idle" => call[c].todo \in Submission \/ (call[c].todo = <<"read">> /\ included[c] > 0)
    /\ call[c].pc \in {"write", "state"} \/ call[c].result = "ok" => included[c] > 0

AnswerInv ==
    /\ requests \in [Conn -> Seq(Payload)]
    /\ taken \in [Conn -> Nat]
    /\ outbox \in [Conn -> Seq(Message)]
    /\ \A c \in Conn : taken[c] <= Len(requests[c]) /\ SubmitInv(c)
    /\ AnsweredInOrder

\* A connection is its id's sender until it is replaced; one that was never
\* made is nobody's sender and was sent nothing.
WindowInv ==
    /\ clients \in [DOMAIN clients -> [subscription : Subscription, sender : Conn \cup {None}]]
    /\ conn \in [Conn -> Id \cup {None}]
    /\ pos \in [Topics -> Nat]
    /\ unreadable \in [Topics -> SUBSET Nat]
    /\ window \in [Conn -> Window \cup {None}]
    /\ \A t \in Topics : \A n \in unreadable[t] : n <= pos[t]
    /\ \A c \in Conn :
          /\ window[c] = None => conn[c] = None /\ outbox[c] = <<>>
          /\ window[c] # None => \A t \in Topics : window[c].from[t] <= pos[t] /\ LastDue(c, t) <= pos[t]
          /\ conn[c] # None => /\ conn[c] \in DOMAIN clients
                               /\ clients[conn[c]].sender = c <=> window[c].to = None
    /\ \A id \in DOMAIN clients :
          LET c == clients[id].sender
          IN  c # None => window[c] # None /\ conn[c] \in {None, id}
    /\ PublishedToLatest
=============================================================================
