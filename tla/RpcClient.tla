----------------------------- MODULE RpcClient -----------------------------
(***************************************************************************)
(* The RPC client (network/rpc/client.rs), shared by every task of the     *)
(* light client.  A request is tried on the current connection; when its   *)
(* retries are used up the caller looks for another node, reconnects and   *)
(* replaces the connection for everybody.  Callers run concurrently, and   *)
(* every lock is released between two steps.                               *)
(*                                                                         *)
(* A node is up or down.  A request to a node that is up succeeds; one to  *)
(* a node that is down, or that has not got the block, fails.  A node of   *)
(* another chain is always up: it is refused either way.                   *)
(***************************************************************************)
EXTENDS Naturals, Sequences, FiniteSets, Functions

CONSTANT
    None,
    Node,       \* the full nodes of the configuration
    Matching,   \* those of the configured genesis hash and a known version
    Caller,     \* the tasks that call the client
    Stream,     \* the one that runs the subscription loop over subscription_stream
    Retries,    \* delays of the retry configuration
    Scenarios   \* for each behaviour: whether transactions are accepted, and
                \* bounds on node failures and recoveries, shutdowns, calls of
                \* the subscription loop, and on the connections' closes,
                \* requests (and what they are) and published messages

Payload == {"binary", "invalid", "version", "status", "empty", "data", "extrinsic"}

ASSUME RpcAssumption ==
    /\ Matching \subseteq Node
    /\ IsFiniteSet(Node)
    /\ None \notin Node
    /\ Stream \in Caller
    /\ Retries \in Nat
    /\ Scenarios \subseteq [submitter : BOOLEAN, flaps : Nat, stops : Nat, calls : Nat,
                           closes : Nat, requests : Nat, messages : Nat,
                           payloads : SUBSET Payload]

VARIABLE
    up,             \* nodes that answer
    flaps,
    subxt_client,   \* node of the current connection
    connected_node, \* State.connected_node
    call,           \* of each caller: the operation it is in
    stream,         \* node the subscriptions come from, None when ended
    included,       \* of each caller: how often its transaction got into a block
    stopped,        \* the shutdown signal
    calls,          \* calls of the subscription loop
    scenario        \* the configuration and the bounds of this behaviour

rpcVars == <<up, flaps, subxt_client, connected_node, call, stream, included, stopped, calls, scenario>>

\* A request is a "read", a "find" that may answer with nothing, a "data"
\* or "extrinsic" transaction, the "subscribe" of the stream, or "local"
\* (not sent to the node).
Request == {"read", "find", "data", "extrinsic", "subscribe", "local"}

\* The requests an operation makes one after the other.
Operation ==
    [get_block_hash |-> <<"find">>,
     get_header_by_hash |-> <<"read">>,
     get_validator_set_by_hash |-> <<"read">>,
     get_finalized_head_hash |-> <<"read">>,
     get_chain_head_header |-> <<"read", "read">>,
     request_kate_rows |-> <<"read">>,
     request_kate_proof |-> <<"read">>,
     get_system_version |-> <<"read">>,
     get_runtime_version |-> <<"local">>,
     get_validator_set_by_block_number |-> <<"find", "read">>,
     fetch_set_id_at |-> <<"find">>,
     get_current_set_id_by_block_number |-> <<"find", "find">>,
     get_header_by_block_number |-> <<"find", "read">>,
     get_validator_set_at |-> <<"read">>,
     create_subxt_subscriptions |-> <<"subscribe">>,
     submit_data |-> <<"data", "read">>,
     submit_extrinsic |-> <<"extrinsic", "read">>]

Idle(result) ==
    [pc |-> "idle", todo |-> <<>>, n |-> 0, list |-> <<>>, i |-> 0, host |-> None,
     steady |-> {}, switched |-> FALSE, result |-> result]

\* A caller enters with_retries for the first request of todo.
Begin(todo) == [Idle("none") EXCEPT !.pc = "attempt", !.todo = todo, !.steady = up \cap Matching]

\* Nodes::shuffle: any order of the other nodes, or the only one there is.
shuffle(current_host) ==
    LET list == IF Cardinality(Node) <= 1 THEN Node ELSE Node \ {current_host}
    IN {s \in [1..Cardinality(list) -> list] : \A host \in list : \E i \in DOMAIN s : s[i] = host}

\* Whether a node that is connected executes the request: a transaction
\* signed elsewhere is refused when it is in a block already.
Executes(c, host) ==
    \/ call[c].todo[1] = "local"
    \/ host \in up /\ (call[c].todo[1] = "extrinsic" => included[c] = 0)

\* A submitted transaction is in a block when it was waited for, and may be
\* when the connection broke before.
Includes(c, executes) ==
    IF call[c].todo[1] \in {"data", "extrinsic"}
    THEN \E more \in (IF executes THEN {1} ELSE {0, 1}) :
            /\ (more = 1 /\ call[c].todo[1] = "extrinsic") => included[c] = 0
            /\ included' = [included EXCEPT ![c] = @ + more]
    ELSE UNCHANGED included

-----------------------------------------------------------------------------
\* Client::new has connected to a node of the shuffled list, and a first
\* header has come from its subscriptions.
RpcInit ==
    /\ up \in SUBSET Node /\ Node \ Matching \subseteq up
    /\ flaps = 0
    /\ subxt_client \in Matching \cap up
    /\ connected_node = subxt_client
    /\ call = [c \in Caller |-> Idle("none")]
    /\ stream = subxt_client
    /\ included = [c \in Caller |-> 0]
    /\ stopped = FALSE
    /\ calls = 0
    /\ scenario \in Scenarios

Flap(host) ==
    /\ flaps < scenario.flaps
    /\ flaps' = flaps + 1
    /\ up' = IF host \in up THEN up \ {host} ELSE up \cup {host}
    /\ call' = [c \in Caller |-> [call[c] EXCEPT !.steady = @ \ {host}]]
    /\ UNCHANGED <<subxt_client, connected_node, stream, included, stopped, calls, scenario>>

Stop ==
    /\ ~stopped /\ scenario.stops > 0
    /\ stopped' = TRUE
    /\ UNCHANGED <<up, flaps, subxt_client, connected_node, call, stream, included, calls, scenario>>

\* with_retries returns Ok: on to the next request, unless the block asked
\* for was not found.
Succeed(c, host) ==
    LET todo == call[c].todo IN
    \E found \in IF todo[1] = "find" THEN BOOLEAN ELSE {TRUE} :
        /\ call' = [call EXCEPT ![c] =
                       IF ~found THEN Idle("missing")
                       ELSE IF Len(todo) > 1 THEN Begin(Tail(todo))
                       ELSE Idle("ok")]
        /\ stream' = IF todo[1] = "subscribe" THEN host ELSE stream

Fail(c, why) ==
    call' = [call EXCEPT ![c] = [Idle(why) EXCEPT !.todo = call[c].todo, !.steady = call[c].steady,
                                                  !.switched = call[c].switched]]

\* An attempt on the current connection, which is read for every attempt.
Attempt(c) ==
    /\ call[c].pc = "attempt" /\ ~stopped
    /\ LET ok == Executes(c, subxt_client) IN
       /\ Includes(c, ok)
       /\ IF ok THEN Succeed(c, subxt_client)
          ELSE /\ call' = [call EXCEPT ![c] =
                              IF call[c].n < Retries THEN [@ EXCEPT !.n = call[c].n + 1]
                              ELSE [@ EXCEPT !.pc = "select", !.host = subxt_client]]
               /\ UNCHANGED stream
    /\ UNCHANGED <<up, flaps, subxt_client, connected_node, stopped, calls, scenario>>

\* A select that keeps only the first of the shuffled nodes.
MutSelect(c) ==
    /\ call[c].pc = "select"
    /\ \E list \in shuffle(connected_node) :
          call' = [call EXCEPT ![c] = [@ EXCEPT !.pc = "connect", !.list = <<list[1]>>, !.i = 1, !.n = 0,
                                                !.switched = call[c].host # connected_node]]
    /\ UNCHANGED <<up, flaps, subxt_client, connected_node, stream, included, stopped, calls, scenario>>

\* Every attempt failed: the other nodes, without State.connected_node.
Select(c) ==
    /\ call[c].pc = "select"
    /\ \E list \in shuffle(connected_node) :
          call' = [call EXCEPT ![c] = [@ EXCEPT !.pc = "connect", !.list = list, !.i = 1, !.n = 0,
                                                !.switched = call[c].host # connected_node]]
    /\ UNCHANGED <<up, flaps, subxt_client, connected_node, stream, included, stopped, calls, scenario>>

\* Retries that start over without counting.
MutTryConnect(c) ==
    /\ call[c].pc = "connect" /\ ~stopped
    /\ LET host == call[c].list[call[c].i] IN
       IF host \in up \cap Matching /\ Executes(c, host)
       THEN /\ Includes(c, TRUE)
            /\ call' = [call EXCEPT ![c] = [@ EXCEPT !.pc = "write", !.host = host]]
       ELSE /\ UNCHANGED included
            /\ call' = [call EXCEPT ![c] = [@ EXCEPT !.i = (@ % Len(call[c].list)) + 1]]
    /\ UNCHANGED <<up, flaps, subxt_client, connected_node, stream, stopped, calls, scenario>>

\* create_subxt_client checks the node, then the request is executed on it.
TryConnect(c) ==
    /\ call[c].pc = "connect" /\ ~stopped
    /\ LET host == call[c].list[call[c].i]
           connects == host \in up \cap Matching
           ok == connects /\ Executes(c, host)
       IN /\ IF connects THEN Includes(c, ok) ELSE UNCHANGED included
          /\ IF ok THEN call' = [call EXCEPT ![c] = [@ EXCEPT !.pc = "write", !.host = host]]
             ELSE IF call[c].i < Len(call[c].list)
                  THEN call' = [call EXCEPT ![c] = [@ EXCEPT !.i = call[c].i + 1]]
             ELSE IF call[c].n < Retries
                  THEN call' = [call EXCEPT ![c] = [@ EXCEPT !.i = 1, !.n = call[c].n + 1]]
             ELSE Fail(c, "error")
    /\ UNCHANGED <<up, flaps, subxt_client, connected_node, stream, stopped, calls, scenario>>

\* The new connection is stored first, the node it belongs to afterwards.
WriteClient(c) ==
    /\ call[c].pc = "write"
    /\ subxt_client' = call[c].host
    /\ call' = [call EXCEPT ![c] = [@ EXCEPT !.pc = "state"]]
    /\ UNCHANGED <<up, flaps, connected_node, stream, included, stopped, calls, scenario>>

WriteNode(c) ==
    /\ call[c].pc = "state"
    /\ connected_node' = call[c].host
    /\ Succeed(c, call[c].host)
    /\ UNCHANGED <<up, flaps, subxt_client, included, stopped, calls, scenario>>

\* with_cancel: both retry loops end at a shutdown.
Cancel(c) ==
    /\ call[c].pc \in {"attempt", "connect"} /\ stopped
    /\ Fail(c, "cancelled")
    /\ UNCHANGED <<up, flaps, subxt_client, connected_node, stream, included, stopped, calls, scenario>>

\* subscription_stream: the stream ends or yields an error when its node is
\* down, and is created anew.
StreamBreaks ==
    /\ call[Stream].pc = "idle" /\ stream # None
    /\ stream \notin up
    /\ stream' = None
    /\ call' = [call EXCEPT ![Stream] = Begin(Operation.create_subxt_subscriptions)]
    /\ UNCHANGED <<up, flaps, subxt_client, connected_node, included, stopped, calls, scenario>>

\* The task of the subscription loop asks the node for something between two
\* items; a task that samples or fetches rows asks in the same way.
LoopCalls ==
    /\ call[Stream].pc = "idle" /\ stream # None
    /\ calls < scenario.calls
    /\ calls' = calls + 1
    /\ \E op \in DOMAIN Operation \ {"create_subxt_subscriptions", "submit_data", "submit_extrinsic"} :
          call' = [call EXCEPT ![Stream] = Begin(Operation[op])]
    /\ UNCHANGED <<up, flaps, subxt_client, connected_node, stream, included, stopped, scenario>>

CallStep(c) == Attempt(c) \/ Select(c) \/ TryConnect(c) \/ WriteClient(c) \/ WriteNode(c) \/ Cancel(c)

RpcNext ==
    \/ \E host \in Matching : Flap(host)
    \/ Stop
    \/ \E c \in Caller : CallStep(c)
    \/ StreamBreaks
    \/ LoopCalls
-----------------------------------------------------------------------------
\* A request that the chain refuses because it was executed before.
Refused(c) == call[c].todo # <<>> /\ call[c].todo[1] = "extrinsic" /\ included[c] > 0

\* "find another Node where this could still be done" (with_retries): a call
\* gives up although a suitable node answered all the time only if, when it
\* chose its nodes, State named another one than it had failed on (another
\* call had replaced the connection, and the good node was left out), or if
\* the transaction it repeats is in a block already.
FailsOnlyAfterSwitch ==
    \A c \in Caller : call[c].result = "error" =>
        call[c].steady = {} \/ call[c].switched \/ Refused(c)

\* The connection and the subscriptions always belong to a node of the
\* configured chain, whoever replaced them.
ConnectedToChain ==
    /\ {subxt_client, connected_node} \subseteq Matching
    /\ stream \in Matching \cup {None}

\* A call that was r is nearer to its end as s: it has ended, fewer requests are
\* left, the request is at a later stage of with_retries, or it is at the same
\* one and a delay, or a node of this round, is used up.
Stage == [attempt |-> 1, select |-> 2, connect |-> 3, write |-> 4, state |-> 5]

Nearer(r, s) ==
    \/ s.pc = "idle"
    \/ Len(s.todo) < Len(r.todo)
    \/ s.todo = r.todo /\ Stage[r.pc] < Stage[s.pc]
    \/ /\ s.todo = r.todo /\ s.pc = r.pc
       /\ \/ r.n < s.n /\ s.n <= Retries
          \/ s.n = r.n /\ s.list = r.list /\ r.i < s.i /\ s.i <= Len(r.list)

\* No call is kept busy for ever: each of its own steps brings it nearer to its
\* end, by an order in which it cannot go on for ever, and no other task (one
\* that replaces the connection under it, a node that fails or comes back)
\* ever sets it back.
CallsGetNearer ==
    [][\A c \in Caller : call[c].pc # "idle" =>
           IF CallStep(c) THEN Nearer(call[c], call'[c])
           ELSE [call'[c] EXCEPT !.steady = call[c].steady] = call[c]]_rpcVars

\* The types of what FailsOnlyAfterSwitch and ConnectedToChain depend on.
CallType ==
    [pc : {"idle", "attempt", "select", "connect", "write", "state"},
     todo : Seq(Request), n : Nat, list : Seq(Node), i : Nat, host : Node \cup {None},
     steady : SUBSET Node, switched : BOOLEAN, result : {"none", "ok", "missing", "error", "cancelled"}]

RpcTypeOK ==
    /\ up \subseteq Node
    /\ call \in [Caller -> CallType]
    /\ included \in [Caller -> Nat]

\* What a call has learnt: the host it failed on is not a steady one, and the
\* steady nodes are among those it has still to try.
Failover(c) ==
    /\ call[c].pc # "idle" => call[c].todo # <<>> /\ call[c].result = "none"
    /\ call[c].steady \subseteq up \cap Matching \/ call[c].pc = "idle"
    /\ call[c].pc = "select" => call[c].host \notin call[c].steady \/ Refused(c)
    /\ call[c].pc = "connect" =>
          /\ call[c].i \in DOMAIN call[c].list
          /\ \/ call[c].switched \/ Refused(c)
             \/ call[c].steady \subseteq {call[c].list[j] : j \in call[c].i..Len(call[c].list)}
    /\ call[c].pc \in {"write", "state"} => call[c].host \in Matching

RpcInv == RpcTypeOK /\ ConnectedToChain /\ FailsOnlyAfterSwitch /\ \A c \in Caller : Failover(c)
=============================================================================
