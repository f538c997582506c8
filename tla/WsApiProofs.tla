---------------------------- MODULE WsApiProofs ----------------------------
(***************************************************************************)
(* Answers and publications of WsApi, for any nodes, retries, clients,     *)
(* topics and web socket connections.  WindowInv says that the             *)
(* notifications in the outbox of a connection are those published while   *)
(* the connection was the sender of its client.  It is inductive together  *)
(* with AnswerInv: a response leaves the notifications alone, and a        *)
(* notification the responses.  Both rest on one lemma about an outbox,    *)
(* that a message appended after the others extends what was delivered by  *)
(* exactly that message (OneMore).                                         *)
(***************************************************************************)
EXTENDS RpcProofs

\* WindowInv of one connection: its window w, its id x and its outbox.
Due(w, p, un, topics, t) ==
    IF t \in topics THEN (w.from[t] + 1 .. IF w.to = None THEN p[t] ELSE w.to[t]) \ un[t] ELSE {}

Within(w, p) ==
    w # None => \A t \in Topics : w.from[t] <= p[t] /\ (IF w.to = None THEN p[t] ELSE w.to[t]) <= p[t]

Published(c, w, x, cl, p, un, box) ==
    /\ w = None => x = None /\ box = <<>>
    /\ Within(w, p)
    /\ x # None => /\ x \in DOMAIN cl
                   /\ cl[x].sender = c <=> w.to = None
                   /\ \A t \in Topics : Delivered(box, t, Due(w, p, un, cl[x].subscription.topics, t))

\* The rest of it: the types, and the senders.
WindowTypes(w, x, cl, p, un) ==
    /\ cl \in [DOMAIN cl -> [subscription : Subscription, sender : Conn \cup {None}]]
    /\ x \in [Conn -> Id \cup {None}]
    /\ p \in [Topics -> Nat]
    /\ un \in [Topics -> SUBSET Nat]
    /\ w \in [Conn -> Window \cup {None}]
    /\ \A t \in Topics : \A n \in un[t] : n <= p[t]

Senders(w, x, cl) ==
    \A id \in DOMAIN cl : cl[id].sender # None => w[cl[id].sender] # None /\ x[cl[id].sender] \in {None, id}

LEMMA WindowIsParts ==
    WindowInv <=> /\ WindowTypes(window, conn, clients, pos, unreadable) /\ Senders(window, conn, clients)
                  /\ \A c \in Conn : Published(c, window[c], conn[c], clients, pos, unreadable, outbox[c])
<1>1. PublishedToLatest <=> \A c \in Conn : conn[c] # None =>
         \A t \in Topics : Delivered(outbox[c], t, Due(window[c], pos, unreadable, clients[conn[c]].subscription.topics, t))
  BY Zenon DEF PublishedToLatest, Due, LastDue
<1>2. \A c \in Conn : Within(window[c], pos) <=>
         (window[c] # None => \A t \in Topics : window[c].from[t] <= pos[t] /\ LastDue(c, t) <= pos[t])
  BY Zenon DEF Within, LastDue
<1> QED BY <1>1, <1>2, Zenon DEF WindowInv, WindowTypes, Senders, Published

LEMMA WindowIsPartsNext ==
    WindowInv' <=> /\ WindowTypes(window', conn', clients', pos', unreadable') /\ Senders(window', conn', clients')
                   /\ \A c \in Conn : Published(c, window'[c], conn'[c], clients', pos', unreadable', outbox'[c])
<1>1. PublishedToLatest' <=> \A c \in Conn : conn'[c] # None =>
         \A t \in Topics : Delivered(outbox'[c], t, Due(window'[c], pos', unreadable', clients'[conn'[c]].subscription.topics, t))
  BY Zenon DEF PublishedToLatest, Due, LastDue, Delivered
<1>2. \A c \in Conn : Within(window'[c], pos') <=>
         (window'[c] # None => \A t \in Topics : window'[c].from[t] <= pos'[t] /\ LastDue(c, t)' <= pos'[t])
  BY Zenon DEF Within, LastDue
<1> QED BY <1>1, <1>2, Zenon DEF WindowInv, WindowTypes, Senders, Published

LEMMA WindowsFrame ==
    ASSUME WindowInv, UNCHANGED <<clients, conn, window, pos, unreadable, outbox>>
    PROVE  WindowInv'
BY WindowIsParts, WindowIsPartsNext, Zenon

\* An answer is not a publication.
LEMMA AnswerIsNotPublished ==
    ASSUME NEW C, NEW c, NEW w, NEW x, NEW cl, NEW p, NEW un, NEW box \in Seq(C), NEW m \in C, m.type = "response",
           x # None, Published(c, w, x, cl, p, un, box)
    PROVE  Published(c, w, x, cl, p, un, Append(box, m))
<1>1. w # None /\ \A t \in Topics : t # m.type
  BY WsAssumption DEF Published
<1>2. ASSUME NEW t \in Topics
      PROVE  Delivered(Append(box, m), t, Due(w, p, un, cl[x].subscription.topics, t))
  <2> DEFINE due == Due(w, p, un, cl[x].subscription.topics, t)
  <2>1. Delivered(box, t, due)
    BY Zenon DEF Published
  <2> HIDE DEF due
  <2>2. Delivered(Append(box, m), t, due)
    BY <1>1, <2>1, OneMore, Zenon
  <2> QED BY <2>2 DEF due
<1> QED BY <1>1, <1>2, Zenon DEF Published

LEMMA RespondWindows ==
    ASSUME AnswerInv, WindowInv, NEW c \in Conn, NEW m \in Message, m.type = "response", conn[c] # None,
           outbox' = [outbox EXCEPT ![c] = Append(outbox[c], m)],
           UNCHANGED <<clients, conn, window, pos, unreadable>>
    PROVE  WindowInv'
<1>1. outbox'[c] = Append(outbox[c], m) /\ \A d \in Conn : d # c => outbox'[d] = outbox[d]
  BY DEF AnswerInv
<1>2. Published(c, window[c], conn[c], clients, pos, unreadable, outbox'[c])
  <2>1. Published(c, window[c], conn[c], clients, pos, unreadable, outbox[c])
    BY WindowIsParts
  <2> QED BY <1>1, <2>1, AtConnection, AnswerIsNotPublished
<1>3. \A d \in Conn : Published(d, window[d], conn[d], clients, pos, unreadable, outbox'[d])
  <2> TAKE d \in Conn
  <2>1. CASE d = c
    BY <1>2, <2>1
  <2>2. CASE d # c
    BY <1>1, <2>2, WindowIsParts
  <2> QED BY <2>1, <2>2
<1> QED BY <1>3, WindowIsParts, WindowIsPartsNext, Zenon

LEMMA HandleWindows ==
    ASSUME RpcInv, AnswerInv, WindowInv, NEW c \in Conn, Handle(c)
    PROVE  WindowInv'
<1> DEFINE m(kind) == [type |-> "response", of |-> taken[c] + 1, kind |-> kind, blocks |-> included[c]]
<1>1. UNCHANGED <<clients, conn, window, pos, unreadable>> /\ conn[c] # None
  BY DEF Handle, HasRequest, connVars, topicVars
<1>2. CASE UNCHANGED outbox
  BY <1>1, <1>2, WindowsFrame
<1>3. CASE \E kind \in {"version", "bad-request"} \cup Matching : outbox' = [outbox EXCEPT ![c] = Append(outbox[c], m(kind))]
  <2>1. PICK kind \in {"version", "bad-request"} \cup Matching : outbox' = [outbox EXCEPT ![c] = Append(outbox[c], m(kind))]
    BY <1>3, Zenon
  <2>2. included[c] \in Nat /\ taken[c] + 1 \in Nat
    BY WsAssumption, AtConnection DEF RpcInv, RpcTypeOK
  <2>3. m(kind) \in Message /\ m(kind).type = "response"
    BY <2>2 DEF Message
  <2> HIDE DEF m
  <2> QED BY <1>1, <2>1, <2>3, RespondWindows, Zenon
<1>4. connected_node \in Matching
  BY DEF RpcInv, ConnectedToChain
<1> QED BY <1>2, <1>3, <1>4, Zenon DEF Handle, Respond

LEMMA SubmittedWindows ==
    ASSUME RpcInv, AnswerInv, WindowInv, NEW c \in Conn, Submitted(c)
    PROVE  WindowInv'
<1> DEFINE kind == IF call[c].result = "ok" THEN "submitted" ELSE "internal-server-error"
           m == [type |-> "response", of |-> taken[c] + 1, kind |-> kind, blocks |-> included[c]]
<1>1. UNCHANGED <<clients, conn, window, pos, unreadable>> /\ conn[c] # None
  BY DEF Submitted, HasRequest, connVars, topicVars
<1>2. included[c] \in Nat /\ taken[c] + 1 \in Nat
  BY WsAssumption, AtConnection DEF RpcInv, RpcTypeOK
<1>3. m \in Message /\ m.type = "response"
  BY <1>2 DEF Message
<1>4. outbox' = [outbox EXCEPT ![c] = Append(outbox[c], m)]
  BY DEF Submitted, Respond
<1> HIDE DEF m
<1> QED BY <1>1, <1>3, <1>4, RespondWindows, Zenon

LEMMA SubscribeWindows ==
    ASSUME WindowInv, NEW id \in Id, subscribe(id)
    PROVE  WindowInv'
<1>1. PICK s \in Subscription :
         clients' = [x \in DOMAIN clients \cup {id} |->
                        IF x = id THEN [subscription |-> s, sender |-> None] ELSE clients[x]]
  BY Zenon DEF subscribe
<1>2. id \notin DOMAIN clients /\ UNCHANGED <<conn, window, pos, unreadable, outbox>>
  BY DEF subscribe, topicVars
<1>3. /\ WindowTypes(window, conn, clients, pos, unreadable) /\ Senders(window, conn, clients)
      /\ \A c \in Conn : Published(c, window[c], conn[c], clients, pos, unreadable, outbox[c])
  BY WindowIsParts
<1>4. /\ DOMAIN clients' = DOMAIN clients \cup {id} /\ \A x \in DOMAIN clients : clients'[x] = clients[x]
      /\ clients'[id].sender = None /\ clients'[id] \in [subscription : Subscription, sender : Conn \cup {None}]
  BY <1>1, <1>2
<1>5. clients' \in [DOMAIN clients' -> [subscription : Subscription, sender : Conn \cup {None}]]
  BY <1>1, <1>3, <1>4 DEF WindowTypes
<1>6. \A c \in Conn : Published(c, window[c], conn[c], clients', pos, unreadable, outbox[c])
  BY <1>3, <1>4, Zenon DEF Published
<1>7. Senders(window, conn, clients')
  BY <1>3, <1>4 DEF Senders
<1>8. WindowTypes(window, conn, clients', pos, unreadable)
  BY <1>3, <1>5, Zenon DEF WindowTypes
<1> QED BY <1>2, <1>6, <1>7, <1>8, WindowIsPartsNext, Zenon

LEMMA CloseWindows ==
    ASSUME WindowInv, NEW c \in Conn, Close(c)
    PROVE  WindowInv'
<1>1. conn' = [conn EXCEPT ![c] = None] /\ UNCHANGED <<clients, window, pos, unreadable, outbox>>
  BY DEF Close, topicVars
<1>2. /\ WindowTypes(window, conn, clients, pos, unreadable) /\ Senders(window, conn, clients)
      /\ \A d \in Conn : Published(d, window[d], conn[d], clients, pos, unreadable, outbox[d])
      /\ window[c] # None
  BY WindowIsParts DEF Published, Close
<1>3. conn' \in [Conn -> Id \cup {None}] /\ \A d \in Conn : conn'[d] \in {conn[d], None} /\ (d # c => conn'[d] = conn[d])
  BY <1>1, <1>2 DEF WindowTypes
<1>4. ASSUME NEW d \in Conn
      PROVE  Published(d, window[d], conn'[d], clients, pos, unreadable, outbox[d])
  BY <1>2, <1>3, Zenon DEF Published
<1>5. Senders(window, conn', clients)
  <2> SUFFICES ASSUME NEW x \in DOMAIN clients, clients[x].sender # None
               PROVE  window[clients[x].sender] # None /\ conn'[clients[x].sender] \in {None, x}
    BY Zenon DEF Senders
  <2>1. clients[x].sender \in Conn
    BY <1>2 DEF WindowTypes
  <2> QED BY <1>2, <1>3, <2>1 DEF Senders
<1>6. WindowTypes(window, conn', clients, pos, unreadable)
  BY <1>2, <1>3, Zenon DEF WindowTypes
<1> QED BY <1>1, <1>4, <1>5, <1>6, WindowIsPartsNext, Zenon

LEMMA ConnectWindows ==
    ASSUME WindowInv, NEW c \in Conn, NEW id \in Id, connect(c, id)
    PROVE  WindowInv'
<1> DEFINE s == clients[id].sender
           fresh == [from |-> pos, to |-> None]
<1>1. /\ conn[c] = None /\ window[c] = None /\ id \in DOMAIN clients
      /\ conn' = [conn EXCEPT ![c] = id] /\ clients' = [clients EXCEPT ![id] = [clients[id] EXCEPT !.sender = c]]
      /\ window' = [d \in Conn |-> IF d = c THEN fresh
                                   ELSE IF d = s THEN [window[d] EXCEPT !.to = pos] ELSE window[d]]
      /\ UNCHANGED <<pos, unreadable, outbox>>
  BY DEF connect, topicVars
<1>2. /\ WindowTypes(window, conn, clients, pos, unreadable) /\ Senders(window, conn, clients)
      /\ \A d \in Conn : Published(d, window[d], conn[d], clients, pos, unreadable, outbox[d])
  BY WindowIsParts
<1>3. /\ clients \in [DOMAIN clients -> [subscription : Subscription, sender : Conn \cup {None}]]
      /\ pos \in [Topics -> Nat] /\ conn \in [Conn -> Id \cup {None}] /\ window \in [Conn -> Window \cup {None}]
  BY <1>2, Zenon DEF WindowTypes
<1>4. None \notin Conn /\ None \notin Id /\ None \notin Window /\ None \notin [Topics -> Nat] /\ pos # None
  BY <1>3, WsAssumption
<1>5. /\ DOMAIN clients' = DOMAIN clients
      /\ clients'[id].sender = c /\ clients'[id].subscription = clients[id].subscription
      /\ \A x \in DOMAIN clients : x # id => clients'[x] = clients[x]
      /\ clients' \in [DOMAIN clients' -> [subscription : Subscription, sender : Conn \cup {None}]]
  BY <1>1, <1>3
<1>6. conn' \in [Conn -> Id \cup {None}] /\ conn'[c] = id /\ \A d \in Conn : d # c => conn'[d] = conn[d]
  BY <1>1, <1>3
<1>7. s \in Conn \cup {None} /\ s # c /\ (s # None => window[s] # None /\ conn[s] \in {None, id})
  <2>1. s \in Conn \cup {None} /\ (s # None => window[s] # None /\ conn[s] \in {None, id})
    BY <1>1, <1>2, <1>3 DEF Senders
  <2> QED BY <1>1, <1>4, <2>1
<1>8. fresh \in Window /\ fresh # None /\ fresh.from = pos /\ fresh.to = None
  BY <1>3, <1>4 DEF Window
<1>9. ASSUME NEW w \in Window
      PROVE  /\ [w EXCEPT !.to = pos] \in Window /\ [w EXCEPT !.to = pos] # None
             /\ [w EXCEPT !.to = pos].to = pos /\ [w EXCEPT !.to = pos].from = w.from
  BY <1>3, <1>4 DEF Window
<1> HIDE DEF s, fresh
<1>10. /\ window'[c] = fresh
       /\ s # None => window'[s] = [window[s] EXCEPT !.to = pos] /\ window[s] \in Window
       /\ \A d \in Conn : d # c /\ d # s => window'[d] = window[d]
  BY <1>1, <1>3, <1>7
<1>11. window' \in [Conn -> Window \cup {None}]
  <2>1. \A d \in Conn : window'[d] \in Window \cup {None}
    <3> TAKE d \in Conn
    <3>1. CASE d = c
      BY <1>8, <1>10, <3>1
    <3>2. CASE d # c /\ d = s
      BY <1>4, <1>9, <1>10, <3>2
    <3>3. CASE d # c /\ d # s
      BY <1>3, <1>10, <3>3
    <3> QED BY <3>1, <3>2, <3>3
  <2> QED BY <1>1, <2>1
<1>12. WindowTypes(window', conn', clients', pos', unreadable')
  BY <1>1, <1>2, <1>5, <1>6, <1>11, Zenon DEF WindowTypes
<1>13. Senders(window', conn', clients')
  <2> SUFFICES ASSUME NEW x \in DOMAIN clients, clients'[x].sender # None
               PROVE  window'[clients'[x].sender] # None /\ conn'[clients'[x].sender] \in {None, x}
    BY <1>5, Zenon DEF Senders
  <2>1. CASE x = id
    BY <1>5, <1>6, <1>8, <1>10, <2>1
  <2>2. CASE x # id
    <3> DEFINE e == clients[x].sender
    <3>1. clients'[x].sender = e /\ e \in Conn /\ window[e] # None /\ conn[e] \in {None, x}
      BY <1>2, <1>3, <1>5, <2>2 DEF Senders
    <3>2. e # c
      BY <1>1, <3>1
    <3> HIDE DEF e
    <3>3. window'[e] # None
      BY <1>7, <1>9, <1>10, <3>1, <3>2
    <3> QED BY <1>6, <3>1, <3>2, <3>3
  <2> QED BY <2>1, <2>2
<1>14. ASSUME NEW d \in Conn
       PROVE  Published(d, window'[d], conn'[d], clients', pos, unreadable, outbox[d])
  <2>0. Published(d, window[d], conn[d], clients, pos, unreadable, outbox[d])
    BY <1>2
  <2>1. CASE d = c
    <3>1. Within(fresh, pos)
      BY <1>3, <1>8 DEF Within
    <3>2. outbox[c] = <<>>
      BY <1>1, <2>0, <2>1 DEF Published
    <3>3. ASSUME NEW t \in Topics, NEW topics
          PROVE  Due(fresh, pos, unreadable, topics, t) = {}
      <4>1. pos[t] \in Nat
        BY <1>3
      <4>2. (pos[t] + 1 .. pos[t]) \ unreadable[t] = {}
        BY <4>1
      <4> QED BY <1>8, <4>2, Zenon DEF Due
    <3>4. \A t \in Topics : Delivered(<<>>, t, Due(fresh, pos, unreadable, clients'[id].subscription.topics, t))
      BY <3>3, NothingDelivered, Zenon
    <3>5. Published(c, fresh, id, clients', pos, unreadable, <<>>)
      BY <1>1, <1>5, <1>8, <3>1, <3>4, Zenon DEF Published
    <3> QED BY <1>6, <1>10, <2>1, <3>2, <3>5
  <2>2. CASE d = s
    <3> DEFINE w == window[s]
               new == [w EXCEPT !.to = pos]
    <3>1. /\ s # None /\ w \in Window /\ w # None /\ window'[d] = new /\ conn'[d] = conn[d] /\ d # c
          /\ conn[d] \in {None, id}
      BY <1>4, <1>6, <1>7, <1>10, <2>2
    <3>2. new \in Window /\ new # None /\ new.to = pos /\ new.from = w.from /\ new.to # None
      BY <1>4, <1>9, <3>1
    <3> HIDE DEF w, new
    <3>3. Within(new, pos)
      <4>1. \A t \in Topics : w.from[t] <= pos[t]
        BY <2>0, <2>2, <3>1 DEF Published, Within, w
      <4>2. \A t \in Topics : pos[t] <= pos[t]
        BY <1>3
      <4> QED BY <3>2, <4>1, <4>2, Zenon DEF Within
    <3>4. conn[d] # None =>
             /\ conn[d] = id /\ clients'[id].sender # d /\ w.to = None
             /\ \A t \in Topics : Delivered(outbox[d], t, Due(w, pos, unreadable, clients[id].subscription.topics, t))
      BY <1>5, <2>0, <2>2, <3>1, Zenon DEF Published, s, w
    <3>5. \A topics : \A t \in Topics : w.to = None => Due(new, pos, unreadable, topics, t) = Due(w, pos, unreadable, topics, t)
      BY <3>2, Zenon DEF Due
    <3>6. Published(d, new, conn[d], clients', pos, unreadable, outbox[d])
      <4>1. CASE conn[d] = None
        BY <3>2, <3>3, <4>1, Zenon DEF Published
      <4>2. CASE conn[d] # None
        <5>1. \A t \in Topics : Delivered(outbox[d], t, Due(new, pos, unreadable, clients'[id].subscription.topics, t))
          BY <1>5, <3>4, <3>5, <4>2, Zenon
        <5>2. conn[d] = id /\ id \in DOMAIN clients' /\ clients'[id].sender # d
          BY <1>1, <1>5, <3>4, <4>2
        <5> QED BY <3>2, <3>3, <5>1, <5>2, Zenon DEF Published
      <4> QED BY <4>1, <4>2
    <3> QED BY <3>1, <3>6
  <2>3. CASE d # c /\ d # s
    <3>1. window'[d] = window[d] /\ conn'[d] = conn[d]
      BY <1>6, <1>10, <2>3
    <3>2. CASE conn[d] = id
      <4>1. clients'[id].sender # d /\ clients[id].sender # d /\ clients'[id].subscription = clients[id].subscription
        BY <1>5, <2>3 DEF s
      <4> QED BY <1>5, <2>0, <3>1, <3>2, <4>1, Zenon DEF Published
    <3>3. CASE conn[d] # id
      BY <1>5, <2>0, <3>1, <3>3, Zenon DEF Published
    <3> QED BY <3>2, <3>3
  <2> QED BY <2>1, <2>2, <2>3
<1>15. \A d \in Conn : Published(d, window'[d], conn'[d], clients', pos', unreadable', outbox'[d])
  BY <1>1, <1>14, Zenon
<1> QED BY <1>12, <1>13, <1>15, WindowIsPartsNext, Zenon

LEMMA PublishWindows ==
    ASSUME AnswerInv, WindowInv, NEW t \in Topics, PublishNext(t)
    PROVE  WindowInv'
<1>1. pos' = [pos EXCEPT ![t] = pos[t] + 1] /\ UNCHANGED <<clients, conn, window>>
  BY DEF PublishNext, connVars
<1>2. /\ WindowTypes(window, conn, clients, pos, unreadable) /\ Senders(window, conn, clients)
      /\ \A d \in Conn : Published(d, window[d], conn[d], clients, pos, unreadable, outbox[d])
  BY WindowIsParts
<1>3. /\ pos \in [Topics -> Nat] /\ unreadable \in [Topics -> SUBSET Nat] /\ pos[t] \in Nat
      /\ window \in [Conn -> Window \cup {None}]
      /\ clients \in [DOMAIN clients -> [subscription : Subscription, sender : Conn \cup {None}]]
      /\ \A u \in Topics : \A n \in unreadable[u] : n <= pos[u]
  BY <1>2 DEF WindowTypes
<1>4. pos' \in [Topics -> Nat] /\ pos'[t] = pos[t] + 1 /\ \A u \in Topics : pos[u] <= pos'[u] /\ (u # t => pos'[u] = pos[u])
  BY <1>1, <1>3
<1>5. \A d \in Conn : Within(window[d], pos')
  <2> SUFFICES ASSUME NEW d \in Conn, window[d] # None, NEW u \in Topics
               PROVE  /\ window[d].from[u] <= pos'[u]
                      /\ (IF window[d].to = None THEN pos'[u] ELSE window[d].to[u]) <= pos'[u]
    BY Zenon DEF Within
  <2>1. window[d] \in Window /\ window[d].from[u] <= pos[u]
        /\ (IF window[d].to = None THEN pos[u] ELSE window[d].to[u]) <= pos[u]
    BY <1>2, <1>3 DEF Published, Within
  <2>2. window[d].from[u] \in Nat /\ (window[d].to # None => window[d].to[u] \in Nat)
    BY <2>1 DEF Window
  <2>3. pos[u] \in Nat /\ pos'[u] \in Nat /\ pos[u] <= pos'[u]
    BY <1>3, <1>4
  <2> QED BY <2>1, <2>2, <2>3, SMTT(30)
<1>6. ASSUME NEW d \in Conn, conn[d] # None, NEW topics
      PROVE  LET due(u) == Due(window[d], pos, unreadable, topics, u)
                 more == [unreadable EXCEPT ![t] = unreadable[t] \cup {pos[t] + 1}]
             IN  /\ \A u \in Topics : Due(window[d], pos', more, topics, u) = due(u)
                 /\ \A u \in Topics \ {t} : Due(window[d], pos', unreadable, topics, u) = due(u)
                 /\ window[d].to # None \/ t \notin topics => Due(window[d], pos', unreadable, topics, t) = due(t)
                 /\ window[d].to = None /\ t \in topics =>
                       Due(window[d], pos', unreadable, topics, t) = due(t) \cup {pos[t] + 1}
                 /\ window[d].to = None => \A n \in due(t) : n < pos[t] + 1
  <2> DEFINE w == window[d]
             p == pos[t]
             f == w.from[t]
             U == unreadable[t]
             more == [unreadable EXCEPT ![t] = U \cup {p + 1}]
  <2>1. w # None /\ w \in Window
    BY <1>2, <1>3, <1>6 DEF Published
  <2>2. f <= p /\ (IF w.to = None THEN p ELSE w.to[t]) <= p
    BY <1>2, <2>1 DEF Published, Within
  <2>3. f \in Nat /\ p \in Nat /\ U \in SUBSET Nat /\ (\A n \in U : n <= p) /\ (w.to # None => w.to[t] \in Nat)
    BY <1>3, <2>1 DEF Window
  <2>4. more[t] = U \cup {p + 1} /\ \A u \in Topics : u # t => more[u] = unreadable[u]
    BY <1>3
  <2> HIDE DEF w, p, f, U, more
  \* One more message of a topic that is not converted: it is due to nobody.
  \* One that is: it is due, last, to the senders that are subscribed.
  <2>5. /\ (f + 1 .. p + 1) \ (U \cup {p + 1}) = (f + 1 .. p) \ U
        /\ (f + 1 .. p + 1) \ U = ((f + 1 .. p) \ U) \cup {p + 1}
        /\ \A n \in (f + 1 .. p) \ U : n < p + 1
        /\ \A l \in Nat : l <= p => (f + 1 .. l) \ (U \cup {p + 1}) = (f + 1 .. l) \ U
    <3>1. f \in Nat /\ p \in Nat /\ f <= p /\ U \in SUBSET Nat /\ \A n \in U : n <= p
      BY <2>2, <2>3, Zenon
    <3> QED BY <3>1, SMTT(30)
  <2>6. pos'[t] = p + 1 /\ p = pos[t] /\ f = w.from[t] /\ U = unreadable[t]
    BY <1>4, Zenon DEF p, f, U
  <2>7. \A u \in Topics \ {t} : /\ Due(w, pos', more, topics, u) = Due(w, pos, unreadable, topics, u)
                               /\ Due(w, pos', unreadable, topics, u) = Due(w, pos, unreadable, topics, u)
    BY <1>4, <2>4, Zenon DEF Due
  <2>8. CASE w.to = None
    <3>1. /\ Due(w, pos', more, topics, t) = IF t \in topics THEN (f + 1 .. p + 1) \ (U \cup {p + 1}) ELSE {}
          /\ Due(w, pos', unreadable, topics, t) = IF t \in topics THEN (f + 1 .. p + 1) \ U ELSE {}
          /\ Due(w, pos, unreadable, topics, t) = IF t \in topics THEN (f + 1 .. p) \ U ELSE {}
      BY <2>4, <2>6, <2>8, Zenon DEF Due
    <3>2. /\ Due(w, pos', more, topics, t) = Due(w, pos, unreadable, topics, t)
          /\ t \in topics => Due(w, pos', unreadable, topics, t) = Due(w, pos, unreadable, topics, t) \cup {p + 1}
          /\ t \notin topics => Due(w, pos', unreadable, topics, t) = Due(w, pos, unreadable, topics, t)
          /\ \A n \in Due(w, pos, unreadable, topics, t) : n < p + 1
      BY <2>5, <3>1, Zenon
    <3> QED BY <2>7, <2>8, <3>2, Zenon DEF w, p, more, U
  <2>9. CASE w.to # None
    <3>1. /\ Due(w, pos', more, topics, t) = IF t \in topics THEN (f + 1 .. w.to[t]) \ (U \cup {p + 1}) ELSE {}
          /\ Due(w, pos', unreadable, topics, t) = IF t \in topics THEN (f + 1 .. w.to[t]) \ U ELSE {}
          /\ Due(w, pos, unreadable, topics, t) = IF t \in topics THEN (f + 1 .. w.to[t]) \ U ELSE {}
      BY <2>4, <2>6, <2>9, Zenon DEF Due
    <3>2. w.to[t] \in Nat /\ w.to[t] <= p
      BY <2>2, <2>3, <2>9, Zenon
    <3>3. /\ Due(w, pos', more, topics, t) = Due(w, pos, unreadable, topics, t)
          /\ Due(w, pos', unreadable, topics, t) = Due(w, pos, unreadable, topics, t)
      <4>1. (f + 1 .. w.to[t]) \ (U \cup {p + 1}) = (f + 1 .. w.to[t]) \ U
        BY <2>3, <3>2, SMTT(30)
      <4> QED BY <3>1, <4>1, Zenon
    <3> QED BY <2>7, <2>9, <3>3, Zenon DEF w, p, more, U
  <2> QED BY <2>8, <2>9, Zenon
<1>7. ASSUME NEW d \in Conn, conn[d] # None
      PROVE  /\ conn[d] \in DOMAIN clients /\ window[d] # None
             /\ clients[conn[d]].sender = d <=> window[d].to = None
             /\ \A u \in Topics :
                   Delivered(outbox[d], u, Due(window[d], pos, unreadable, clients[conn[d]].subscription.topics, u))
             /\ clients[conn[d]].subscription.fields \in SUBSET {"data", "extrinsic"}
             /\ clients[conn[d]].subscription \in Subscription
  <2>1. Published(d, window[d], conn[d], clients, pos, unreadable, outbox[d])
    BY <1>2
  <2>2. conn[d] \in DOMAIN clients
    BY <1>7, <2>1 DEF Published
  <2>3. clients[conn[d]].subscription \in Subscription
    BY <1>3, <2>2
  <2>4. clients[conn[d]].subscription.fields \in SUBSET {"data", "extrinsic"}
    BY <2>3, WsAssumption
  <2> QED BY <1>7, <2>1, <2>3, <2>4, Zenon DEF Published
<1>8. CASE /\ unreadable' = [unreadable EXCEPT ![t] = unreadable[t] \cup {pos[t] + 1}]
           /\ UNCHANGED outbox
  <2>1. unreadable' \in [Topics -> SUBSET Nat] /\ \A u \in Topics : \A n \in unreadable'[u] : n <= pos'[u]
    <3>1. unreadable' \in [Topics -> SUBSET Nat] /\ unreadable'[t] = unreadable[t] \cup {pos[t] + 1}
          /\ \A u \in Topics : u # t => unreadable'[u] = unreadable[u]
      BY <1>3, <1>8
    <3>2. \A n \in unreadable'[t] : n <= pos'[t]
      BY <1>3, <1>4, <3>1
    <3> QED BY <1>3, <1>4, <3>1, <3>2
  <2>2. WindowTypes(window, conn, clients, pos', unreadable')
    BY <1>2, <1>4, <2>1, Zenon DEF WindowTypes
  <2>3. ASSUME NEW d \in Conn
        PROVE  Published(d, window[d], conn[d], clients, pos', unreadable', outbox[d])
    <3>1. CASE conn[d] = None
      BY <1>2, <1>5, <3>1, Zenon DEF Published
    <3>2. CASE conn[d] # None
      <4>1. \A u \in Topics : Due(window[d], pos', unreadable', clients[conn[d]].subscription.topics, u)
                              = Due(window[d], pos, unreadable, clients[conn[d]].subscription.topics, u)
        BY <1>6, <1>8, <3>2, Zenon
      <4>2. \A u \in Topics :
               Delivered(outbox[d], u, Due(window[d], pos', unreadable', clients[conn[d]].subscription.topics, u))
        BY <1>7, <3>2, <4>1, Zenon
      <4> QED BY <1>5, <1>7, <3>2, <4>2, Zenon DEF Published
    <3> QED BY <3>1, <3>2
  <2> QED BY <1>1, <1>2, <1>8, <2>2, <2>3, WindowIsPartsNext, Zenon
<1>9. CASE Publish(t, pos[t] + 1) /\ UNCHANGED unreadable
  <2>1. WindowTypes(window, conn, clients, pos', unreadable)
    <3>1. \A u \in Topics : \A n \in unreadable[u] : n <= pos'[u]
      BY <1>3, <1>4
    <3> QED BY <1>2, <1>4, <3>1, Zenon DEF WindowTypes
  <2>2. ASSUME NEW d \in Conn
        PROVE  Published(d, window[d], conn[d], clients, pos', unreadable, outbox'[d])
    <3>1. CASE conn[d] = None
      <4>1. outbox'[d] = outbox[d]
        BY <1>9, <3>1 DEF Publish
      <4> QED BY <1>2, <1>5, <3>1, <4>1, Zenon DEF Published
    <3>2. CASE conn[d] # None
      <4> DEFINE topics == clients[conn[d]].subscription.topics
                 m == [type |-> t, of |-> pos[t] + 1,
                       fields |-> apply_filter(t, clients[conn[d]].subscription.fields)]
                 due(u) == Due(window[d], pos, unreadable, topics, u)
                 now(u) == Due(window[d], pos', unreadable, topics, u)
      <4>1. m \in Message /\ m.type = t /\ m.of = pos[t] + 1
        <5>1. clients[conn[d]].subscription.fields \in SUBSET {"data", "extrinsic"} /\ pos[t] + 1 \in Nat
          BY <1>3, <1>7, <3>2
        <5>2. m \in Message
          BY <5>1, PublishedMessage, Zenon
        <5> QED BY <5>2
      <4>2. /\ \A u \in Topics \ {t} : now(u) = due(u)
            /\ window[d].to # None \/ t \notin topics => now(t) = due(t)
            /\ window[d].to = None /\ t \in topics => now(t) = due(t) \cup {pos[t] + 1}
            /\ window[d].to = None => \A n \in due(t) : n < pos[t] + 1
        BY <1>6, <3>2, Zenon
      <4>3. outbox'[d] = IF clients[conn[d]].sender = d /\ t \in topics THEN Append(outbox[d], m) ELSE outbox[d]
        BY <1>9, <3>2 DEF Publish
      <4>4. /\ clients[conn[d]].sender = d <=> window[d].to = None
            /\ \A u \in Topics : Delivered(outbox[d], u, due(u))
        BY <1>7, <3>2, Zenon
      <4>5. outbox[d] \in Seq(Message)
        BY AtConnection
      <4> HIDE DEF topics, m, due, now
      <4>6. \A u \in Topics : Delivered(outbox'[d], u, now(u))
        <5>1. CASE clients[conn[d]].sender = d /\ t \in topics
          <6>1. outbox'[d] = Append(outbox[d], m) /\ now(t) = due(t) \cup {m.of} /\ \A n \in due(t) : n < m.of
            BY <4>1, <4>2, <4>3, <4>4, <5>1
          <6>2. Delivered(outbox'[d], t, now(t))
            BY <4>1, <4>4, <4>5, <6>1, OneMore, SMTT(30)
          <6>3. ASSUME NEW u \in Topics \ {t}
                PROVE  Delivered(outbox'[d], u, now(u))
            <7>1. Delivered(Append(outbox[d], m), u, due(u))
              BY <4>1, <4>4, <4>5, OneMore, Zenon
            <7> QED BY <4>2, <6>1, <7>1
          <6> QED BY <6>2, <6>3
        <5>2. CASE ~(clients[conn[d]].sender = d /\ t \in topics)
          BY <4>2, <4>3, <4>4, <5>2
        <5> QED BY <5>1, <5>2
      <4> QED BY <1>5, <1>7, <3>2, <4>6, Zenon DEF Published, now, topics
    <3> QED BY <3>1, <3>2
  <2> QED BY <1>1, <1>2, <1>9, <2>1, <2>2, WindowIsPartsNext, Zenon
<1> QED BY <1>8, <1>9 DEF PublishNext

-----------------------------------------------------------------------------
\* The two invariants hold together in every state.
LEMMA AnswersAndWindows == Spec => [](AnswerInv /\ WindowInv)
<1> DEFINE Inv == scenario \in Scenarios /\ AnswerInv /\ WindowInv
<1>1. Init => Inv
  <2> SUFFICES ASSUME Init PROVE Inv
    OBVIOUS
  <2>1. /\ requests = [c \in Conn |-> <<>>] /\ taken = [c \in Conn |-> 0] /\ outbox = [c \in Conn |-> <<>>]
        /\ window = [c \in Conn |-> None] /\ conn = [c \in Conn |-> None]
        /\ pos = [t \in Topics |-> 0] /\ unreadable = [t \in Topics |-> {}] /\ clients = [id \in {} |-> None]
        /\ scenario \in Scenarios
    BY Zenon DEF Init, RpcInit
  <2>2. \A c \in Conn : call[c].pc = "idle" /\ call[c].result = "none"
    BY WsAssumption DEF Init, RpcInit, Idle
  <2>3. Answered(<<>>, 0, <<>>)
    <3>1. {k \in 1..0 : <<>>[k] # "binary"} = {} /\ <<>> \in Seq(Payload) /\ <<>> \in Seq(Message) /\ Len(<<>>) = 0
      OBVIOUS
    <3>2. Confirmed(<<>>, <<>>)
      BY DEF Confirmed
    <3> QED BY <3>1, <3>2, NothingDelivered DEF Answered
  <2>4. AnswerInv
    <3>1. \A c \in Conn : AtSubmission(<<>>, 0, call[c]) /\ Pending(call[c], included[c])
      BY <2>2 DEF AtSubmission, Pending
    <3>2. \A c \in Conn : requests[c] = <<>> /\ taken[c] = 0 /\ outbox[c] = <<>>
      BY <2>1
    <3>3. /\ requests \in [Conn -> Seq(Payload)] /\ taken \in [Conn -> Nat] /\ outbox \in [Conn -> Seq(Message)]
      BY <2>1
    <3> QED BY <2>3, <3>1, <3>2, <3>3, AnswerIsParts DEF AllAnswered
  <2>5. WindowTypes(window, conn, clients, pos, unreadable) /\ Senders(window, conn, clients)
    BY <2>1 DEF WindowTypes, Senders
  <2>6. \A c \in Conn : Published(c, window[c], conn[c], clients, pos, unreadable, outbox[c])
    BY <2>1 DEF Published, Within
  <2> QED BY <2>1, <2>4, <2>5, <2>6, WindowIsParts, Zenon
<1>2. RpcInv /\ Inv /\ [Next]_vars => Inv'
  <2> SUFFICES ASSUME RpcInv, Inv, [Next]_vars PROVE Inv'
    OBVIOUS
  <2>1. scenario' = scenario
    BY Zenon DEF Next, vars, rpcVars, RpcNext, Flap, Stop, CallStep, Attempt, Select, TryConnect, WriteClient, WriteNode, Cancel,
           StreamBreaks, LoopCalls, subscribe, connect, Close, Receive, Handle, Submit, Submitted,
           Produce, PublishNext, PublishLags
  <2>2. CASE RpcNext /\ UNCHANGED wsVars
    BY <2>1, <2>2, RpcKeepsAnswers, WindowsFrame DEF wsVars
  <2>3. ASSUME NEW id \in Id, subscribe(id)
        PROVE  Inv'
    BY <2>1, <2>3, SubscribeWindows, AnswersFrame DEF subscribe, rpcVars
  <2>4. ASSUME NEW c \in Conn, NEW id \in Id, connect(c, id)
        PROVE  Inv'
    BY <2>1, <2>4, ConnectWindows, AnswersFrame, Zenon DEF connect, rpcVars
  <2>5. ASSUME NEW c \in Conn, Close(c)
        PROVE  Inv'
    BY <2>1, <2>5, CloseWindows, AnswersFrame, Zenon DEF Close, rpcVars
  <2>6. ASSUME NEW c \in Conn, Receive(c)
        PROVE  Inv'
    BY <2>1, <2>6, ReceiveAnswers, WindowsFrame, Zenon DEF Receive, connVars, topicVars
  <2>7. ASSUME NEW c \in Conn, Handle(c)
        PROVE  Inv'
    BY <2>1, <2>7, HandleAnswers, HandleWindows
  <2>8. ASSUME NEW c \in Conn, Submit(c)
        PROVE  Inv'
    BY <2>1, <2>8, SubmitAnswers, WindowsFrame, Zenon DEF Submit, wsVars
  <2>9. ASSUME NEW c \in Conn, Submitted(c)
        PROVE  Inv'
    BY <2>1, <2>9, SubmittedAnswers, SubmittedWindows
  <2>10. ASSUME NEW t \in Topics, PublishNext(t)
         PROVE  Inv'
    BY <2>1, <2>10, PublishAnswers, PublishWindows
  <2>11. ASSUME NEW t \in Topics, Produce(t) \/ PublishLags(t)
         PROVE  Inv'
    BY <2>1, <2>11, AnswersFrame, WindowsFrame DEF Produce, PublishLags, rpcVars, connVars
  <2>12. CASE UNCHANGED vars
    BY <2>1, <2>12, AnswersFrame, WindowsFrame DEF vars, rpcVars, wsVars
  <2> QED BY <2>2, <2>3, <2>4, <2>5, <2>6, <2>7, <2>8, <2>9, <2>10, <2>11, <2>12 DEF Next
<1>3. Inv => AnswerInv /\ WindowInv
  OBVIOUS
<1> QED BY <1>1, <1>2, <1>3, RpcInvariant, PTL DEF Spec

\* connect handles the requests of a connection one at a time, for any
\* connections, nodes, topics and retries: however the connections, the
\* publishers, failovers and a shutdown interleave, each connection is
\* answered once for every text message, in order, and only a transaction
\* that is in a block is confirmed.
THEOREM AnswersInOrder == Spec => []AnsweredInOrder
<1>1. AnswerInv => AnsweredInOrder
  BY DEF AnswerInv
<1> QED BY <1>1, AnswersAndWindows, PTL

\* WsClients::publish, for any connections, ids and topics: however ids are
\* subscribed to and taken over by new connections meanwhile, an open
\* connection has received exactly the messages converted while it was its
\* id's latest one, once and in order.
THEOREM PublishesToLatest == Spec => []PublishedToLatest
<1>1. WindowInv => PublishedToLatest
  BY DEF WindowInv
<1> QED BY <1>1, AnswersAndWindows, PTL
=============================================================================
