----------------------------- MODULE RpcProofs -----------------------------
(***************************************************************************)
(* Proofs about WsApi, for any nodes, callers, retries, clients, topics    *)
(* and web socket connections.                                             *)
(*                                                                         *)
(* Failover of the RPC client: RpcInv is inductive.  A step of a caller    *)
(* changes that caller's call only, so every action is reduced             *)
(* (CallChanges) to facts about the one call it replaces.                  *)
(*                                                                         *)
(* Answers: the steps of the RPC client, of a connection's handler and of  *)
(* the publishers keep AnswerInv, which says that the responses in the     *)
(* outbox of a connection are those of the requests before the one it      *)
(* handles.  WsApiProofs combines these steps with those of WindowInv.     *)
(***************************************************************************)
EXTENDS WsApi, FiniteSetTheorems, TLAPS

\* An idle call, and one that has just begun, are well formed.
LEMMA FreshCalls ==
    ASSUME NEW result \in {"none", "ok", "missing", "error", "cancelled"}, up \subseteq Node,
           NEW todo \in Seq(Request)
    PROVE  /\ Idle(result) \in CallType
           /\ Begin(todo) \in CallType
           /\ Begin(todo).pc = "attempt" /\ Begin(todo).todo = todo /\ Begin(todo).result = "none"
           /\ Begin(todo).steady = up \cap Matching
           /\ Idle(result).pc = "idle" /\ Idle(result).result = result /\ Idle(result).steady = {}
<1>1. {} \in SUBSET Node /\ <<>> \in Seq(Node) /\ <<>> \in Seq(Request)
  OBVIOUS
<1>2. up \cap Matching \in SUBSET Node
  OBVIOUS
<1> QED BY <1>1, <1>2, Zenon DEF Idle, Begin, CallType

\* Nodes::shuffle returns a list, not empty, that has every other node.
LEMMA ShuffleCovers ==
    ASSUME NEW host \in Node, NEW list \in shuffle(host)
    PROVE  /\ list \in Seq(Node) /\ 1 \in DOMAIN list
           /\ \A other \in Node \ {host} : \E j \in 1..Len(list) : list[j] = other
<1> DEFINE others == IF Cardinality(Node) <= 1 THEN Node ELSE Node \ {host}
<1>1. IsFiniteSet(Node) /\ IsFiniteSet(Node \ {host}) /\ Cardinality(Node) \in Nat
      /\ Cardinality(Node \ {host}) = Cardinality(Node) - 1
  BY RpcAssumption, FS_RemoveElement, FS_CardinalityType
<1>2. Cardinality(Node) # 0
  BY <1>1, FS_EmptySet, RpcAssumption
<1>3. Cardinality(others) \in Nat \ {0} /\ others \subseteq Node /\ Node \ {host} \subseteq others
  BY <1>1, <1>2
<1>4. list \in [1..Cardinality(others) -> others] /\ \A other \in others : \E j \in DOMAIN list : list[j] = other
  BY Zenon DEF shuffle
<1> HIDE DEF others
<1> QED BY <1>3, <1>4

\* What the invariant says of one call, given the nodes and its transaction.
Fits(r, blocks, nodes) ==
    LET refused == r.todo # <<>> /\ r.todo[1] = "extrinsic" /\ blocks > 0 IN
    /\ r \in CallType
    /\ r.result = "error" => r.steady = {} \/ r.switched \/ refused
    /\ r.pc # "idle" => r.todo # <<>> /\ r.result = "none"
    /\ r.steady \subseteq nodes \cap Matching \/ r.pc = "idle"
    /\ r.pc = "select" => r.host \notin r.steady \/ refused
    /\ r.pc = "connect" =>
          /\ r.i \in DOMAIN r.list
          /\ r.switched \/ refused \/ r.steady \subseteq {r.list[j] : j \in r.i..Len(r.list)}
    /\ r.pc \in {"write", "state"} => r.host \in Matching

LEMMA InvIsFits ==
    RpcInv <=> /\ up \subseteq Node /\ included \in [Caller -> Nat] /\ ConnectedToChain
               /\ call \in [Caller -> CallType]
               /\ \A c \in Caller : Fits(call[c], included[c], up)
BY Zenon DEF RpcInv, RpcTypeOK, FailsOnlyAfterSwitch, Failover, Refused, Fits

\* Replacing one call by a fitting one keeps the invariant.
LEMMA CallChanges ==
    ASSUME RpcInv, NEW c \in Caller, NEW r, NEW blocks \in Nat,
           Fits(r, blocks, up), call' = [call EXCEPT ![c] = r],
           included' = [included EXCEPT ![c] = blocks], up' = up, ConnectedToChain'
    PROVE  RpcInv'
<1>1. r \in CallType
  BY DEF Fits
<1>2. /\ up \subseteq Node /\ included \in [Caller -> Nat] /\ call \in [Caller -> CallType]
      /\ \A d \in Caller : Fits(call[d], included[d], up)
  BY InvIsFits
<1>3. call' \in [Caller -> CallType] /\ included' \in [Caller -> Nat]
  BY <1>1, <1>2
<1>4. ASSUME NEW d \in Caller PROVE Fits(call'[d], included'[d], up')
  <2>1. CASE d = c
    <3>1. call'[d] = r /\ included'[d] = blocks
      BY <1>2, <2>1
    <3> QED BY <3>1
  <2>2. CASE d # c
    <3>1. call'[d] = call[d] /\ included'[d] = included[d]
      BY <1>2, <2>2
    <3> QED BY <3>1, <1>2
  <2> QED BY <2>1, <2>2
<1>5. RpcInv' <=> /\ up' \subseteq Node /\ included' \in [Caller -> Nat] /\ ConnectedToChain'
               /\ call' \in [Caller -> CallType]
               /\ \A d \in Caller : Fits(call'[d], included'[d], up')
  BY ZenonT(60) DEF RpcInv, RpcTypeOK, FailsOnlyAfterSwitch, Failover, Refused, Fits
<1> QED BY <1>2, <1>3, <1>4, <1>5

\* A call that begins or ends well fits any state.
LEMMA FreshFit ==
    ASSUME RpcInv, NEW blocks \in Nat, NEW todo \in Seq(Request) \ {<<>>},
           NEW result \in {"none", "ok", "missing", "cancelled"}
    PROVE  Fits(Begin(todo), blocks, up) /\ Fits(Idle(result), blocks, up)
<1>1. up \subseteq Node
  BY DEF RpcInv, RpcTypeOK
<1> QED BY <1>1, FreshCalls DEF Fits

\* A transaction is never taken out of a block.
LEMMA IncludesGrows ==
    ASSUME RpcInv, NEW c \in Caller, NEW ok, Includes(c, ok) \/ UNCHANGED included
    PROVE  \E blocks \in Nat : blocks >= included[c] /\ included' = [included EXCEPT ![c] = blocks]
<1>1. included \in [Caller -> Nat]
  BY DEF RpcInv, RpcTypeOK
<1>2. CASE UNCHANGED included
  <2>1. included' = [included EXCEPT ![c] = included[c]]
    BY <1>1, <1>2
  <2>2. included[c] \in Nat /\ included[c] >= included[c]
    BY <1>1
  <2> QED BY <2>1, <2>2, Zenon
<1>3. CASE \E more \in {0, 1} : included' = [included EXCEPT ![c] = @ + more]
  <2>1. PICK more \in {0, 1} : included' = [included EXCEPT ![c] = included[c] + more]
    BY <1>3, Zenon
  <2>2. included[c] + more \in Nat /\ included[c] + more >= included[c]
    BY <1>1
  <2> QED BY <2>1, <2>2, Zenon
<1> QED BY <1>2, <1>3 DEF Includes

\* with_retries returned Ok: whatever comes next fits, and the stream is the
\* host's.
LEMMA SucceedFits ==
    ASSUME RpcInv, NEW c \in Caller, NEW host \in Matching, NEW blocks \in Nat,
           call[c].pc # "idle", Succeed(c, host)
    PROVE  /\ \E r : Fits(r, blocks, up) /\ call' = [call EXCEPT ![c] = r]
           /\ stream' \in Matching \cup {None}
<1>1. call[c].todo \in Seq(Request) \ {<<>>}
  BY DEF RpcInv, RpcTypeOK, Failover, CallType
<1>2. PICK found : 
        /\ call' = [call EXCEPT ![c] =
                       IF ~found THEN Idle("missing")
                       ELSE IF Len(call[c].todo) > 1 THEN Begin(Tail(call[c].todo))
                       ELSE Idle("ok")]
        /\ stream' = IF call[c].todo[1] = "subscribe" THEN host ELSE stream
  BY Zenon DEF Succeed
<1>3. Len(call[c].todo) > 1 => Tail(call[c].todo) \in Seq(Request) \ {<<>>}
  <2> DEFINE todo == call[c].todo
  <2>1. todo \in Seq(Request) /\ todo # <<>>
    BY <1>1
  <2> HIDE DEF todo
  <2>2. Tail(todo) \in Seq(Request) /\ Len(Tail(todo)) = Len(todo) - 1
    BY <2>1
  <2>3. Len(todo) > 1 => Tail(todo) # <<>>
    BY <2>1, <2>2
  <2> QED BY <2>2, <2>3 DEF todo
<1>4. Fits(Idle("missing"), blocks, up) /\ Fits(Idle("ok"), blocks, up)
  BY <1>1, FreshFit
<1>5. Len(call[c].todo) > 1 => Fits(Begin(Tail(call[c].todo)), blocks, up)
  BY <1>3, FreshFit, Zenon
<1>6. stream' \in Matching \cup {None}
  BY <1>2 DEF RpcInv, ConnectedToChain
<1> QED BY <1>2, <1>4, <1>5, <1>6, Zenon

\* A call that fails keeps what it had learnt.
LEMMA FailFits ==
    ASSUME RpcInv, NEW c \in Caller, NEW blocks \in Nat, NEW why \in {"error", "cancelled"},
           call[c].pc # "idle",
           why = "error" => \/ call[c].steady = {} \/ call[c].switched
                            \/ call[c].todo[1] = "extrinsic" /\ blocks > 0,
           Fail(c, why)
    PROVE  \E r : Fits(r, blocks, up) /\ call' = [call EXCEPT ![c] = r]
<1> DEFINE r == [Idle(why) EXCEPT !.todo = call[c].todo, !.steady = call[c].steady,
                                  !.switched = call[c].switched]
<1>1. call[c] \in CallType /\ call[c].todo # <<>> /\ up \subseteq Node
  BY DEF RpcInv, RpcTypeOK, Failover
<1>2. /\ r \in CallType /\ r.pc = "idle" /\ r.todo = call[c].todo /\ r.steady = call[c].steady
      /\ r.switched = call[c].switched /\ r.result = why
  <2>1. /\ call[c].todo \in Seq(Request) /\ call[c].steady \in SUBSET Node
        /\ call[c].switched \in BOOLEAN
    BY <1>1 DEF CallType
  <2>2. Idle(why) \in CallType /\ Idle(why).pc = "idle" /\ Idle(why).result = why
    <3>1. <<>> \in Seq(Request)
      OBVIOUS
    <3> QED BY <1>1, <3>1, FreshCalls, ZenonT(30)
  <2>3. r \in CallType
    BY <2>1, <2>2, Zenon DEF CallType
  <2> QED BY <2>1, <2>2, <2>3 DEF CallType
<1>3. call' = [call EXCEPT ![c] = r]
  BY DEF Fail
<1>4. Fits(r, blocks, up)
  <2> HIDE DEF r
  <2> QED BY <1>1, <1>2 DEF Fits
<1> QED BY <1>3, <1>4, Zenon

\* What the invariant gives about the call of c.
LEMMA CallFacts ==
    ASSUME RpcInv, NEW c \in Caller
    PROVE  /\ call[c] \in CallType /\ included[c] \in Nat /\ up \subseteq Node
           /\ subxt_client \in Matching /\ connected_node \in Matching /\ stream \in Matching \cup {None}
           /\ Fits(call[c], included[c], up)
<1>1. call[c] \in CallType /\ included[c] \in Nat /\ up \subseteq Node /\ Fits(call[c], included[c], up)
  BY InvIsFits
<1> QED BY <1>1 DEF RpcInv, ConnectedToChain

\* An attempt fails on a host that is not steady, unless it is refused.
LEMMA NotExecuted ==
    ASSUME RpcInv, NEW c \in Caller, NEW host \in Matching, call[c].pc # "idle", ~Executes(c, host)
    PROVE  host \notin call[c].steady \/ (call[c].todo[1] = "extrinsic" /\ included[c] > 0)
<1>1. call[c].steady \subseteq up \cap Matching /\ included[c] \in Nat
  BY CallFacts DEF Fits
<1> QED BY <1>1 DEF Executes

LEMMA AttemptStep ==
    ASSUME RpcInv, NEW c \in Caller, Attempt(c)
    PROVE  RpcInv'
<1>1. PICK blocks \in Nat : blocks >= included[c] /\ included' = [included EXCEPT ![c] = blocks]
  BY IncludesGrows DEF Attempt
<1>2. call[c] \in CallType /\ call[c].pc = "attempt" /\ subxt_client \in Matching
      /\ Fits(call[c], included[c], up) /\ included[c] \in Nat /\ up \subseteq Node
  BY CallFacts DEF Attempt
<1>3. up' = up /\ subxt_client' = subxt_client /\ connected_node' = connected_node
  BY DEF Attempt
<1>4. CASE Executes(c, subxt_client)
  <2>1. Succeed(c, subxt_client)
    BY <1>4 DEF Attempt
  <2>2. PICK r : Fits(r, blocks, up) /\ call' = [call EXCEPT ![c] = r]
    BY <1>2, <2>1, SucceedFits
  <2>3. ConnectedToChain'
    BY <1>2, <1>3, <2>1, SucceedFits DEF RpcInv, ConnectedToChain
  <2> QED BY <1>1, <1>3, <2>2, <2>3, CallChanges, Zenon
<1>5. CASE ~Executes(c, subxt_client)
  <2> DEFINE again == [call[c] EXCEPT !.n = call[c].n + 1]
             failed == [call[c] EXCEPT !.pc = "select", !.host = subxt_client]
             r == IF call[c].n < Retries THEN again ELSE failed
  <2>1. call' = [call EXCEPT ![c] = r] /\ stream' = stream
    BY <1>5, Zenon DEF Attempt
  <2>2. ConnectedToChain'
    BY <1>3, <2>1 DEF RpcInv, ConnectedToChain
  <2>3. Fits(again, blocks, up)
    <3>1. again \in CallType /\ again.pc = "attempt" /\ again.todo = call[c].todo
          /\ again.steady = call[c].steady /\ again.result = call[c].result
          /\ again.switched = call[c].switched
      BY <1>2, SMTT(60) DEF CallType
    <3> HIDE DEF again
    <3> QED BY <1>1, <1>2, <3>1 DEF Fits
  <2>4. Fits(failed, blocks, up)
    <3>1. subxt_client \in Node
      BY <1>2, RpcAssumption
    <3>2. failed \in CallType /\ failed.pc = "select" /\ failed.todo = call[c].todo
          /\ failed.steady = call[c].steady /\ failed.result = call[c].result
          /\ failed.switched = call[c].switched /\ failed.host = subxt_client
      BY <1>2, <3>1, Zenon DEF CallType
    <3>3. subxt_client \notin call[c].steady \/ (call[c].todo[1] = "extrinsic" /\ included[c] > 0)
      BY <1>2, <1>5, NotExecuted
    <3> HIDE DEF failed
    <3> QED BY <1>1, <1>2, <3>2, <3>3 DEF Fits
  <2>5. Fits(r, blocks, up)
    BY <2>3, <2>4
  <2> HIDE DEF r
  <2> QED BY <1>1, <1>3, <2>1, <2>2, <2>5, CallChanges, Zenon
<1> QED BY <1>4, <1>5

LEMMA SelectStep ==
    ASSUME RpcInv, NEW c \in Caller, Select(c)
    PROVE  RpcInv'
<1>1. PICK list \in shuffle(connected_node) :
          call' = [call EXCEPT ![c] = [@ EXCEPT !.pc = "connect", !.list = list, !.i = 1, !.n = 0,
                                                !.switched = call[c].host # connected_node]]
  BY Zenon DEF Select
<1> DEFINE r == [call[c] EXCEPT !.pc = "connect", !.list = list, !.i = 1, !.n = 0,
                                !.switched = call[c].host # connected_node]
<1>2. call[c] \in CallType /\ call[c].pc = "select" /\ connected_node \in Matching
      /\ Fits(call[c], included[c], up) /\ included[c] \in Nat
  BY CallFacts DEF Select
<1>3. call' = [call EXCEPT ![c] = r]
  BY <1>1, <1>2 DEF RpcInv, RpcTypeOK
<1>4. list \in Seq(Node) /\ 1 \in DOMAIN list
      /\ \A other \in Node \ {connected_node} : \E j \in 1..Len(list) : list[j] = other
  BY <1>2, RpcAssumption, ShuffleCovers
<1>5. r \in CallType /\ r.pc = "connect" /\ r.list = list /\ r.i = 1 /\ r.todo = call[c].todo
      /\ r.steady = call[c].steady /\ r.result = call[c].result
  BY <1>2, <1>4, Zenon DEF CallType
<1>6. call[c].host # connected_node => r.switched
  BY <1>2, Zenon DEF CallType
<1>7. Fits(r, included[c], up)
  <2>1. call[c].host # connected_node
        \/ (call[c].todo[1] = "extrinsic" /\ included[c] > 0)
        \/ call[c].steady \subseteq {list[j] : j \in 1..Len(list)}
    BY <1>2, <1>4 DEF Fits, CallType
  <2> HIDE DEF r
  <2> QED BY <1>2, <1>4, <1>5, <1>6, <2>1 DEF Fits
<1>8. included' = [included EXCEPT ![c] = included[c]] /\ up' = up /\ ConnectedToChain'
  BY DEF Select, RpcInv, RpcTypeOK, ConnectedToChain
<1> HIDE DEF r
<1> QED BY <1>2, <1>3, <1>7, <1>8, CallChanges, Zenon

LEMMA TryConnectStep ==
    ASSUME RpcInv, NEW c \in Caller, TryConnect(c)
    PROVE  RpcInv'
<1> DEFINE host == call[c].list[call[c].i]
           connects == host \in up \cap Matching
           ok == connects /\ Executes(c, host)
           refused == call[c].todo[1] = "extrinsic" /\ included[c] > 0
<1>1. PICK blocks \in Nat : blocks >= included[c] /\ included' = [included EXCEPT ![c] = blocks]
  BY IncludesGrows DEF TryConnect
<1>2. call[c] \in CallType /\ call[c].pc = "connect"
      /\ Fits(call[c], included[c], up) /\ included[c] \in Nat
  BY CallFacts DEF TryConnect
<1>3. up' = up /\ ConnectedToChain'
  BY DEF TryConnect, RpcInv, ConnectedToChain
<1>4. call[c].i \in DOMAIN call[c].list /\ call[c].list \in Seq(Node) /\ call[c].i \in Nat
      /\ call[c].todo # <<>> /\ call[c].result = "none" /\ call[c].steady \subseteq up \cap Matching
      /\ (call[c].switched \/ refused \/ call[c].steady \subseteq {call[c].list[j] : j \in call[c].i..Len(call[c].list)})
  BY <1>2 DEF Fits, CallType
<1>5. host \in Node
  BY <1>4
<1>6. CASE ok
  <2> DEFINE r == [call[c] EXCEPT !.pc = "write", !.host = host]
  <2>1. call' = [call EXCEPT ![c] = r]
    BY <1>6 DEF TryConnect
  <2>2. r \in CallType /\ r.pc = "write" /\ r.host = host /\ r.todo = call[c].todo
        /\ r.steady = call[c].steady /\ r.result = call[c].result
    BY <1>2, <1>5, Zenon DEF CallType
  <2>3. Fits(r, blocks, up)
    <3> HIDE DEF r
    <3> QED BY <1>4, <1>6, <2>2 DEF Fits
  <2> HIDE DEF r
  <2> QED BY <1>1, <1>3, <2>1, <2>3, CallChanges, Zenon
<1>7. CASE ~ok
  <2>1. host \notin call[c].steady \/ refused
    <3>1. CASE ~connects
      BY <3>1, <1>4
    <3>2. CASE connects
      BY <3>2, <1>7, <1>2, NotExecuted
    <3> QED BY <3>1, <3>2
  <2>2. refused => call[c].todo[1] = "extrinsic" /\ blocks > 0
    BY <1>1, <1>2
  <2>3. CASE call[c].i < Len(call[c].list)
    <3> DEFINE r == [call[c] EXCEPT !.i = call[c].i + 1]
    <3>1. call' = [call EXCEPT ![c] = r]
      BY <1>7, <2>3, Zenon DEF TryConnect
    <3>2. r \in CallType /\ r.pc = "connect" /\ r.i = call[c].i + 1 /\ r.list = call[c].list
          /\ r.todo = call[c].todo /\ r.steady = call[c].steady /\ r.result = call[c].result
          /\ r.switched = call[c].switched
      BY <1>2, <1>4, SMTT(60) DEF CallType
    <3>3. call[c].switched \/ refused
          \/ call[c].steady \subseteq {call[c].list[j] : j \in (call[c].i + 1)..Len(call[c].list)}
      <4> DEFINE list == call[c].list
                 i == call[c].i
                 steady == call[c].steady
      <4>1. list \in Seq(Node) /\ i \in Nat
        BY <1>4
      <4>2. ASSUME steady \subseteq {list[j] : j \in i..Len(list)}, list[i] \notin steady
            PROVE  steady \subseteq {list[j] : j \in (i + 1)..Len(list)}
        <5> HIDE DEF list, i, steady
        <5> QED BY <4>1, <4>2
      <4> QED BY <1>4, <2>1, <4>2
    <3>4. Fits(r, blocks, up)
      <4>1. call[c].i + 1 \in DOMAIN call[c].list
        BY <1>4, <2>3
      <4> HIDE DEF r
      <4> QED BY <1>4, <2>2, <3>2, <3>3, <4>1 DEF Fits
    <3> HIDE DEF r
    <3> QED BY <1>1, <1>3, <3>1, <3>4, CallChanges, Zenon
  <2>4. CASE ~(call[c].i < Len(call[c].list))
    <3>1. call[c].switched \/ refused \/ call[c].steady = {}
      <4> DEFINE list == call[c].list
                 i == call[c].i
                 steady == call[c].steady
      <4>1. list \in Seq(Node) /\ i \in DOMAIN list /\ ~(i < Len(list))
        BY <1>4, <2>4
      <4>2. ASSUME steady \subseteq {list[j] : j \in i..Len(list)}, list[i] \notin steady
            PROVE  steady = {}
        <5> HIDE DEF list, i, steady
        <5>1. i = Len(list) /\ i \in Nat
          BY <4>1
        <5> QED BY <5>1, <4>2
      <4> QED BY <1>4, <2>1, <4>2
    <3>2. CASE call[c].n < Retries
      <4> DEFINE r == [call[c] EXCEPT !.i = 1, !.n = call[c].n + 1]
      <4>1. call' = [call EXCEPT ![c] = r]
        BY <1>7, <2>4, <3>2, Zenon DEF TryConnect
      <4>2. r \in CallType /\ r.pc = "connect" /\ r.i = 1 /\ r.list = call[c].list
            /\ r.todo = call[c].todo /\ r.steady = call[c].steady /\ r.result = call[c].result
            /\ r.switched = call[c].switched
        <5>1. call[c].n + 1 \in Nat /\ 1 \in Nat
          BY <1>2 DEF CallType
        <5> DEFINE k == call[c].n + 1
        <5> HIDE DEF k
        <5>2. [call[c] EXCEPT !.i = 1, !.n = k] \in CallType
          BY <1>2, <5>1, Zenon DEF CallType, k
        <5> QED BY <1>2, <5>2 DEF CallType, k
      <4>3. 1 \in DOMAIN call[c].list
        BY <1>4
      <4>4. Fits(r, blocks, up)
        <5> HIDE DEF r
        <5> QED BY <1>4, <2>2, <3>1, <4>2, <4>3 DEF Fits
      <4> HIDE DEF r
      <4> QED BY <1>1, <1>3, <4>1, <4>4, CallChanges, Zenon
    <3>3. CASE ~(call[c].n < Retries)
      <4>1. Fail(c, "error")
        BY <1>7, <2>4, <3>3 DEF TryConnect
      <4>2. PICK r : Fits(r, blocks, up) /\ call' = [call EXCEPT ![c] = r]
        BY <1>2, <2>2, <3>1, <4>1, FailFits
      <4> QED BY <1>1, <1>3, <4>2, CallChanges, Zenon
    <3> QED BY <3>2, <3>3
  <2> QED BY <2>3, <2>4
<1> QED BY <1>6, <1>7

LEMMA WriteStep ==
    ASSUME RpcInv, NEW c \in Caller, WriteClient(c) \/ WriteNode(c)
    PROVE  RpcInv'
<1>1. call[c] \in CallType /\ call[c].pc # "idle" /\ call[c].host \in Matching
      /\ Fits(call[c], included[c], up) /\ included[c] \in Nat
  BY CallFacts DEF Fits, WriteClient, WriteNode
<1>2. included' = [included EXCEPT ![c] = included[c]] /\ up' = up
  BY DEF WriteClient, WriteNode, RpcInv, RpcTypeOK
<1>3. CASE WriteClient(c)
  <2> DEFINE r == [call[c] EXCEPT !.pc = "state"]
  <2>1. call' = [call EXCEPT ![c] = r] /\ ConnectedToChain'
    BY <1>1, <1>3 DEF WriteClient, RpcInv, ConnectedToChain
  <2>2. r \in CallType /\ r.pc = "state" /\ r.host = call[c].host /\ r.todo = call[c].todo
        /\ r.steady = call[c].steady /\ r.result = call[c].result
    BY <1>1 DEF CallType
  <2>3. Fits(r, included[c], up)
    <3>1. call[c].pc = "write"
      BY <1>3 DEF WriteClient
    <3> HIDE DEF r
    <3> QED BY <1>1, <2>2, <3>1 DEF Fits
  <2> HIDE DEF r
  <2> QED BY <1>1, <1>2, <2>1, <2>3, CallChanges, Zenon
<1>4. CASE WriteNode(c)
  <2>1. Succeed(c, call[c].host) /\ connected_node' = call[c].host /\ subxt_client' = subxt_client
    BY <1>4 DEF WriteNode
  <2>2. PICK r : Fits(r, included[c], up) /\ call' = [call EXCEPT ![c] = r]
    BY <1>1, <2>1, SucceedFits
  <2>3. ConnectedToChain'
    BY <1>1, <2>1, SucceedFits DEF RpcInv, ConnectedToChain
  <2> QED BY <1>1, <1>2, <2>2, <2>3, CallChanges, Zenon
<1> QED BY <1>3, <1>4

LEMMA CancelStep ==
    ASSUME RpcInv, NEW c \in Caller, Cancel(c)
    PROVE  RpcInv'
<1>1. included[c] \in Nat /\ call[c].pc # "idle" /\ Fail(c, "cancelled")
  BY CallFacts DEF Cancel
<1>2. included' = [included EXCEPT ![c] = included[c]] /\ up' = up /\ ConnectedToChain'
  BY DEF Cancel, RpcInv, RpcTypeOK, ConnectedToChain
<1>3. PICK r : Fits(r, included[c], up) /\ call' = [call EXCEPT ![c] = r]
  BY <1>1, FailFits
<1> QED BY <1>1, <1>2, <1>3, CallChanges, Zenon

\* A node that fails or recovers is steady for nobody any more.
LEMMA FlapStep ==
    ASSUME RpcInv, NEW host \in Matching, Flap(host)
    PROVE  RpcInv'
<1>1. up \subseteq Node /\ included \in [Caller -> Nat] /\ call \in [Caller -> CallType]
      /\ \A d \in Caller : Fits(call[d], included[d], up)
  BY InvIsFits
<1>2. /\ up' \subseteq Node /\ up \ {host} \subseteq up' /\ included' = included
      /\ call' = [d \in Caller |-> [call[d] EXCEPT !.steady = @ \ {host}]] /\ ConnectedToChain'
  BY <1>1, RpcAssumption DEF Flap, RpcInv, ConnectedToChain
<1>3. ASSUME NEW d \in Caller PROVE call'[d] \in CallType /\ Fits(call'[d], included'[d], up')
  <2> DEFINE r == [call[d] EXCEPT !.steady = @ \ {host}]
  <2>1. call'[d] = r /\ included'[d] = included[d]
    BY <1>2
  <2>2. /\ r \in CallType /\ r.pc = call[d].pc /\ r.host = call[d].host /\ r.todo = call[d].todo
        /\ r.steady = call[d].steady \ {host} /\ r.result = call[d].result /\ r.i = call[d].i
        /\ r.list = call[d].list
    BY <1>1, Zenon DEF CallType
  <2>3. r.switched = call[d].switched
    BY <1>1 DEF CallType
  <2>4. Fits(r, included[d], up')
    <3>1. Fits(call[d], included[d], up)
      BY <1>1
    <3> HIDE DEF r
    <3> QED BY <1>2, <2>2, <2>3, <3>1 DEF Fits
  <2> HIDE DEF r
  <2> QED BY <2>1, <2>2, <2>4
<1>4. call' \in [Caller -> CallType]
  BY <1>2, <1>3
<1>5. RpcInv' <=> /\ up' \subseteq Node /\ included' \in [Caller -> Nat] /\ ConnectedToChain'
               /\ call' \in [Caller -> CallType]
               /\ \A d \in Caller : Fits(call'[d], included'[d], up')
  BY Zenon DEF RpcInv, RpcTypeOK, FailsOnlyAfterSwitch, Failover, Refused, Fits
<1> QED BY <1>1, <1>2, <1>3, <1>4, <1>5

\* Every operation of the client makes at least one request.
LEMMA OperationsAsk ==
    \A op \in DOMAIN Operation : Operation[op] \in Seq(Request) \ {<<>>}
<1>1. /\ <<"read">> \in Seq(Request) /\ <<"read", "read">> \in Seq(Request)
      /\ <<"find">> \in Seq(Request) /\ <<"find", "read">> \in Seq(Request)
      /\ <<"find", "find">> \in Seq(Request) /\ <<"local">> \in Seq(Request)
      /\ <<"subscribe">> \in Seq(Request)
  BY DEF Request
<1>2. <<"data", "read">> \in Seq(Request) /\ <<"extrinsic", "read">> \in Seq(Request)
  BY DEF Request
<1>3. \A r, q : <<r>> # <<>> /\ <<r, q>> # <<>>
  OBVIOUS
<1>4. DOMAIN Operation =
          {"get_block_hash", "get_header_by_hash", "get_validator_set_by_hash",
           "get_finalized_head_hash", "get_chain_head_header", "request_kate_rows",
           "request_kate_proof", "get_system_version", "get_runtime_version",
           "get_validator_set_by_block_number", "fetch_set_id_at",
           "get_current_set_id_by_block_number", "get_header_by_block_number",
           "get_validator_set_at", "create_subxt_subscriptions", "submit_data",
           "submit_extrinsic"}
  BY DEF Operation
<1>5. /\ Operation["get_block_hash"] = <<"find">>
      /\ Operation["get_header_by_hash"] = <<"read">>
      /\ Operation["get_validator_set_by_hash"] = <<"read">>
      /\ Operation["get_finalized_head_hash"] = <<"read">>
      /\ Operation["get_chain_head_header"] = <<"read", "read">>
      /\ Operation["request_kate_rows"] = <<"read">>
      /\ Operation["request_kate_proof"] = <<"read">>
      /\ Operation["get_system_version"] = <<"read">>
      /\ Operation["get_runtime_version"] = <<"local">>
      /\ Operation["get_validator_set_by_block_number"] = <<"find", "read">>
      /\ Operation["fetch_set_id_at"] = <<"find">>
      /\ Operation["get_current_set_id_by_block_number"] = <<"find", "find">>
      /\ Operation["get_header_by_block_number"] = <<"find", "read">>
      /\ Operation["get_validator_set_at"] = <<"read">>
      /\ Operation["create_subxt_subscriptions"] = <<"subscribe">>
      /\ Operation["submit_data"] = <<"data", "read">>
      /\ Operation["submit_extrinsic"] = <<"extrinsic", "read">>
  BY DEF Operation
<1> QED BY <1>1, <1>2, <1>3, <1>4, <1>5, ZenonT(60)

\* A task enters the client: the subscription loop or a connection's
\* submission.
LEMMA BeginStep ==
    ASSUME RpcInv, NEW c \in Caller, NEW todo \in Seq(Request) \ {<<>>}, NEW blocks \in Nat,
           call' = [call EXCEPT ![c] = Begin(todo)], included' = [included EXCEPT ![c] = blocks],
           up' = up, subxt_client' = subxt_client, connected_node' = connected_node,
           stream' \in {stream, None}
    PROVE  RpcInv'
<1>1. ConnectedToChain'
  BY DEF RpcInv, ConnectedToChain
<1>2. Fits(Begin(todo), blocks, up)
  BY FreshFit
<1> QED BY <1>1, <1>2, CallChanges, Zenon

LEMMA RpcStep ==
    ASSUME RpcInv, RpcNext
    PROVE  RpcInv'
<1>1. CASE \E host \in Matching : Flap(host)
  BY <1>1, FlapStep
<1>2. CASE Stop
  <2>1. UNCHANGED <<up, call, included, subxt_client, connected_node, stream>>
    BY <1>2, Zenon DEF Stop
  <2>2. RpcTypeOK' /\ ConnectedToChain'
    BY <2>1, Zenon DEF RpcInv, RpcTypeOK, ConnectedToChain
  <2>3. FailsOnlyAfterSwitch'
    BY <2>1, Zenon DEF RpcInv, FailsOnlyAfterSwitch, Refused
  <2>4. ASSUME NEW c \in Caller PROVE Failover(c)'
    <3>1. Failover(c)
      BY Zenon DEF RpcInv
    <3> QED BY <2>1, <3>1, Zenon DEF Failover, Refused
  <2> QED BY <2>2, <2>3, <2>4, Zenon DEF RpcInv
<1>3. CASE \E c \in Caller : CallStep(c)
  BY <1>3, AttemptStep, SelectStep, TryConnectStep, WriteStep, CancelStep DEF CallStep
<1>4. CASE StreamBreaks
  <2>1. Operation.create_subxt_subscriptions \in Seq(Request) \ {<<>>}
    BY DEF Operation, Request
  <2>2. Stream \in Caller /\ included[Stream] \in Nat
    BY RpcAssumption, CallFacts
  <2>3. included' = [included EXCEPT ![Stream] = included[Stream]]
    BY <1>4 DEF StreamBreaks, RpcInv, RpcTypeOK
  <2> QED BY <1>4, <2>1, <2>2, <2>3, BeginStep, Zenon DEF StreamBreaks
<1>5. CASE LoopCalls
  <2>1. PICK op \in DOMAIN Operation : call' = [call EXCEPT ![Stream] = Begin(Operation[op])]
    BY <1>5, Zenon DEF LoopCalls
  <2>2. Operation[op] \in Seq(Request) \ {<<>>}
    BY OperationsAsk
  <2>3. Stream \in Caller /\ included[Stream] \in Nat
    BY RpcAssumption, CallFacts
  <2>4. included' = [included EXCEPT ![Stream] = included[Stream]]
    BY <1>5 DEF LoopCalls, RpcInv, RpcTypeOK
  <2> QED BY <1>5, <2>1, <2>2, <2>3, <2>4, BeginStep, Zenon DEF LoopCalls
<1> QED BY <1>1, <1>2, <1>3, <1>4, <1>5 DEF RpcNext

LEMMA SubmitStep ==
    ASSUME RpcInv, NEW c \in Conn, Submit(c)
    PROVE  RpcInv'
<1>1. PICK todo \in Seq(Request) \ {<<>>} : call' = [call EXCEPT ![c] = Begin(todo)]
  <2>1. /\ Operation.submit_data \in Seq(Request) \ {<<>>}
        /\ Operation.submit_extrinsic \in Seq(Request) \ {<<>>}
    BY DEF Operation, Request
  <2> QED BY <2>1, Zenon DEF Submit
<1>2. c \in Caller
  BY WsAssumption
<1> QED BY <1>1, <1>2, BeginStep, Zenon DEF Submit

LEMMA SubmittedStep ==
    ASSUME RpcInv, NEW c \in Conn, Submitted(c)
    PROVE  RpcInv'
<1>1. c \in Caller /\ included[c] \in Nat
  BY WsAssumption, CallFacts
<1>2. Fits(Idle("none"), included[c], up)
  <2>1. <<"read">> \in Seq(Request) \ {<<>>}
    BY DEF Request
  <2> QED BY <1>1, <2>1, FreshFit, Zenon
<1>3. included' = [included EXCEPT ![c] = included[c]] /\ up' = up /\ ConnectedToChain'
  BY DEF Submitted, RpcInv, RpcTypeOK, ConnectedToChain
<1>4. call' = [call EXCEPT ![c] = Idle("none")]
  BY DEF Submitted
<1> QED BY <1>1, <1>2, <1>3, <1>4, CallChanges, Zenon

\* Everything else leaves the client alone.
LEMMA OtherSteps ==
    ASSUME RpcInv, UNCHANGED rpcVars
    PROVE  RpcInv'
<1>1. UNCHANGED <<up, subxt_client, connected_node, call, stream, included>>
  BY Zenon DEF rpcVars
<1>2. RpcTypeOK' /\ ConnectedToChain'
  BY <1>1, Zenon DEF RpcInv, RpcTypeOK, ConnectedToChain
<1>3. FailsOnlyAfterSwitch'
  BY <1>1, Zenon DEF RpcInv, FailsOnlyAfterSwitch, Refused
<1>4. \A c \in Caller : Failover(c)'
  <2> TAKE c \in Caller
  <2>1. Failover(c) /\ UNCHANGED <<up, call, included>>
    BY <1>1, Zenon DEF RpcInv
  <2> QED BY <2>1 DEF Failover, Refused
<1> QED BY <1>2, <1>3, <1>4, Zenon DEF RpcInv

\* RpcInv holds in every state of the web socket API over the client.
LEMMA RpcInvariant == Spec => []RpcInv
<1>1. Init => RpcInv
  <2> SUFFICES ASSUME Init PROVE RpcInv
    OBVIOUS
  <2>1. up \subseteq Node /\ included \in [Caller -> Nat] /\ ConnectedToChain
    BY DEF Init, RpcInit, ConnectedToChain
  <2>2. <<>> \in Seq(Request)
    OBVIOUS
  <2>3. call = [c \in Caller |-> Idle("none")] /\ Idle("none") \in CallType /\ Idle("none").pc = "idle"
        /\ Idle("none").result = "none"
    BY <2>1, <2>2, FreshCalls, Zenon DEF Init, RpcInit
  <2>4. call \in [Caller -> CallType]
    BY <2>3
  <2>5. \A c \in Caller : Fits(call[c], included[c], up)
    BY <2>3 DEF Fits
  <2> QED BY <2>1, <2>4, <2>5, InvIsFits
<1>2. RpcInv /\ [Next]_vars => RpcInv'
  <2> SUFFICES ASSUME RpcInv, [Next]_vars PROVE RpcInv'
    OBVIOUS
  <2>1. CASE RpcNext
    BY <2>1, RpcStep
  <2>2. CASE \E c \in Conn : Submit(c) \/ Submitted(c)
    BY <2>2, SubmitStep, SubmittedStep
  <2>3. CASE UNCHANGED rpcVars
    BY <2>3, OtherSteps
  <2> QED BY <2>1, <2>2, <2>3, Zenon DEF Next, vars, subscribe, connect, Close, Receive, Handle,
                                  Produce, PublishNext, PublishLags
<1> QED BY <1>1, <1>2, PTL DEF Spec

\* with_retries, for any nodes, callers and retries: a call that gives up
\* although a suitable node answered all the time was beaten to State by
\* another call, or repeats a transaction that is in a block already.
THEOREM FailoverFinds == Spec => []FailsOnlyAfterSwitch
<1>1. RpcInv => FailsOnlyAfterSwitch
  BY DEF RpcInv
<1> QED BY <1>1, RpcInvariant, PTL

\* create_subxt_client admits only nodes of the configured chain: however the
\* calls that replace the connection and State's node interleave, both belong
\* to that chain, and so do the subscriptions.
THEOREM StaysOnChain == Spec => []ConnectedToChain
<1>1. RpcInv => ConnectedToChain
  BY DEF RpcInv
<1> QED BY <1>1, RpcInvariant, PTL
-----------------------------------------------------------------------------
(* Calls end *)

LEMMA Stages ==
    /\ Stage["attempt"] = 1 /\ Stage["select"] = 2 /\ Stage["connect"] = 3
    /\ Stage["write"] = 4 /\ Stage["state"] = 5
BY DEF Stage

\* Ok of with_retries ends the call, or its first request is done.
LEMMA SucceedNearer ==
    ASSUME RpcInv, NEW c \in Caller, NEW host, call[c].pc # "idle", Succeed(c, host)
    PROVE  Nearer(call[c], call'[c])
<1>1. call \in [Caller -> CallType] /\ up \subseteq Node
  BY Zenon DEF RpcInv, RpcTypeOK
<1>2. call[c].todo \in Seq(Request) /\ call[c].todo # <<>>
  BY <1>1, Zenon DEF RpcInv, Failover, CallType
<1>. DEFINE todo == call[c].todo
<1>3. Tail(todo) \in Seq(Request) /\ Len(Tail(todo)) < Len(todo)
  <2>1. todo \in Seq(Request) /\ todo # <<>>
    BY <1>2
  <2>. HIDE DEF todo
  <2>. QED
    BY <2>1
<1>4. call'[c] \in {Idle("missing"), Idle("ok"), Begin(Tail(todo))}
  <2>1. PICK r : r \in {Idle("missing"), Idle("ok"), Begin(Tail(todo))} /\ call' = [call EXCEPT ![c] = r]
    BY Zenon DEF Succeed
  <2>. QED
    BY <1>1, <2>1, Zenon
<1>5. Idle("missing").pc = "idle" /\ Idle("ok").pc = "idle" /\ Begin(Tail(todo)).todo = Tail(todo)
  BY <1>1, <1>3, FreshCalls, Zenon
<1>. QED
  BY <1>3, <1>4, <1>5, Zenon DEF Nearer

LEMMA FailNearer ==
    ASSUME RpcInv, NEW c \in Caller, NEW why \in {"error", "cancelled"}, Fail(c, why)
    PROVE  Nearer(call[c], call'[c])
<1>1. call \in [Caller -> CallType] /\ up \subseteq Node
  BY Zenon DEF RpcInv, RpcTypeOK
<1>2. call'[c] = [Idle(why) EXCEPT !.todo = call[c].todo, !.steady = call[c].steady,
                                   !.switched = call[c].switched]
  BY <1>1, Zenon DEF Fail
<1>3. call'[c].pc = "idle"
  BY <1>2, Zenon DEF Idle
<1>. QED
  BY <1>3, Zenon DEF Nearer

\* A failed attempt uses up a delay, or all are used up.
LEMMA AttemptNearer ==
    ASSUME RpcInv, NEW c \in Caller, Attempt(c)
    PROVE  Nearer(call[c], call'[c])
<1>1. call \in [Caller -> CallType] /\ call[c] \in CallType /\ call[c].pc = "attempt"
  BY Zenon DEF RpcInv, RpcTypeOK, Attempt
<1>2. CASE Executes(c, subxt_client)
  BY <1>1, <1>2, SucceedNearer DEF Attempt
<1>3. CASE ~Executes(c, subxt_client) /\ call[c].n < Retries
  <2>1. call'[c] = [call[c] EXCEPT !.n = call[c].n + 1]
    BY <1>1, <1>3, Zenon DEF Attempt
  <2>2. call[c].n \in Nat
    BY <1>1, Zenon DEF CallType
  <2>3. call'[c].n = call[c].n + 1 /\ call'[c].todo = call[c].todo /\ call'[c].pc = call[c].pc
    BY <1>1, <2>1, Zenon DEF CallType
  <2>4. call[c].n < call'[c].n /\ call'[c].n <= Retries
    BY <1>3, <2>2, <2>3, RpcAssumption
  <2>. QED
    BY <2>3, <2>4, Zenon DEF Nearer
<1>4. CASE ~Executes(c, subxt_client) /\ ~(call[c].n < Retries)
  <2>1. call'[c] = [call[c] EXCEPT !.pc = "select", !.host = subxt_client]
    BY <1>1, <1>4, Zenon DEF Attempt
  <2>2. call'[c].todo = call[c].todo /\ call'[c].pc = "select"
    BY <1>1, <2>1, Zenon DEF CallType
  <2>3. Stage[call[c].pc] < Stage[call'[c].pc]
    BY <1>1, <2>2, Stages
  <2>. QED
    BY <2>2, <2>3, Zenon DEF Nearer
<1>. QED
  BY <1>2, <1>3, <1>4

LEMMA SelectNearer ==
    ASSUME RpcInv, NEW c \in Caller, Select(c)
    PROVE  Nearer(call[c], call'[c])
<1>1. call \in [Caller -> CallType] /\ call[c] \in CallType /\ call[c].pc = "select"
  BY Zenon DEF RpcInv, RpcTypeOK, Select
<1>2. PICK list : call'[c] = [call[c] EXCEPT !.pc = "connect", !.list = list, !.i = 1, !.n = 0,
                                             !.switched = call[c].host # connected_node]
  BY <1>1, Zenon DEF Select
<1>3. call'[c].todo = call[c].todo /\ call'[c].pc = "connect"
  BY <1>1, <1>2, Zenon DEF CallType
<1>4. Stage[call[c].pc] < Stage[call'[c].pc]
  BY <1>1, <1>3, Stages
<1>. QED
  BY <1>3, <1>4, Zenon DEF Nearer

\* A node that fails is used up; the last one of the round uses up a delay.
LEMMA TryConnectNearer ==
    ASSUME RpcInv, NEW c \in Caller, TryConnect(c)
    PROVE  Nearer(call[c], call'[c])
<1>1. call \in [Caller -> CallType] /\ call[c] \in CallType /\ call[c].pc = "connect"
  BY Zenon DEF RpcInv, RpcTypeOK, TryConnect
<1>2. call[c].i \in Nat /\ call[c].n \in Nat /\ call[c].list \in Seq(Node)
  BY <1>1, Zenon DEF CallType
<1>3. \/ \E host : call' = [call EXCEPT ![c] = [call[c] EXCEPT !.pc = "write", !.host = host]]
      \/ /\ call[c].i < Len(call[c].list)
         /\ call' = [call EXCEPT ![c] = [call[c] EXCEPT !.i = call[c].i + 1]]
      \/ /\ call[c].n < Retries
         /\ call' = [call EXCEPT ![c] = [call[c] EXCEPT !.i = 1, !.n = call[c].n + 1]]
      \/ Fail(c, "error")
  BY Zenon DEF TryConnect
<1>4. ASSUME NEW host, call' = [call EXCEPT ![c] = [call[c] EXCEPT !.pc = "write", !.host = host]]
      PROVE  Nearer(call[c], call'[c])
  <2>1. call'[c] = [call[c] EXCEPT !.pc = "write", !.host = host]
    BY <1>1, <1>4, Zenon
  <2>2. call'[c].todo = call[c].todo /\ call'[c].pc = "write"
    BY <1>1, <2>1, Zenon DEF CallType
  <2>3. Stage[call[c].pc] < Stage[call'[c].pc]
    BY <1>1, <2>2, Stages
  <2>. QED
    BY <2>2, <2>3, Zenon DEF Nearer
<1>5. CASE /\ call[c].i < Len(call[c].list)
           /\ call' = [call EXCEPT ![c] = [call[c] EXCEPT !.i = call[c].i + 1]]
  <2>1. call'[c] = [call[c] EXCEPT !.i = call[c].i + 1]
    BY <1>1, <1>5, Zenon
  <2>2. /\ call'[c].i = call[c].i + 1 /\ call'[c].n = call[c].n /\ call'[c].list = call[c].list
        /\ call'[c].todo = call[c].todo /\ call'[c].pc = call[c].pc
    BY <1>1, <2>1, Zenon DEF CallType
  <2>3. Len(call[c].list) \in Nat
    BY <1>2
  <2>4. call[c].i < call'[c].i /\ call'[c].i <= Len(call[c].list)
    BY <1>2, <1>5, <2>2, <2>3
  <2>. QED
    BY <2>2, <2>4, Zenon DEF Nearer
<1>6. CASE /\ call[c].n < Retries
           /\ call' = [call EXCEPT ![c] = [call[c] EXCEPT !.i = 1, !.n = call[c].n + 1]]
  <2>1. call'[c] = [call[c] EXCEPT !.i = 1, !.n = call[c].n + 1]
    BY <1>1, <1>6, Zenon
  <2>2. call'[c].n = call[c].n + 1 /\ call'[c].todo = call[c].todo /\ call'[c].pc = call[c].pc
    BY <1>1, <2>1, Zenon DEF CallType
  <2>3. call[c].n < call'[c].n /\ call'[c].n <= Retries
    BY <1>2, <1>6, <2>2, RpcAssumption
  <2>. QED
    BY <2>2, <2>3, Zenon DEF Nearer
<1>7. CASE Fail(c, "error")
  BY <1>7, FailNearer
<1>. QED
  BY <1>3, <1>4, <1>5, <1>6, <1>7, Zenon

LEMMA CallStepNearer ==
    ASSUME RpcInv, NEW c \in Caller, CallStep(c)
    PROVE  Nearer(call[c], call'[c])
<1>1. call \in [Caller -> CallType] /\ call[c] \in CallType
  BY Zenon DEF RpcInv, RpcTypeOK
<1>2. CASE WriteClient(c)
  <2>1. call'[c] = [call[c] EXCEPT !.pc = "state"] /\ call[c].pc = "write"
    BY <1>1, <1>2, Zenon DEF WriteClient
  <2>2. call'[c].todo = call[c].todo /\ call'[c].pc = "state"
    BY <1>1, <2>1, Zenon DEF CallType
  <2>3. Stage[call[c].pc] < Stage[call'[c].pc]
    BY <2>1, <2>2, Stages
  <2>. QED
    BY <2>2, <2>3, Zenon DEF Nearer
<1>3. CASE WriteNode(c)
  BY <1>3, SucceedNearer DEF WriteNode
<1>4. CASE Cancel(c)
  BY <1>4, FailNearer DEF Cancel
<1>. QED
  BY <1>2, <1>3, <1>4, AttemptNearer, SelectNearer, TryConnectNearer DEF CallStep

\* A step of a caller changes its own call only.
LEMMA CallStepIsLocal ==
    ASSUME NEW d \in Caller, CallStep(d)
    PROVE  \E r : call' = [call EXCEPT ![d] = r]
<1>1. CASE Attempt(d) \/ WriteNode(d)
  BY <1>1, Zenon DEF Attempt, WriteNode, Succeed
<1>2. CASE Select(d) \/ WriteClient(d)
  BY <1>2, Zenon DEF Select, WriteClient
<1>3. CASE TryConnect(d)
  BY <1>3, Zenon DEF TryConnect, Fail
<1>4. CASE Cancel(d)
  BY <1>4, Zenon DEF Cancel, Fail
<1>. QED
  BY <1>1, <1>2, <1>3, <1>4, Zenon DEF CallStep

\* What is no step of the caller leaves its call where it is.
LEMMA OthersKeepCall ==
    ASSUME RpcInv, [Next]_vars, NEW c \in Caller, call[c].pc # "idle", ~CallStep(c)
    PROVE  [call'[c] EXCEPT !.steady = call[c].steady] = call[c]
<1>1. call \in [Caller -> CallType] /\ call[c] \in CallType
  BY Zenon DEF RpcInv, RpcTypeOK
<1>2. \A r : [[call[c] EXCEPT !.steady = r] EXCEPT !.steady = call[c].steady] = call[c]
  BY <1>1, Zenon DEF CallType
<1>3. [call[c] EXCEPT !.steady = call[c].steady] = call[c]
  BY <1>1 DEF CallType
<1>4. ASSUME NEW d \in Caller, d # c, NEW r, call' = [call EXCEPT ![d] = r]
      PROVE  call'[c] = call[c]
  BY <1>1, <1>4, Zenon
<1>5. CASE \E host \in Matching : Flap(host)
  <2>1. PICK host \in Matching : call' = [d \in Caller |-> [call[d] EXCEPT !.steady = @ \ {host}]]
    BY <1>5, Zenon DEF Flap
  <2>2. call'[c] = [call[c] EXCEPT !.steady = call[c].steady \ {host}]
    BY <2>1, Zenon
  <2>. QED
    BY <1>2, <2>2, Zenon
<1>6. CASE \E d \in Caller : CallStep(d)
  <2>1. PICK d \in Caller : CallStep(d)
    BY <1>6
  <2>2. d # c
    BY <2>1
  <2>. QED
    BY <1>3, <1>4, <2>1, <2>2, CallStepIsLocal, Zenon
<1>7. CASE StreamBreaks \/ LoopCalls
  <2>1. Stream # c /\ Stream \in Caller
    BY <1>7, RpcAssumption, Zenon DEF StreamBreaks, LoopCalls
  <2>2. PICK r : call' = [call EXCEPT ![Stream] = r]
    BY <1>7, Zenon DEF StreamBreaks, LoopCalls
  <2>. QED
    BY <1>3, <1>4, <2>1, <2>2, Zenon
<1>8. CASE \E d \in Conn : Submit(d) \/ Submitted(d)
  <2>1. PICK d \in Conn : Submit(d) \/ Submitted(d)
    BY <1>8
  <2>2. d # c /\ d \in Caller
    BY <2>1, WsAssumption DEF Submit, Submitted, HasRequest
  <2>3. PICK r : call' = [call EXCEPT ![d] = r]
    BY <2>1, Zenon DEF Submit, Submitted
  <2>. QED
    BY <1>3, <1>4, <2>2, <2>3, Zenon
<1>9. CASE UNCHANGED call
  BY <1>3, <1>9, Zenon
<1>10. Stop => UNCHANGED call
  BY Zenon DEF Stop
<1>11. \/ RpcNext \/ UNCHANGED rpcVars
       \/ \E d \in Conn : Submit(d) \/ Submitted(d)
  BY Zenon DEF Next, vars, subscribe, connect, Close, Receive, Handle, Produce, PublishNext, PublishLags
<1>12. UNCHANGED rpcVars => UNCHANGED call
  BY Zenon DEF rpcVars
<1>. QED
  BY <1>5, <1>6, <1>7, <1>8, <1>9, <1>10, <1>11, <1>12, Zenon DEF RpcNext

\* with_retries is bounded, for any nodes, callers and delays: each step of a
\* call brings it nearer to its end, whatever the other tasks do to the
\* connection and the nodes in between.
THEOREM CallsEnd == Spec => CallsGetNearer
<1>1. RpcInv /\ [Next]_vars =>
          [\A c \in Caller : call[c].pc # "idle" =>
               IF CallStep(c) THEN Nearer(call[c], call'[c])
               ELSE [call'[c] EXCEPT !.steady = call[c].steady] = call[c]]_rpcVars
  BY CallStepNearer, OthersKeepCall
<1>. QED
  BY <1>1, RpcInvariant, PTL DEF Spec, CallsGetNearer
-----------------------------------------------------------------------------
(* Answers and publications *)

\* A message at the end of an outbox: of another type it changes nothing; of
\* this type, and after every one that was due, it is one more of them.
LEMMA OneMore ==
    ASSUME NEW C, NEW box \in Seq(C), NEW m \in C, NEW type, NEW due, Delivered(box, type, due)
    PROVE  /\ m.type # type => Delivered(Append(box, m), type, due)
           /\ m.type = type /\ (\A n \in due : n < m.of) =>
                 Delivered(Append(box, m), type, due \cup {m.of})
<1> DEFINE new == Append(box, m)
           sends == {i \in DOMAIN box : box[i].type = type}
           more == {i \in DOMAIN new : new[i].type = type}
           k == Len(box) + 1
<1>0. /\ Len(box) \in Nat /\ DOMAIN box = 1..Len(box) /\ DOMAIN new = 1..k
      /\ new[k] = m /\ \A i \in 1..Len(box) : new[i] = box[i]
  OBVIOUS
<1> HIDE DEF new
<1>k. k = Len(box) + 1 /\ k \in Nat /\ \A i \in 1..Len(box) : i \in Nat /\ i < k /\ i # k /\ i \in 1..k
  BY <1>0
<1>d. k \in 1..k /\ \A i \in 1..k : i \in 1..Len(box) \/ i = k
  BY <1>0
<1> HIDE DEF k
<1>1. /\ Len(box) \in Nat /\ DOMAIN box = 1..Len(box) /\ DOMAIN new = 1..k
      /\ new[k] = m /\ \A i \in DOMAIN box : new[i] = box[i] /\ i \in Nat /\ i < k /\ i # k
      /\ \A i \in DOMAIN new : i \in DOMAIN box \/ i = k
      /\ k \in DOMAIN new /\ k \in Nat /\ \A i \in DOMAIN box : i \in DOMAIN new
  BY <1>0, <1>k, <1>d, Zenon
<1>2. /\ {box[i].of : i \in sends} = due
      /\ \A i, j \in sends : i < j => box[i].of < box[j].of
  BY DEF Delivered
<1>3. ASSUME m.type # type
      PROVE  Delivered(new, type, due)
  <2>1. more = sends /\ \A i \in sends : new[i].of = box[i].of
    BY <1>1, <1>3
  <2>2. {new[i].of : i \in more} = due
    BY <1>2, <2>1
  <2>3. \A i, j \in more : i < j => new[i].of < new[j].of
    BY <1>2, <2>1
  <2> QED BY <2>2, <2>3, Zenon DEF Delivered
<1>4. ASSUME m.type = type, \A n \in due : n < m.of
      PROVE  Delivered(new, type, due \cup {m.of})
  <2>1. /\ more = sends \cup {k} /\ \A i \in sends : new[i].of = box[i].of /\ i < k /\ i \in Nat
        /\ new[k].of = m.of /\ k \in Nat
    BY <1>1, <1>4
  <2> HIDE DEF sends, more
  <2>2. {new[i].of : i \in more} = due \cup {m.of}
    BY <1>2, <2>1
  <2>3. \A i \in sends : box[i].of \in due
    BY <1>2
  <2>4. ASSUME NEW i \in more, NEW j \in more, i < j
        PROVE  new[i].of < new[j].of
    <3>1. CASE i \in sends /\ j \in sends
      BY <1>2, <2>1, <2>4, <3>1
    <3>2. CASE i \in sends /\ j = k
      BY <1>4, <2>1, <2>3, <3>2
    <3>3. i # k
      BY <2>1, <2>4
    <3> QED BY <2>1, <3>1, <3>2, <3>3
  <2> QED BY <2>2, <2>4, Zenon DEF Delivered, more
<1> QED BY <1>3, <1>4, Zenon DEF new

\* An empty outbox delivers nothing.
LEMMA NothingDelivered == \A type : Delivered(<<>>, type, {})
BY DEF Delivered

\* AnswerInv of one connection: its answers, and the submission it is in.
Confirmed(box, reqs) ==
    \A i \in DOMAIN box :
        box[i].type = "response" /\ box[i].kind = "submitted" =>
            box[i].blocks > 0 /\ reqs[box[i].of] \in {"data", "extrinsic"}

Answered(reqs, n, box) ==
    /\ reqs \in Seq(Payload) /\ n \in Nat /\ box \in Seq(Message) /\ n <= Len(reqs)
    /\ Delivered(box, "response", {k \in 1..n : reqs[k] # "binary"})
    /\ Confirmed(box, reqs)

Pending(r, blocks) ==
    /\ r.pc # "idle" => r.todo \in Submission \/ (r.todo = <<"read">> /\ blocks > 0)
    /\ r.pc \in {"write", "state"} \/ r.result = "ok" => blocks > 0

AtSubmission(reqs, n, r) ==
    r.pc # "idle" \/ r.result # "none" => n < Len(reqs) /\ reqs[n + 1] \in {"data", "extrinsic"}

\* The same of every connection.
AllAnswered(reqs, n, box, calls_, blocks) ==
    /\ reqs \in [Conn -> Seq(Payload)] /\ n \in [Conn -> Nat] /\ box \in [Conn -> Seq(Message)]
    /\ \A c \in Conn : /\ Answered(reqs[c], n[c], box[c])
                       /\ AtSubmission(reqs[c], n[c], calls_[c])
                       /\ Pending(calls_[c], blocks[c])

LEMMA AnswerIsParts == AnswerInv <=> AllAnswered(requests, taken, outbox, call, included)
<1>1. AnsweredInOrder <=>
         \A c \in Conn : /\ Delivered(outbox[c], "response", {k \in 1..taken[c] : requests[c][k] # "binary"})
                         /\ Confirmed(outbox[c], requests[c])
  BY Zenon DEF AnsweredInOrder, Confirmed
<1>2. \A c \in Conn : SubmitInv(c) <=> AtSubmission(requests[c], taken[c], call[c]) /\ Pending(call[c], included[c])
  BY Zenon DEF SubmitInv, AtSubmission, Pending
<1> QED BY <1>1, <1>2, Zenon DEF AnswerInv, AllAnswered, Answered

LEMMA AnswerIsPartsNext == AnswerInv' <=> AllAnswered(requests', taken', outbox', call', included')
<1>1. AnsweredInOrder' <=>
         \A c \in Conn : /\ Delivered(outbox'[c], "response", {k \in 1..taken'[c] : requests'[c][k] # "binary"})
                         /\ Confirmed(outbox'[c], requests'[c])
  BY Zenon DEF AnsweredInOrder, Confirmed, Delivered
<1>2. \A c \in Conn : SubmitInv(c)' <=> AtSubmission(requests'[c], taken'[c], call'[c]) /\ Pending(call'[c], included'[c])
  BY Zenon DEF SubmitInv, AtSubmission, Pending
<1> QED BY <1>1, <1>2, Zenon DEF AnswerInv, AllAnswered, Answered

\* The two submissions.
LEMMA Submissions ==
    /\ Submission = {<<"data", "read">>, <<"extrinsic", "read">>}
    /\ Operation.submit_data \in Submission /\ Operation.submit_extrinsic \in Submission
    /\ \A todo \in Submission : /\ Len(todo) = 2 /\ Tail(todo) = <<"read">>
                                /\ todo[1] \in {"data", "extrinsic"}
    /\ Len(<<"read">>) = 1 /\ <<"read">>[1] = "read"
<1>1. Operation.submit_data = <<"data", "read">> /\ Operation.submit_extrinsic = <<"extrinsic", "read">>
  BY DEF Operation
<1>2. Submission = {<<"data", "read">>, <<"extrinsic", "read">>}
  BY <1>1, Zenon DEF Submission
<1>3. Tail(<<"data", "read">>) = <<"read">> /\ Tail(<<"extrinsic", "read">>) = <<"read">>
  OBVIOUS
<1> QED BY <1>1, <1>2, <1>3

\* A step of a submission keeps what is known of it: with the first request
\* answered, the transaction is in a block.
LEMMA PendingSucceeds ==
    ASSUME RpcInv, NEW c \in Caller, NEW host, call[c].pc # "idle", Succeed(c, host),
           Pending(call[c], included[c]), NEW blocks \in Nat, blocks > 0
    PROVE  Pending(call'[c], blocks)
<1>1. call \in [Caller -> CallType] /\ call[c].todo \in Submission \cup {<<"read">>}
  BY DEF RpcInv, RpcTypeOK, Pending
<1>2. PICK r : /\ call' = [call EXCEPT ![c] = r]
               /\ (r = Idle("missing") \/ r = Idle("ok") \/ (Len(call[c].todo) > 1 /\ r = Begin(Tail(call[c].todo))))
  BY Zenon DEF Succeed
<1>3. call'[c] = r
  BY <1>1, <1>2
<1>4. Len(call[c].todo) > 1 => Tail(call[c].todo) = <<"read">>
  <2>1. CASE call[c].todo \in Submission
    BY <2>1, Submissions, Zenon
  <2>2. CASE call[c].todo = <<"read">>
    BY <2>2
  <2> QED BY <1>1, <2>1, <2>2
<1>5. <<"read">> \in Seq(Request) /\ up \subseteq Node
  BY DEF Request, RpcInv, RpcTypeOK
<1>6. /\ Begin(<<"read">>).pc = "attempt" /\ Begin(<<"read">>).todo = <<"read">> /\ Begin(<<"read">>).result = "none"
      /\ Idle("missing").pc = "idle" /\ Idle("missing").result = "missing"
      /\ Idle("ok").pc = "idle" /\ Idle("ok").result = "ok"
  BY <1>5, FreshCalls, Zenon
<1> QED BY <1>2, <1>3, <1>4, <1>6, Zenon DEF Pending

\* What is executed puts the transaction into a block, if it is not there.
LEMMA ExecutedIsIncluded ==
    ASSUME RpcInv, NEW c \in Caller, call[c].pc # "idle", Pending(call[c], included[c]), Includes(c, TRUE)
    PROVE  included' \in [Caller -> Nat] /\ included'[c] > 0
<1>1. included \in [Caller -> Nat]
  BY DEF RpcInv, RpcTypeOK
<1>2. CASE call[c].todo \in Submission
  <2>1. call[c].todo[1] \in {"data", "extrinsic"}
    BY <1>2, Submissions
  <2>2. included' = [included EXCEPT ![c] = included[c] + 1]
    BY <2>1 DEF Includes
  <2> QED BY <1>1, <2>2
<1>3. CASE call[c].todo = <<"read">> /\ included[c] > 0
  BY <1>1, <1>3, Submissions DEF Includes
<1> QED BY <1>2, <1>3 DEF Pending

LEMMA PendingStep ==
    ASSUME RpcInv, NEW c \in Caller, CallStep(c), Pending(call[c], included[c])
    PROVE  Pending(call'[c], included'[c])
<1>1. call \in [Caller -> CallType] /\ included \in [Caller -> Nat] /\ call[c] \in CallType
  BY DEF RpcInv, RpcTypeOK
<1>2. call[c].pc # "idle" /\ call[c].result = "none"
  BY <1>1, Zenon DEF CallStep, Attempt, Select, TryConnect, WriteClient, WriteNode, Cancel, RpcInv, Failover
<1>3. ASSUME NEW r, NEW blocks \in Nat, call' = [call EXCEPT ![c] = r], included' = [included EXCEPT ![c] = blocks],
             blocks >= included[c], r.todo = call[c].todo, r.result = "none",
             r.pc \in {"write", "state"} => blocks > 0
      PROVE  Pending(call'[c], included'[c])
  <2>1. call'[c] = r /\ included'[c] = blocks /\ included[c] \in Nat
    BY <1>1, <1>3
  <2> QED BY <1>2, <1>3, <2>1 DEF Pending
<1>4. ASSUME NEW why \in {"error", "cancelled"}, Fail(c, why)
      PROVE  Pending(call'[c], included'[c])
  <2> DEFINE r == [Idle(why) EXCEPT !.todo = call[c].todo, !.steady = call[c].steady,
                                    !.switched = call[c].switched]
  <2>1. call'[c] = r
    BY <1>1, <1>4 DEF Fail
  <2>2. r.pc = "idle" /\ r.result = why
    BY DEF Idle
  <2> QED BY <2>1, <2>2 DEF Pending
<1>5. CASE Attempt(c)
  <2>1. PICK blocks \in Nat : blocks >= included[c] /\ included' = [included EXCEPT ![c] = blocks]
    BY <1>5, IncludesGrows DEF Attempt
  <2>2. CASE Executes(c, subxt_client)
    <3>1. Executes(c, subxt_client) = TRUE
      BY <2>2 DEF Executes
    <3>2. Includes(c, TRUE) /\ Succeed(c, subxt_client)
      BY <1>5, <2>2, <3>1, Zenon DEF Attempt
    <3>3. included' \in [Caller -> Nat] /\ included'[c] > 0
      BY <1>2, <3>2, ExecutedIsIncluded, Zenon
    <3> QED BY <1>2, <3>2, <3>3, PendingSucceeds
  <2>3. CASE ~Executes(c, subxt_client)
    <3> DEFINE again == [call[c] EXCEPT !.n = call[c].n + 1]
               failed == [call[c] EXCEPT !.pc = "select", !.host = subxt_client]
               r == IF call[c].n < Retries THEN again ELSE failed
    <3>1. call' = [call EXCEPT ![c] = r]
      BY <1>5, <2>3, Zenon DEF Attempt
    <3>2. again.pc = "attempt" /\ again.todo = call[c].todo /\ again.result = "none"
      BY <1>1, <1>2, <1>5 DEF CallType, Attempt
    <3>3. failed.pc = "select" /\ failed.todo = call[c].todo /\ failed.result = "none"
      BY <1>1, <1>2 DEF CallType
    <3>4. r.pc \notin {"write", "state"} /\ r.todo = call[c].todo /\ r.result = "none"
      BY <3>2, <3>3
    <3> HIDE DEF r
    <3> QED BY <1>3, <2>1, <3>1, <3>4, Zenon
  <2> QED BY <2>2, <2>3
<1>6. CASE Select(c)
  <2>1. PICK list : call' = [call EXCEPT ![c] = [call[c] EXCEPT !.pc = "connect", !.list = list, !.i = 1, !.n = 0,
                                                !.switched = call[c].host # connected_node]]
    BY <1>6, Zenon DEF Select
  <2> DEFINE r == [call[c] EXCEPT !.pc = "connect", !.list = list, !.i = 1, !.n = 0,
                                  !.switched = call[c].host # connected_node]
  <2>2. r.pc = "connect" /\ r.todo = call[c].todo /\ r.result = "none"
    BY <1>1, <1>2, Zenon DEF CallType
  <2>3. included' = [included EXCEPT ![c] = included[c]] /\ included[c] \in Nat /\ included[c] >= included[c]
    BY <1>1, <1>6 DEF Select
  <2> HIDE DEF r
  <2>4. call' = [call EXCEPT ![c] = r]
    BY <2>1, Zenon DEF r
  <2> QED BY <1>3, <2>2, <2>3, <2>4, Zenon
<1>7. CASE TryConnect(c)
  <2> DEFINE host == call[c].list[call[c].i]
             ok == host \in up \cap Matching /\ Executes(c, host)
  <2>1. PICK blocks \in Nat : blocks >= included[c] /\ included' = [included EXCEPT ![c] = blocks]
    BY <1>7, IncludesGrows DEF TryConnect
  <2>2. CASE ok
    <3>1. ok = TRUE
      BY <2>2 DEF Executes
    <3>2. Includes(c, TRUE) /\ call' = [call EXCEPT ![c] = [call[c] EXCEPT !.pc = "write", !.host = host]]
      BY <1>7, <3>1, Zenon DEF TryConnect
    <3>3. included' \in [Caller -> Nat] /\ included'[c] > 0
      BY <1>2, <3>2, ExecutedIsIncluded, Zenon
    <3>4. call'[c].pc = "write" /\ call'[c].todo = call[c].todo /\ call'[c].result = "none"
      BY <1>1, <1>2, <3>2 DEF CallType
    <3> QED BY <1>2, <3>3, <3>4 DEF Pending
  <2>3. CASE ~ok
    <3> DEFINE next == [call[c] EXCEPT !.i = call[c].i + 1]
               again == [call[c] EXCEPT !.i = 1, !.n = call[c].n + 1]
    <3>1. \/ call' = [call EXCEPT ![c] = next]
          \/ call' = [call EXCEPT ![c] = again]
          \/ Fail(c, "error")
      BY <1>7, <2>3, Zenon DEF TryConnect
    <3>2. /\ next.pc = "connect" /\ next.todo = call[c].todo /\ next.result = "none"
          /\ again.pc = "connect" /\ again.todo = call[c].todo /\ again.result = "none"
      BY <1>1, <1>2, <1>7, SMTT(30) DEF CallType, TryConnect
    <3> HIDE DEF next, again
    <3> QED BY <1>3, <1>4, <2>1, <3>1, <3>2, Zenon
  <2> QED BY <2>2, <2>3
<1>8. CASE WriteClient(c)
  <2> DEFINE r == [call[c] EXCEPT !.pc = "state"]
  <2>1. call' = [call EXCEPT ![c] = r] /\ call[c].pc = "write"
        /\ included' = [included EXCEPT ![c] = included[c]] /\ included[c] \in Nat /\ included[c] >= included[c]
    BY <1>1, <1>8 DEF WriteClient
  <2>2. r.todo = call[c].todo /\ r.result = "none"
    BY <1>1, <1>2 DEF CallType
  <2>3. included[c] > 0
    BY <2>1 DEF Pending
  <2> HIDE DEF r
  <2> QED BY <1>3, <2>1, <2>2, <2>3, Zenon
<1>9. CASE WriteNode(c)
  <2>1. Succeed(c, call[c].host) /\ included[c] > 0 /\ included[c] \in Nat /\ included'[c] = included[c]
    BY <1>1, <1>9 DEF WriteNode, Pending
  <2> QED BY <1>2, <2>1, PendingSucceeds
<1>10. CASE Cancel(c)
  BY <1>4, <1>10 DEF Cancel
<1> QED BY <1>5, <1>6, <1>7, <1>8, <1>9, <1>10 DEF CallStep

-----------------------------------------------------------------------------
\* A connection of which nothing changes keeps what is known of it.
LEMMA AnswersFrame ==
    ASSUME AnswerInv, UNCHANGED <<requests, taken, outbox>>,
           \A c \in Conn : call'[c] = call[c] /\ included'[c] = included[c]
    PROVE  AnswerInv'
BY AnswerIsParts, AnswerIsPartsNext, Zenon DEF AllAnswered

\* A step of a call is of one caller.
LEMMA OneCaller ==
    ASSUME RpcInv, NEW d \in Caller, CallStep(d), NEW c \in Caller, c # d
    PROVE  call'[c] = call[c] /\ included'[c] = included[c]
<1>1. call \in [Caller -> CallType] /\ included \in [Caller -> Nat]
  BY DEF RpcInv, RpcTypeOK
<1>2. \E r : call' = [call EXCEPT ![d] = r]
  <2>1. CASE Attempt(d)
    BY <2>1, Zenon DEF Attempt, Succeed
  <2>2. CASE Select(d) \/ TryConnect(d) \/ WriteClient(d) \/ Cancel(d)
    BY <2>2, Zenon DEF Select, TryConnect, WriteClient, Cancel, Fail
  <2>3. CASE WriteNode(d)
    BY <2>3, Zenon DEF WriteNode, Succeed
  <2> QED BY <2>1, <2>2, <2>3 DEF CallStep
<1>3. \E n : included' = [included EXCEPT ![d] = n]
  <2>1. \A e : Includes(d, e) => \E n : included' = [included EXCEPT ![d] = n]
    BY <1>1 DEF Includes
  <2>2. included = [included EXCEPT ![d] = included[d]]
    BY <1>1
  <2>3. CASE Attempt(d)
    BY <2>1, <2>3, Zenon DEF Attempt
  <2>4. CASE TryConnect(d)
    BY <2>1, <2>2, <2>4, Zenon DEF TryConnect
  <2>5. CASE Select(d) \/ WriteClient(d) \/ WriteNode(d) \/ Cancel(d)
    BY <2>2, <2>5, Zenon DEF Select, WriteClient, WriteNode, Cancel
  <2> QED BY <2>3, <2>4, <2>5 DEF CallStep
<1> QED BY <1>1, <1>2, <1>3

\* A step of the RPC client's callers, and the steps of its environment.
LEMMA RpcKeepsAnswers ==
    ASSUME RpcInv, AnswerInv, RpcNext, UNCHANGED <<requests, taken, outbox>>
    PROVE  AnswerInv'
<1>1. call \in [Caller -> CallType] /\ included \in [Caller -> Nat] /\ Stream \in Caller /\ Stream \notin Conn
      /\ Conn \subseteq Caller
  BY WsAssumption DEF RpcInv, RpcTypeOK
<1>2. ASSUME NEW d \in Caller, CallStep(d)
      PROVE  AnswerInv'
  <2>1. SUFFICES ASSUME NEW c \in Conn
                 PROVE  AtSubmission(requests[c], taken[c], call'[c]) /\ Pending(call'[c], included'[c])
    BY AnswerIsParts, AnswerIsPartsNext, Zenon DEF AllAnswered
  <2>2. AtSubmission(requests[c], taken[c], call[c]) /\ Pending(call[c], included[c]) /\ c \in Caller
    BY <1>1, AnswerIsParts DEF AllAnswered
  <2>3. CASE c # d
    BY <1>1, <1>2, <2>2, <2>3, OneCaller
  <2>4. CASE c = d
    <3>1. call[c].pc # "idle"
      BY <1>2, <2>4, Zenon DEF CallStep, Attempt, Select, TryConnect, WriteClient, WriteNode, Cancel
    <3>2. Pending(call'[c], included'[c])
      BY <1>2, <2>2, <2>4, PendingStep
    <3> QED BY <2>2, <3>1, <3>2 DEF AtSubmission
  <2> QED BY <2>3, <2>4
<1>3. ASSUME NEW r, call' = [call EXCEPT ![Stream] = r], included' = included
      PROVE  AnswerInv'
  BY <1>1, <1>3, AnswersFrame
<1>4. CASE StreamBreaks
  BY <1>3, <1>4, Zenon DEF StreamBreaks
<1>5. CASE LoopCalls
  BY <1>3, <1>5, Zenon DEF LoopCalls
<1>6. CASE Stop
  BY <1>6, AnswersFrame DEF Stop
<1>7. ASSUME NEW host \in Matching, Flap(host)
      PROVE  AnswerInv'
  <2>1. included' = included /\ call' = [c \in Caller |-> [call[c] EXCEPT !.steady = call[c].steady \ {host}]]
    BY <1>7 DEF Flap
  <2>2. ASSUME NEW c \in Conn
        PROVE  call'[c].pc = call[c].pc /\ call'[c].todo = call[c].todo /\ call'[c].result = call[c].result
    BY <1>1, <2>1 DEF CallType
  <2>3. \A c \in Conn : /\ AtSubmission(requests[c], taken[c], call[c]) => AtSubmission(requests[c], taken[c], call'[c])
                        /\ Pending(call[c], included[c]) => Pending(call'[c], included'[c])
    BY <2>1, <2>2, Zenon DEF AtSubmission, Pending
  <2> QED BY <2>3, AnswerIsParts, AnswerIsPartsNext, Zenon DEF AllAnswered
<1> QED BY <1>2, <1>4, <1>5, <1>6, <1>7 DEF RpcNext

-----------------------------------------------------------------------------
\* What one connection does is all that changes.
LEMMA OneConnection ==
    ASSUME AnswerInv, NEW d \in Conn, NEW reqs \in Seq(Payload), NEW n \in Nat, NEW box \in Seq(Message),
           requests' = [requests EXCEPT ![d] = reqs], taken' = [taken EXCEPT ![d] = n],
           outbox' = [outbox EXCEPT ![d] = box],
           \A c \in Conn : c # d => call'[c] = call[c] /\ included'[c] = included[c],
           Answered(reqs, n, box), AtSubmission(reqs, n, call'[d]), Pending(call'[d], included'[d])
    PROVE  AnswerInv'
<1>1. AllAnswered(requests, taken, outbox, call, included)
  BY AnswerIsParts
<1>2. /\ requests' \in [Conn -> Seq(Payload)] /\ taken' \in [Conn -> Nat] /\ outbox' \in [Conn -> Seq(Message)]
      /\ requests'[d] = reqs /\ taken'[d] = n /\ outbox'[d] = box
      /\ \A c \in Conn : c # d => requests'[c] = requests[c] /\ taken'[c] = taken[c] /\ outbox'[c] = outbox[c]
  BY <1>1 DEF AllAnswered
<1>3. ASSUME NEW c \in Conn
      PROVE  /\ Answered(requests'[c], taken'[c], outbox'[c])
             /\ AtSubmission(requests'[c], taken'[c], call'[c]) /\ Pending(call'[c], included'[c])
  <2>1. CASE c = d
    BY <1>2, <2>1
  <2>2. CASE c # d
    <3>1. call'[c] = call[c] /\ included'[c] = included[c]
      BY <2>2
    <3> QED BY <1>1, <1>2, <2>2, <3>1, Zenon DEF AllAnswered
  <2> QED BY <2>1, <2>2
<1> QED BY <1>2, <1>3, AnswerIsPartsNext DEF AllAnswered

\* A function changed to what it was is the same.
LEMMA SameAt ==
    ASSUME NEW S, NEW T, NEW f \in [S -> T], NEW d \in S
    PROVE  f = [f EXCEPT ![d] = f[d]]
OBVIOUS

\* An answer at the end of an outbox confirms what it may.
LEMMA ConfirmOne ==
    ASSUME NEW C, NEW box \in Seq(C), NEW m \in C, NEW reqs, Confirmed(box, reqs),
           m.type = "response" /\ m.kind = "submitted" => m.blocks > 0 /\ reqs[m.of] \in {"data", "extrinsic"}
    PROVE  Confirmed(Append(box, m), reqs)
<1> DEFINE new == Append(box, m)
<1>1. \A i \in DOMAIN new : (i \in DOMAIN box /\ new[i] = box[i]) \/ new[i] = m
  OBVIOUS
<1> HIDE DEF new
<1>2. Confirmed(new, reqs)
  BY <1>1, Zenon DEF Confirmed
<1> QED BY <1>2 DEF new

\* One more request answered.
LEMMA AnswerOne ==
    ASSUME NEW reqs \in Seq(Payload), NEW n \in Nat, n < Len(reqs), NEW box \in Seq(Message), Answered(reqs, n, box),
           NEW kind, NEW blocks \in Nat,
           [type |-> "response", of |-> n + 1, kind |-> kind, blocks |-> blocks] \in Message,
           reqs[n + 1] # "binary",
           kind = "submitted" => blocks > 0 /\ reqs[n + 1] \in {"data", "extrinsic"}
    PROVE  /\ Append(box, [type |-> "response", of |-> n + 1, kind |-> kind, blocks |-> blocks]) \in Seq(Message)
           /\ Answered(reqs, n + 1, Append(box, [type |-> "response", of |-> n + 1, kind |-> kind, blocks |-> blocks]))
<1> DEFINE m == [type |-> "response", of |-> n + 1, kind |-> kind, blocks |-> blocks]
           due == {k \in 1..n : reqs[k] # "binary"}
           now == {k \in 1..(n + 1) : reqs[k] # "binary"}
<1>1. m.type = "response" /\ m.of = n + 1 /\ m.kind = kind /\ m.blocks = blocks /\ m \in Message
  OBVIOUS
<1>2. now = due \cup {n + 1} /\ \A k \in due : k < n + 1
  BY SMTT(30)
<1> HIDE DEF m, now
<1>3. Delivered(Append(box, m), "response", now)
  <2>1. Delivered(box, "response", due)
    BY Zenon DEF Answered
  <2>2. \A k \in due : k < m.of
    BY <1>1, <1>2
  <2> HIDE DEF due
  <2>3. Delivered(Append(box, m), "response", due \cup {m.of})
    BY <1>1, <2>1, <2>2, OneMore
  <2> QED BY <1>1, <1>2, <2>3
<1>4. Confirmed(Append(box, m), reqs)
  <2>1. Confirmed(box, reqs)
    BY DEF Answered
  <2> QED BY <1>1, <2>1, ConfirmOne
<1>5. Append(box, m) \in Seq(Message) /\ n + 1 \in Nat /\ n + 1 <= Len(reqs)
  <2>1. Append(box, m) \in Seq(Message)
    BY <1>1
  <2>2. n + 1 \in Nat /\ n + 1 <= Len(reqs)
    OBVIOUS
  <2> QED BY <2>1, <2>2
<1>6. Answered(reqs, n + 1, Append(box, m))
  BY <1>3, <1>4, <1>5, Zenon DEF Answered, now
<1> QED BY <1>5, <1>6, Zenon DEF m

\* A message that is not text is skipped.
LEMMA SkipOne ==
    ASSUME NEW reqs \in Seq(Payload), NEW n \in Nat, n < Len(reqs), NEW box \in Seq(Message), Answered(reqs, n, box),
           reqs[n + 1] = "binary"
    PROVE  Answered(reqs, n + 1, box)
<1>1. {k \in 1..(n + 1) : reqs[k] # "binary"} = {k \in 1..n : reqs[k] # "binary"} /\ n + 1 \in Nat /\ n + 1 <= Len(reqs)
  OBVIOUS
<1> QED BY <1>1, Zenon DEF Answered

\* One more request, not handled yet.
LEMMA ReceiveOne ==
    ASSUME NEW reqs \in Seq(Payload), NEW n \in Nat, NEW box \in Seq(Message), Answered(reqs, n, box), NEW p \in Payload,
           NEW r, AtSubmission(reqs, n, r)
    PROVE  Append(reqs, p) \in Seq(Payload) /\ Answered(Append(reqs, p), n, box) /\ AtSubmission(Append(reqs, p), n, r)
<1> DEFINE new == Append(reqs, p)
           due == {k \in 1..n : reqs[k] # "binary"}
<1>1. /\ Len(reqs) \in Nat /\ new \in Seq(Payload) /\ Len(new) = Len(reqs) + 1
      /\ \A k \in 1..Len(reqs) : new[k] = reqs[k]
  OBVIOUS
<1>2. n <= Len(reqs) /\ Delivered(box, "response", due) /\ Confirmed(box, reqs)
  BY Zenon DEF Answered
<1> HIDE DEF new
<1>3. {k \in 1..n : new[k] # "binary"} = due /\ n <= Len(new)
  BY <1>1, <1>2
<1>4. Confirmed(box, new)
  <2> SUFFICES ASSUME NEW i \in DOMAIN box, box[i].type = "response", box[i].kind = "submitted"
               PROVE  box[i].blocks > 0 /\ new[box[i].of] \in {"data", "extrinsic"}
    BY Zenon DEF Confirmed
  <2>1. box[i].blocks > 0 /\ reqs[box[i].of] \in {"data", "extrinsic"}
    BY <1>2, Zenon DEF Confirmed
  <2>2. box[i].of \in due
    BY <1>2 DEF Delivered
  <2>3. n <= Len(reqs)
    BY <1>2, Zenon
  <2>4. box[i].of \in 1..n
    BY <2>2, Zenon
  <2> HIDE DEF due
  <2>5. box[i].of \in 1..Len(reqs)
    BY <2>3, <2>4, SMTT(30)
  <2> QED BY <1>1, <2>1, <2>5
<1>5. Answered(new, n, box)
  BY <1>1, <1>2, <1>3, <1>4, Zenon DEF Answered
<1>6. AtSubmission(new, n, r)
  BY <1>1, SMTT(30) DEF AtSubmission
<1> QED BY <1>1, <1>5, <1>6, Zenon DEF new

\* A publication is not an answer.
LEMMA PublishOne ==
    ASSUME NEW reqs \in Seq(Payload), NEW n \in Nat, NEW box \in Seq(Message), Answered(reqs, n, box),
           NEW m \in Message, m.type # "response"
    PROVE  Append(box, m) \in Seq(Message) /\ Answered(reqs, n, Append(box, m))
<1>1. n <= Len(reqs) /\ Delivered(box, "response", {k \in 1..n : reqs[k] # "binary"}) /\ Confirmed(box, reqs)
  BY Zenon DEF Answered
<1>2. Delivered(Append(box, m), "response", {k \in 1..n : reqs[k] # "binary"})
  BY <1>1, OneMore, Zenon
<1>3. Confirmed(Append(box, m), reqs)
  BY <1>1, ConfirmOne
<1>4. Append(box, m) \in Seq(Message)
  OBVIOUS
<1> QED BY <1>1, <1>2, <1>3, <1>4, Zenon DEF Answered

-----------------------------------------------------------------------------
\* What AnswerInv says of one connection.
LEMMA AtConnection ==
    ASSUME AnswerInv, NEW c \in Conn
    PROVE  /\ requests[c] \in Seq(Payload) /\ taken[c] \in Nat /\ outbox[c] \in Seq(Message)
           /\ Answered(requests[c], taken[c], outbox[c])
           /\ AtSubmission(requests[c], taken[c], call[c])
           /\ Pending(call[c], included[c])
           /\ requests = [requests EXCEPT ![c] = requests[c]] /\ taken = [taken EXCEPT ![c] = taken[c]]
           /\ outbox = [outbox EXCEPT ![c] = outbox[c]]
<1>1. AllAnswered(requests, taken, outbox, call, included)
  BY AnswerIsParts
<1> QED BY <1>1 DEF AllAnswered

LEMMA ReceiveAnswers ==
    ASSUME AnswerInv, scenario \in Scenarios, NEW c \in Conn, Receive(c)
    PROVE  AnswerInv'
<1>1. PICK p \in Payload : requests' = [requests EXCEPT ![c] = Append(requests[c], p)]
  BY RpcAssumption, Zenon DEF Receive
<1>2. taken' = [taken EXCEPT ![c] = taken[c]] /\ outbox' = [outbox EXCEPT ![c] = outbox[c]]
      /\ call' = call /\ included' = included
  BY AtConnection, Zenon DEF Receive, rpcVars
<1>3. /\ Append(requests[c], p) \in Seq(Payload) /\ Answered(Append(requests[c], p), taken[c], outbox[c])
      /\ AtSubmission(Append(requests[c], p), taken[c], call[c])
  BY AtConnection, ReceiveOne
<1> QED BY <1>1, <1>2, <1>3, AtConnection, OneConnection, Zenon

LEMMA HandleAnswers ==
    ASSUME RpcInv, AnswerInv, NEW c \in Conn, Handle(c)
    PROVE  AnswerInv'
<1> DEFINE n == taken[c]
           p == requests[c][n + 1]
           m(kind) == [type |-> "response", of |-> n + 1, kind |-> kind, blocks |-> included[c]]
<1>1. /\ requests' = [requests EXCEPT ![c] = requests[c]] /\ taken' = [taken EXCEPT ![c] = n + 1]
      /\ call' = call /\ included' = included
  BY AtConnection DEF Handle, rpcVars
<1>2. n \in Nat /\ n < Len(requests[c]) /\ call[c].pc = "idle" /\ call[c].result = "none" /\ n + 1 \in Nat
  BY AtConnection DEF Handle, HasRequest
<1>3. AtSubmission(requests[c], n + 1, call[c]) /\ Pending(call[c], included[c])
  BY <1>2, AtConnection DEF AtSubmission
<1>4. included[c] \in Nat /\ connected_node \in Matching /\ connected_node \in Node
  BY WsAssumption, RpcAssumption DEF RpcInv, RpcTypeOK, ConnectedToChain
<1>5. CASE p = "binary"
  <2>1. outbox' = [outbox EXCEPT ![c] = outbox[c]]
    BY <1>5, AtConnection DEF Handle
  <2>2. Answered(requests[c], n + 1, outbox[c])
    BY <1>2, <1>5, AtConnection, SkipOne
  <2> HIDE DEF n, p
  <2> QED BY <1>1, <1>2, <1>3, <2>1, <2>2, AtConnection, OneConnection, Zenon
<1>6. CASE p # "binary"
  <2>1. PICK kind \in {"version", "bad-request"} \cup Matching : outbox' = [outbox EXCEPT ![c] = Append(outbox[c], m(kind))]
    BY <1>4, <1>6, Zenon DEF Handle, Respond
  <2>2. m(kind) \in Message /\ kind # "submitted"
    <3>1. kind # "submitted"
      BY RpcAssumption, WsAssumption
    <3> QED BY <1>2, <1>4, <3>1 DEF Message
  <2>3. /\ Append(outbox[c], m(kind)) \in Seq(Message)
        /\ Answered(requests[c], n + 1, Append(outbox[c], m(kind)))
    BY <1>2, <1>4, <1>6, <2>2, AtConnection, AnswerOne
  <2> HIDE DEF n, p, m
  <2> QED BY <1>1, <1>2, <1>3, <2>1, <2>3, AtConnection, OneConnection, Zenon
<1> QED BY <1>5, <1>6

LEMMA SubmitAnswers ==
    ASSUME RpcInv, AnswerInv, NEW c \in Conn, Submit(c)
    PROVE  AnswerInv'
<1>1. call \in [Caller -> CallType] /\ included \in [Caller -> Nat] /\ Conn \subseteq Caller /\ up \subseteq Node
  BY WsAssumption DEF RpcInv, RpcTypeOK
<1>2. PICK todo \in Submission : call' = [call EXCEPT ![c] = Begin(todo)]
  BY Zenon DEF Submit, Submission
<1>3. included' = [included EXCEPT ![c] = 0] /\ UNCHANGED <<requests, taken, outbox>>
  BY DEF Submit, wsVars
<1>4. todo \in Seq(Request)
  <2>1. <<"data", "read">> \in Seq(Request) /\ <<"extrinsic", "read">> \in Seq(Request)
    BY DEF Request
  <2> QED BY <2>1, Submissions, Zenon
<1>5. Begin(todo).pc = "attempt" /\ Begin(todo).todo = todo /\ Begin(todo).result = "none"
  BY <1>1, <1>4, FreshCalls, Zenon
<1>6. call'[c] = Begin(todo) /\ \A d \in Conn : d # c => call'[d] = call[d] /\ included'[d] = included[d]
  BY <1>1, <1>2, <1>3
<1>7. Pending(call'[c], included'[c])
  BY <1>5, <1>6 DEF Pending
<1>8. AtSubmission(requests[c], taken[c], call'[c])
  BY DEF Submit, HasRequest, AtSubmission
<1> QED BY <1>3, <1>6, <1>7, <1>8, AtConnection, OneConnection, Zenon

LEMMA SubmittedAnswers ==
    ASSUME RpcInv, AnswerInv, NEW c \in Conn, Submitted(c)
    PROVE  AnswerInv'
<1> DEFINE n == taken[c]
           kind == IF call[c].result = "ok" THEN "submitted" ELSE "internal-server-error"
           m == [type |-> "response", of |-> n + 1, kind |-> kind, blocks |-> included[c]]
<1>1. call \in [Caller -> CallType] /\ included \in [Caller -> Nat] /\ Conn \subseteq Caller /\ up \subseteq Node
      /\ <<>> \in Seq(Request)
  BY WsAssumption DEF RpcInv, RpcTypeOK
<1>2. /\ requests' = [requests EXCEPT ![c] = requests[c]] /\ taken' = [taken EXCEPT ![c] = n + 1]
      /\ call' = [call EXCEPT ![c] = Idle("none")] /\ included' = included
      /\ outbox' = [outbox EXCEPT ![c] = Append(outbox[c], m)]
  BY AtConnection DEF Submitted, Respond
<1>3. n \in Nat /\ n < Len(requests[c]) /\ call[c].pc = "idle" /\ call[c].result # "none" /\ n + 1 \in Nat
  BY AtConnection, SMTT(30) DEF Submitted, HasRequest
<1>4. Idle("none").pc = "idle" /\ Idle("none").result = "none"
  BY <1>1, FreshCalls, Zenon
<1>5. call'[c] = Idle("none") /\ \A d \in Conn : d # c => call'[d] = call[d] /\ included'[d] = included[d]
  BY <1>1, <1>2
<1>6. AtSubmission(requests[c], n + 1, call'[c]) /\ Pending(call'[c], included'[c])
  BY <1>4, <1>5, Zenon DEF AtSubmission, Pending
<1>7. requests[c][n + 1] \in {"data", "extrinsic"} /\ requests[c][n + 1] # "binary" /\ included[c] \in Nat
      /\ (kind = "submitted" => included[c] > 0)
  BY <1>1, <1>3, AtConnection DEF AtSubmission, Pending
<1>8. m \in Message
  BY <1>3, <1>7, Zenon DEF Message
<1> HIDE DEF kind
<1>9. Append(outbox[c], m) \in Seq(Message) /\ Answered(requests[c], n + 1, Append(outbox[c], m))
  BY <1>3, <1>7, <1>8, AtConnection, AnswerOne
<1> HIDE DEF n, m
<1> QED BY <1>2, <1>3, <1>5, <1>6, <1>9, AtConnection, OneConnection, Zenon

\* What publish sends is a message of its topic.
LEMMA PublishedMessage ==
    ASSUME NEW t \in Topics, NEW n \in Nat, NEW fields \in SUBSET {"data", "extrinsic"}
    PROVE  /\ [type |-> t, of |-> n, fields |-> apply_filter(t, fields)] \in Message
           /\ t # "response"
BY WsAssumption, Zenon DEF apply_filter, Message

LEMMA PublishAnswers ==
    ASSUME AnswerInv, WindowInv, NEW t \in Topics, PublishNext(t)
    PROVE  AnswerInv'
<1>1. UNCHANGED <<requests, taken, call, included>>
  BY DEF PublishNext, rpcVars
<1>2. CASE UNCHANGED outbox
  BY <1>1, <1>2, AnswersFrame
<1>3. CASE Publish(t, pos[t] + 1)
  <2>1. pos[t] + 1 \in Nat
    BY SMTT(30) DEF WindowInv
  <2>2. ASSUME NEW c \in Conn
        PROVE  /\ outbox'[c] \in Seq(Message) /\ Answered(requests[c], taken[c], outbox'[c])
               /\ AtSubmission(requests[c], taken[c], call[c]) /\ Pending(call[c], included[c])
    <3>1. CASE conn[c] # None /\ outbox'[c] = Append(outbox[c], [type |-> t, of |-> pos[t] + 1,
                                fields |-> apply_filter(t, clients[conn[c]].subscription.fields)])
      <4>1. clients[conn[c]].subscription \in Subscription
        BY <3>1 DEF WindowInv
      <4>2. clients[conn[c]].subscription.fields \in SUBSET {"data", "extrinsic"}
        BY <4>1, WsAssumption
      <4> DEFINE m == [type |-> t, of |-> pos[t] + 1, fields |-> apply_filter(t, clients[conn[c]].subscription.fields)]
      <4>3. m \in Message /\ m.type # "response"
        BY <2>1, <4>2, PublishedMessage, Zenon
      <4> HIDE DEF m
      <4>4. outbox'[c] = Append(outbox[c], m)
        BY <3>1, Zenon DEF m
      <4> QED BY <4>3, <4>4, AtConnection, PublishOne
    <3>2. CASE outbox'[c] = outbox[c]
      BY <3>2, AtConnection
    <3> QED BY <1>3, <3>1, <3>2, Zenon DEF Publish
  <2>3. outbox' \in [Conn -> Seq(Message)]
    BY <1>3, <2>2 DEF Publish
  <2> QED BY <1>1, <2>2, <2>3, AnswerIsParts, AnswerIsPartsNext, Zenon DEF AllAnswered
<1> QED BY <1>2, <1>3 DEF PublishNext
=============================================================================
