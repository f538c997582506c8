----------------------------- MODULE P2PProofs -----------------------------
(***************************************************************************)
(* The P2P event loop, proved for any peers, relays, keys, stores and      *)
(* bounds.  DialInv is inductive by itself.  UploadInv needs QueueInv: the *)
(* records of one command belong to one block, whose counter grows by      *)
(* their number, and every query has an id of its own.  ReplyInv needs all *)
(* three: a command names the task that waits for it, an id is not used    *)
(* again, and no dial replaces one that is awaited.                        *)
(***************************************************************************)
EXTENDS P2PEventLoop, FiniteSetTheorems, FunctionTheorems, TLAPS

\* Each command of the maintenance but the last is followed by another.
LEMMA MaintenanceGoesOn ==
    \A m \in {"prune", "shrink", "size", "count"} :
        NextMaint[m] \in {"shrink", "size", "count", "list"}
BY SMTT(30) DEF NextMaint

\* What leaves the dials, the relay and the loop as they are.
DialsKept == UNCHANGED <<relay, dialing, pending_swarm_events, loop>>

LEMMA DialsKeptStep ==
    ASSUME DialInv, DialsKept
    PROVE  DialInv'
BY DEF DialInv, DialsKept, RelayInProgress, DialsPending, Running

LEMMA LoopEndsStep ==
    ASSUME DialInv, NEW how \in {"stopped", "panicked"}, LoopEnds(how), UNCHANGED relay
    PROVE  DialInv'
<1>1. ~Running' /\ DOMAIN pending_swarm_events' = {}
  BY DEF LoopEnds, Running
<1> QED BY <1>1 DEF DialInv, RelayInProgress, DialsPending

\* Answering a dial takes its entry away.
LEMMA NotifyDialStep ==
    ASSUME NEW p, NEW r, NotifyDial(p, r)
    PROVE  DOMAIN pending_swarm_events' = DOMAIN pending_swarm_events \ {p}
BY DEF NotifyDial, Restrict

LEMMA RunDialPeerStep ==
    ASSUME DialInv, RunDialPeer
    PROVE  DialInv'
BY DEF DialInv, RunDialPeer, RelayInProgress, DialsPending, Running

LEMMA EstablishedStep ==
    ASSUME DialInv, NEW p, Established(p)
    PROVE  DialInv'
<1>1. DOMAIN pending_swarm_events' = DOMAIN pending_swarm_events \ {p}
  BY NotifyDialStep, Zenon DEF Established
<1>2. dialing \ {p} \subseteq dialing'
  BY DEF Established
<1>3. DialsPending'
  BY <1>1, <1>2 DEF DialInv, DialsPending
<1>4. relay \in [id : Peer \cup {None}, is_circuit_established : BOOLEAN] /\ establish_relay_circuit(p)
  BY DEF DialInv, Established
<1>5. CASE p = relay.id /\ ~relay.is_circuit_established
  <2>1. relay' = [relay EXCEPT !.is_circuit_established = TRUE] \/ relay' = NoRelay
    BY <1>4, <1>5 DEF establish_relay_circuit
  <2>2. relay' \in [id : Peer \cup {None}, is_circuit_established : BOOLEAN]
        /\ (relay'.is_circuit_established = TRUE \/ relay'.id = None)
    <3>1. CASE relay' = [relay EXCEPT !.is_circuit_established = TRUE]
      BY <1>4, <3>1, Zenon
    <3>2. CASE relay' = NoRelay
      BY <3>2 DEF NoRelay
    <3> QED BY <2>1, <3>1, <3>2, Zenon
  <2> QED BY <1>3, <2>2 DEF DialInv, RelayInProgress
<1>6. CASE ~(p = relay.id /\ ~relay.is_circuit_established)
  <2>1. relay' = relay
    BY <1>4, <1>6 DEF establish_relay_circuit
  <2>2. RelayInProgress'
    BY <1>2, <1>6, <2>1 DEF DialInv, RelayInProgress, Established, Running
  <2> QED BY <1>3, <1>4, <2>1, <2>2 DEF DialInv
<1> QED BY <1>5, <1>6

LEMMA DialFailsStep ==
    ASSUME DialInv, NEW p, NEW wrong, DialFails(p, wrong)
    PROVE  DialInv'
<1>1. DOMAIN pending_swarm_events' = DOMAIN pending_swarm_events \ {p} /\ dialing' = dialing \ {p}
  BY NotifyDialStep DEF DialFails
<1>2. relay' = IF relay.id = p THEN NoRelay ELSE relay
  BY DEF DialFails
<1> QED BY <1>1, <1>2 DEF DialInv, DialFails, NoRelay, RelayInProgress, DialsPending, Running

LEMMA NatIsPrivateStep ==
    ASSUME DialInv, NatIsPrivate
    PROVE  DialInv'
<1>1. dialing \subseteq dialing' /\ DialsPending'
  BY DEF NatIsPrivate, DialInv, DialsPending
<1>2. \/ relay' = relay
      \/ relay' = NoRelay
      \/ \E r \in Relays : relay' = [relay EXCEPT !.id = r] /\ r \in dialing'
  BY DEF NatIsPrivate
<1>3. relay' \in [id : Peer \cup {None}, is_circuit_established : BOOLEAN]
  <2>1. relay \in [id : Peer \cup {None}, is_circuit_established : BOOLEAN]
    BY DEF DialInv
  <2>2. NoRelay \in [id : Peer \cup {None}, is_circuit_established : BOOLEAN]
    BY DEF NoRelay
  <2>3. ASSUME NEW r \in Relays
        PROVE  [relay EXCEPT !.id = r] \in [id : Peer \cup {None}, is_circuit_established : BOOLEAN]
    BY <2>1, P2PAssumption
  <2> QED BY <1>2, <2>1, <2>2, <2>3
<1>4. RelayInProgress'
  <2>1. CASE relay' = relay
    BY <1>1, <2>1 DEF DialInv, RelayInProgress, NatIsPrivate, Running
  <2>2. CASE relay' = NoRelay
    BY <2>2 DEF RelayInProgress, NoRelay
  <2>3. CASE \E r \in Relays : relay' = [relay EXCEPT !.id = r] /\ r \in dialing'
    BY <2>3 DEF RelayInProgress, DialInv
  <2> QED BY <1>2, <2>1, <2>2, <2>3
<1> QED BY <1>1, <1>3, <1>4 DEF DialInv

LEMMA DialStep ==
    ASSUME DialInv, [Next]_vars
    PROVE  DialInv'
<1>1. CASE DialsKept
  BY <1>1, DialsKeptStep
<1>2. CASE RunDialPeer
  BY <1>2, RunDialPeerStep
<1>3. CASE RunPutRecord
  BY <1>3, LoopEndsStep, DialsKeptStep DEF RunPutRecord, DialsKept
<1>4. CASE Stop
  BY <1>4, LoopEndsStep DEF Stop
<1>5. CASE \E p \in Peer \cup dialing : Established(p) \/ \E wrong \in BOOLEAN : DialFails(p, wrong)
  BY <1>5, EstablishedStep, DialFailsStep
<1>6. CASE NatIsPrivate
  BY <1>6, NatIsPrivateStep
<1>7. CASE \E p \in Peer : KademliaDials(p)
  BY <1>7 DEF KademliaDials, DialInv, RelayInProgress, DialsPending, Running
<1>8. [Next]_vars => \/ DialsKept \/ RunDialPeer \/ RunPutRecord \/ Stop \/ NatIsPrivate
                     \/ \E p \in Peer \cup dialing : Established(p) \/ \E wrong \in BOOLEAN : DialFails(p, wrong)
                     \/ \E p \in Peer : KademliaDials(p)
  BY ZenonT(30)
     DEF Next, vars, swarmVars, DialsKept, BootStep, MaintStarts, MaintStep, get_kad_record, insert_into_dht,
         ApiCalls, RunCommand, RunSimple, RunPrune, RunAddAddress, RunBootstrap, RunGetRecord, QueryEnds,
         GetEnds, PutEnds, BootstrapEnds, GetFound, BootstrapTimesOut, PeriodicBootstrap, InboundPut, Tick,
         DialEnds, Identified, Mdns, Closed
<1> QED BY <1>1, <1>2, <1>3, <1>4, <1>5, <1>6, <1>7, <1>8

LEMMA DialInvariant == Spec => []DialInv
<1>1. Init => DialInv
  BY DEF Init, DialInv, NoRelay, RelayInProgress, DialsPending
<1> QED BY <1>1, DialStep, PTL DEF Spec

\* select_and_dial_relay and the swarm's events, for any peers and relays: a
\* relay that is selected and has no circuit is being dialled.
THEOREM RelayIsDialled == Spec => []RelayInProgress
<1>1. DialInv => RelayInProgress
  BY DEF DialInv
<1> QED BY <1>1, DialInvariant, PTL

\* An entry of pending_swarm_events belongs to a dial under way: its answer
\* comes, and no second dial of the peer replaces it.
THEOREM DialsAreAnswered == Spec => []DialsPending
<1>1. DialInv => DialsPending
  BY DEF DialInv
<1> QED BY <1>1, DialInvariant, PTL
-----------------------------------------------------------------------------
\* Sending a command that is not an upload keeps the queue well formed.
LEMMA ExecuteSyncQueue ==
    ASSUME queue \in Seq(Command), NEW t \in Task, NEW type \in CallType,
           NEW arg \in Peer \cup Key \cup {None}, execute_sync(t, type, arg)
    PROVE  queue' \in Seq(Command)
<1>1. [type |-> type, arg |-> arg, from |-> t] \in Command
  BY DEF Command
<1>2. Append(queue, [type |-> type, arg |-> arg, from |-> t]) \in Seq(Command)
  BY <1>1
<1> QED BY <1>2, Zenon DEF execute_sync

\* So does taking one off the queue, or dropping the queue.
LEMMA QueueShrinks ==
    ASSUME QueueInv, UNCHANGED <<boot, maint>>, queue' = queue \/ queue' = <<>> \/ (queue # <<>> /\ queue' = Tail(queue))
    PROVE  QueueInv'
<1>1. queue \in Seq(Command)
  BY DEF QueueInv
<1>2. queue # <<>> => Tail(queue) \in Seq(Command)
  BY <1>1
<1>3. <<>> \in Seq(Command)
  OBVIOUS
<1> QED BY <1>1, <1>2, <1>3, Zenon DEF QueueInv

BootAt == {"listen", "dial", "autonat", "bootstrap", "done", "failed"}

LEMMA BootStepQueue ==
    ASSUME QueueInv, BootStep
    PROVE  QueueInv'
<1>1. queue \in Seq(Command) /\ boot \in [at : BootAt, i : Nat \ {0}]
      /\ (boot.at \in {"dial", "autonat"} => boot.i <= Len(Bootstraps)) /\ Bootstraps \in Seq(Peer)
  BY P2PAssumption DEF QueueInv, BootAt
<1>2. boot.at \in {"dial", "autonat"} => Bootstraps[boot.i] \in Peer
  BY <1>1
<1>3. "boot" \in Task /\ {"listen", "bootstrap", "dial", "autonat"} \subseteq CallType
  BY DEF Task, CallType
<1>4. queue' \in Seq(Command)
  <2> USE <1>3
  <2>1. CASE UNCHANGED queue
    BY <1>1, <2>1
  <2>2. CASE \/ execute_sync("boot", "listen", None)
             \/ execute_sync("boot", "bootstrap", None)
             \/ boot.at = "dial" /\ execute_sync("boot", "dial", Bootstraps[boot.i])
    BY <1>1, <1>2, <1>3, <2>2, ExecuteSyncQueue
  <2>3. CASE boot.at = "dial" /\ queue' = queue \o
                                   <<[type |-> "add", arg |-> Bootstraps[boot.i], from |-> None],
                                     [type |-> "autonat", arg |-> Bootstraps[boot.i], from |-> "boot"]>>
    <3>1. /\ [type |-> "add", arg |-> Bootstraps[boot.i], from |-> None] \in Command
          /\ [type |-> "autonat", arg |-> Bootstraps[boot.i], from |-> "boot"] \in Command
      BY <1>2, <1>3, <2>3 DEF Command
    <3> QED BY <1>1, <2>3, <3>1
  <2> QED BY <2>1, <2>2, <2>3 DEF BootStep
<1>5. \/ boot' = boot
      \/ \E at \in {"failed", "done"} : boot' = [boot EXCEPT !.at = at]
      \/ boot.at = "dial" /\ boot' = [boot EXCEPT !.at = "autonat"]
      \/ \E i \in {1, boot.i + 1} : boot' = [at |-> IF i <= Len(Bootstraps) THEN "dial" ELSE "bootstrap", i |-> i]
  BY DEF BootStep
<1>6. boot' \in [at : BootAt, i : Nat \ {0}]
      /\ (boot'.at \in {"dial", "autonat"} => boot'.i <= Len(Bootstraps))
  BY <1>1, <1>5 DEF BootAt
<1> QED BY <1>4, <1>6 DEF QueueInv, BootAt, BootStep

LEMMA QueueStep ==
    ASSUME QueueInv, [Next]_vars
    PROVE  QueueInv'
<1>1. queue \in Seq(Command)
  BY DEF QueueInv
<1>2. CASE BootStep
  BY <1>2, BootStepQueue
<1> USE DEF CallType, Task
<1>3. CASE MaintStarts
  BY <1>1, <1>3, ExecuteSyncQueue DEF MaintStarts, Task, QueueInv
<1>4. CASE MaintStep
  <2>1. PICK type \in {"shrink", "size", "count", "list"} :
          queue' = queue \/ execute_sync("maintenance", type, None)
    BY <1>4 DEF MaintStep, NextMaint, QueueInv
  <2>2. maint' \in {"idle", "stopped", "prune", "shrink", "size", "count", "list"}
    BY <1>4 DEF MaintStep, NextMaint, QueueInv
  <2> QED BY <1>1, <1>4, <2>1, <2>2, ExecuteSyncQueue DEF MaintStep, Task, QueueInv
<1>5. CASE get_kad_record
  BY <1>1, <1>5, ExecuteSyncQueue DEF get_kad_record, Task, QueueInv
<1>6. CASE insert_into_dht
  <2>1. PICK b \in Block : \E keys \in SUBSET {k \in Key : k[1] = b} :
          keys # {} /\ queue' = Append(queue, [type |-> "put", arg |-> keys, from |-> None])
    BY <1>6 DEF insert_into_dht
  <2>2. PICK keys \in SUBSET {k \in Key : k[1] = b} :
          keys # {} /\ queue' = Append(queue, [type |-> "put", arg |-> keys, from |-> None])
    BY <2>1
  <2>3. [type |-> "put", arg |-> keys, from |-> None] \in Command
    BY <2>2 DEF Command
  <2> QED BY <1>1, <1>6, <2>2, <2>3 DEF insert_into_dht, QueueInv
<1>7. CASE ApiCalls
  <2>1. \/ \E p \in Peer : execute_sync("api", "dial", p)
        \/ execute_sync("api", "info", None)
    BY <1>7 DEF ApiCalls
  <2> QED BY <1>1, <1>7, <2>1, ExecuteSyncQueue DEF ApiCalls, Task, QueueInv
<1>8. CASE RunCommand
  BY <1>8, QueueShrinks
     DEF RunCommand, RunSimple, RunPrune, RunAddAddress, RunBootstrap, RunGetRecord,
     RunPutRecord, RunDialPeer, Takes, LoopEnds
<1>9. CASE Stop
  BY <1>9, QueueShrinks DEF Stop, LoopEnds
<1>10. CASE UNCHANGED <<queue, boot, maint>>
  BY <1>10, QueueShrinks
<1>11. [Next]_vars => \/ BootStep \/ MaintStarts \/ MaintStep \/ get_kad_record \/ insert_into_dht \/ ApiCalls
                      \/ RunCommand \/ Stop \/ UNCHANGED <<queue, boot, maint>>
  BY Zenon DEF Next, vars, clientVars, QueryEnds, GetEnds, PutEnds, BootstrapEnds, GetFound, BootstrapTimesOut,
         PeriodicBootstrap, InboundPut, Tick, DialEnds, Established, DialFails, Identified, Mdns,
         KademliaDials, Closed, NatIsPrivate
<1> QED BY <1>2, <1>3, <1>4, <1>5, <1>6, <1>7, <1>8, <1>9, <1>10, <1>11
-----------------------------------------------------------------------------
\* The uploads of block b among the queries in qs.
Puts(qs, b) == {q \in qs : q.kind = "put" /\ q.key[1] = b}

\* UploadsAccounted, of given counters and queries.
Accounts(blocks, qs) ==
    \A b \in DOMAIN blocks :
        /\ blocks[b].remaining = Cardinality(Puts(qs, b))
        /\ blocks[b].total = blocks[b].remaining + blocks[b].success + blocks[b].error

LEMMA UploadsAreAccounts == UploadsAccounted <=> (Running => Accounts(active_blocks, queries))
BY DEF UploadsAccounted, Accounts, Puts

\* A step that adds or ends queries which are not uploads.
LEMMA OtherQueries ==
    ASSUME UploadInv, UNCHANGED <<active_blocks, loop>>, next_id' \in Nat, next_id' >= next_id,
           IsFiniteSet(queries'), Running \/ queries' = queries,
           \A q \in queries' : q \in queries \/ (q.kind # "put" /\ QueryOK(q, next_id', active_blocks')),
           \A q \in queries : q.kind = "put" => q \in queries'
    PROVE  UploadInv'
<1>1. \A q \in queries' : QueryOK(q, next_id', active_blocks')
  BY DEF UploadInv, QueryOK
<1>2. \A b : Puts(queries', b) = Puts(queries, b)
  BY DEF Puts
<1>3. UploadsAccounted'
  <2>1. Accounts(active_blocks, queries) => Accounts(active_blocks', queries')
    BY <1>2 DEF Accounts
  <2>2. UploadsAccounted' <=> (Running' => Accounts(active_blocks', queries'))
    BY DEF UploadsAccounted, Accounts, Puts
  <2> QED BY <2>1, <2>2, UploadsAreAccounts DEF UploadInv, Running
<1> QED BY <1>1, <1>3 DEF UploadInv, Running

\* A query with the next id.
LEMMA NewQuery ==
    ASSUME UploadInv, next_id' = next_id + 1, UNCHANGED active_blocks, NEW kind, kind # "put",
           NEW from, NEW key
    PROVE  LET q == Query(kind, from, key) IN q.kind # "put" /\ QueryOK(q, next_id', active_blocks') /\ IsFiniteSet(queries \cup {q})
<1> DEFINE q == Query(kind, from, key)
<1>1. DOMAIN q = {"id", "kind", "from", "key", "found"}
      /\ q.id = <<next_id, key>> /\ q.kind = kind
  BY DEF Query
<1>2. next_id \in Nat /\ next_id < next_id' /\ IsFiniteSet(queries)
  BY DEF UploadInv
<1>3. IsFiniteSet(queries \cup {q})
  BY <1>2, FS_AddElement
<1>4. q.id[1] = next_id
  BY <1>1
<1> HIDE DEF q
<1>5. QueryOK(q, next_id', active_blocks')
  BY <1>1, <1>2, <1>4 DEF QueryOK
<1> QED BY <1>1, <1>3, <1>5 DEF q

\* A query that goes on after it has answered.
LEMMA QueryGoesOn ==
    ASSUME UploadInv, NEW q \in queries, q.kind # "put", Running, UNCHANGED <<active_blocks, loop, next_id>>,
           queries' = (queries \ {q}) \cup {[q EXCEPT !.found = TRUE]}
    PROVE  UploadInv'
<1> DEFINE r == [q EXCEPT !.found = TRUE]
<1>1. QueryOK(q, next_id, active_blocks) /\ IsFiniteSet(queries) /\ next_id \in Nat
  BY DEF UploadInv
<1>2. r.kind = q.kind /\ r.id = q.id /\ r.key = q.key /\ DOMAIN r = DOMAIN q
  BY <1>1 DEF QueryOK
<1>3. r.kind # "put" /\ QueryOK(r, next_id', active_blocks')
  <2> HIDE DEF r
  <2> QED BY <1>1, <1>2 DEF QueryOK
<1>4. IsFiniteSet(queries')
  BY <1>1, FS_RemoveElement, FS_AddElement, Zenon
<1> HIDE DEF r
<1>5. queries' = (queries \ {q}) \cup {r}
  BY DEF r
<1> QED BY <1>1, <1>3, <1>4, <1>5, OtherQueries

\* A query that is not an upload ends.
LEMMA QueryIsOver ==
    ASSUME UploadInv, NEW q \in queries, q.kind # "put", Running, UNCHANGED <<active_blocks, loop, next_id>>,
           queries' = queries \ {q}
    PROVE  UploadInv'
<1>1. IsFiniteSet(queries') /\ next_id \in Nat
  BY FS_RemoveElement DEF UploadInv
<1> QED BY <1>1, OtherQueries

\* The loop ends and drops its queries.
LEMMA QueriesDropped ==
    ASSUME UploadInv, queries' = {}, ~Running', next_id' = next_id,
           active_blocks' \in [DOMAIN active_blocks' -> Counters]
    PROVE  UploadInv'
BY FS_EmptySet DEF UploadInv, UploadsAccounted

\* handle_put_result: one upload of a block ends, and is counted once.
LEMMA PutEndsStep ==
    ASSUME UploadInv, NEW q \in queries, NEW ok \in BOOLEAN, PutEnds(q, ok)
    PROVE  UploadInv'
<1> DEFINE b == q.key[1]
           old == active_blocks[b]
           s == IF ok THEN 1 ELSE 0
           e == IF ok THEN 0 ELSE 1
           new == [total |-> old.total, remaining |-> old.remaining - 1,
                   success |-> old.success + s, error |-> old.error + e]
<1>1. /\ Running /\ q.kind = "put" /\ queries' = queries \ {q} /\ loop' = loop /\ next_id' = next_id
      /\ active_blocks' = [active_blocks EXCEPT ![b] = new]
  BY DEF PutEnds
<1>2. /\ next_id \in Nat /\ IsFiniteSet(queries) /\ \A r \in queries : QueryOK(r, next_id, active_blocks)
      /\ active_blocks \in [DOMAIN active_blocks -> Counters] /\ Accounts(active_blocks, queries)
  BY <1>1, UploadsAreAccounts DEF UploadInv
<1>3. b \in DOMAIN active_blocks
  BY <1>1, <1>2 DEF QueryOK
<1>4. IsFiniteSet(Puts(queries, b)) /\ Cardinality(Puts(queries, b)) \in Nat \ {0}
  <2>1. Puts(queries, b) \in SUBSET queries /\ q \in Puts(queries, b)
    BY <1>1 DEF Puts
  <2>2. IsFiniteSet(Puts(queries, b))
    BY <1>2, <2>1, FS_Subset
  <2> QED BY <2>1, <2>2, FS_EmptySet, FS_CardinalityType
<1>5. Cardinality(Puts(queries', b)) = Cardinality(Puts(queries, b)) - 1
  <2>1. Puts(queries', b) = Puts(queries, b) \ {q} /\ q \in Puts(queries, b)
    BY <1>1 DEF Puts
  <2> DEFINE u == Puts(queries, b)
  <2>2. IsFiniteSet(u) /\ q \in u
    BY <1>4, <2>1
  <2> HIDE DEF u
  <2>3. Cardinality(u \ {q}) = Cardinality(u) - 1
    BY <2>2, FS_RemoveElement
  <2> QED BY <2>1, <2>3, Zenon DEF u
<1>6. old \in Counters /\ old.remaining = Cardinality(Puts(queries, b))
      /\ old.total = old.remaining + old.success + old.error
  BY <1>2, <1>3 DEF Accounts
<1>7. new \in Counters /\ new.remaining = Cardinality(Puts(queries', b))
      /\ new.total = new.remaining + new.success + new.error
  <2>1. s \in Nat /\ e \in Nat /\ s + e = 1
    OBVIOUS
  <2> HIDE DEF s, e, old
  <2> QED BY <1>4, <1>5, <1>6, <2>1 DEF Counters
<1> HIDE DEF new
<1>8. DOMAIN active_blocks' = DOMAIN active_blocks /\ active_blocks'[b] = new
      /\ active_blocks' \in [DOMAIN active_blocks' -> Counters]
  BY <1>1, <1>2, <1>3, <1>7
<1>9. Accounts(active_blocks', queries')
  <2> SUFFICES ASSUME NEW x \in DOMAIN active_blocks'
               PROVE  /\ active_blocks'[x].remaining = Cardinality(Puts(queries', x))
                      /\ active_blocks'[x].total = active_blocks'[x].remaining + active_blocks'[x].success
                                                    + active_blocks'[x].error
    BY DEF Accounts
  <2>1. CASE x = b
    BY <1>7, <1>8, <2>1
  <2>2. CASE x # b
    <3>1. Puts(queries', x) = Puts(queries, x)
      BY <1>1, <2>2 DEF Puts
    <3>2. active_blocks'[x] = active_blocks[x] /\ x \in DOMAIN active_blocks
      BY <1>1, <1>8, <2>2
    <3> QED BY <1>2, <3>1, <3>2 DEF Accounts
  <2> QED BY <2>1, <2>2
<1>10. IsFiniteSet(queries') /\ \A r \in queries' : QueryOK(r, next_id', active_blocks')
  BY <1>1, <1>2, <1>8, FS_RemoveElement DEF QueryOK
<1>11. UploadsAccounted' <=> (Running' => Accounts(active_blocks', queries'))
  BY DEF UploadsAccounted, Accounts, Puts
<1> QED BY <1>1, <1>2, <1>8, <1>9, <1>10, <1>11, ZenonT(30) DEF UploadInv, Running

\* As many queries are started as there are records.
LEMMA FreshPuts ==
    ASSUME NEW keys, IsFiniteSet(keys)
    PROVE  LET new == {Query("put", None, k) : k \in keys}
           IN  IsFiniteSet(new) /\ Cardinality(new) = Cardinality(keys)
<1> DEFINE new == {Query("put", None, k) : k \in keys}
           f == [k \in keys |-> Query("put", None, k)]
<1>1. f \in [keys -> new] /\ \A q \in new : \E k \in keys : f[k] = q
  OBVIOUS
<1>2. \A j, k \in keys : f[j] = f[k] => j = k
  <2>1. \A k \in keys : f[k].key = k
    BY DEF Query
  <2> QED BY <2>1
<1> HIDE DEF f, new
<1>3. f \in Bijection(keys, new)
  BY <1>1, <1>2 DEF Bijection, Injection, Surjection, IsInjective
<1>4. ExistsBijection(keys, new)
  BY <1>3 DEF ExistsBijection
<1>5. IsFiniteSet(new) /\ Cardinality(new) = Cardinality(keys)
  BY <1>4, FS_Bijection
<1> QED BY <1>5 DEF new

\* The counters of block b grow by n.
LEMMA IncreasedCounters ==
    ASSUME active_blocks \in [DOMAIN active_blocks -> Counters], NEW b, NEW n \in Nat
    PROVE  LET new == Increased(b, n) IN
           /\ new \in [DOMAIN active_blocks \cup {b} -> Counters]
           /\ \A x \in DOMAIN active_blocks \ {b} : new[x] = active_blocks[x]
           /\ b \in DOMAIN active_blocks =>
                 /\ new[b].remaining = active_blocks[b].remaining + n
                 /\ new[b].total = active_blocks[b].total + n
                 /\ new[b].success = active_blocks[b].success
                 /\ new[b].error = active_blocks[b].error
           /\ b \notin DOMAIN active_blocks =>
                 new[b].remaining = n /\ new[b].total = n /\ new[b].success = 0 /\ new[b].error = 0
<1>1. CASE b \in DOMAIN active_blocks
  <2>1. active_blocks[b] \in Counters /\ DOMAIN active_blocks \cup {b} = DOMAIN active_blocks
    BY <1>1
  <2> DEFINE r == [total |-> active_blocks[b].total + n, remaining |-> active_blocks[b].remaining + n,
                   success |-> active_blocks[b].success, error |-> active_blocks[b].error]
  <2>2. r \in Counters
    BY <2>1 DEF Counters
  <2>3. Increased(b, n) = [active_blocks EXCEPT ![b] = r]
    BY <1>1 DEF Increased
  <2>4. [active_blocks EXCEPT ![b] = r][b] = r
    BY <1>1
  <2>5. [active_blocks EXCEPT ![b] = r] \in [DOMAIN active_blocks -> Counters]
    BY <2>2, ZenonT(30)
  <2>6. /\ r.remaining = active_blocks[b].remaining + n /\ r.total = active_blocks[b].total + n
        /\ r.success = active_blocks[b].success /\ r.error = active_blocks[b].error
    OBVIOUS
  <2> HIDE DEF r
  <2> QED BY <1>1, <2>1, <2>3, <2>4, <2>5, <2>6
<1>2. CASE b \notin DOMAIN active_blocks
  <2> DEFINE r == [total |-> n, remaining |-> n, success |-> 0, error |-> 0]
  <2>1. r \in Counters /\ r.remaining = n /\ r.total = n /\ r.success = 0 /\ r.error = 0
    BY DEF Counters
  <2>2. Increased(b, n) = [x \in DOMAIN active_blocks \cup {b} |-> IF x = b THEN r ELSE active_blocks[x]]
    BY <1>2 DEF Increased
  <2> HIDE DEF r
  <2> QED BY <1>2, <2>1, <2>2
<1> QED BY <1>1, <1>2

\* PutKadRecord: the counter and the queries grow together, or the loop
\* panics.
LEMMA RunPutRecordStep ==
    ASSUME UploadInv, QueueInv, RunPutRecord
    PROVE  UploadInv'
<1> DEFINE keys == Cmd.arg
           b == (CHOOSE k \in keys : TRUE)[1]
           n == Cardinality(keys)
           new == {Query("put", None, k) : k \in keys}
           grown == Increased(b, n)
<1>1. Running /\ active_blocks' = grown
  BY DEF RunPutRecord
<1>2. keys \in SUBSET Key /\ keys # {} /\ \A k \in keys : k[1] = b
  <2>1. Cmd \in Command /\ Cmd.type = "put"
    BY DEF RunPutRecord, QueueInv, Cmd
  <2>2. keys \in SUBSET Key /\ keys # {} /\ \A j, k \in keys : j[1] = k[1]
    BY <2>1 DEF Command, CallType
  <2>3. (CHOOSE k \in keys : TRUE) \in keys
    <3> HIDE DEF keys
    <3> QED BY <2>2
  <2> HIDE DEF keys
  <2> QED BY <2>2, <2>3
<1>3. /\ next_id \in Nat /\ IsFiniteSet(queries) /\ \A r \in queries : QueryOK(r, next_id, active_blocks)
      /\ active_blocks \in [DOMAIN active_blocks -> Counters] /\ Accounts(active_blocks, queries)
  BY <1>1, UploadsAreAccounts DEF UploadInv
<1>4. IsFiniteSet(keys) /\ n \in Nat
  BY <1>2, P2PAssumption, FS_Subset, FS_CardinalityType
<1>5. IsFiniteSet(new) /\ Cardinality(new) = n
  BY <1>4, FreshPuts
<1>6. /\ grown \in [DOMAIN active_blocks \cup {b} -> Counters]
      /\ \A x \in DOMAIN active_blocks \ {b} : grown[x] = active_blocks[x]
      /\ b \in DOMAIN active_blocks =>
            /\ grown[b].remaining = active_blocks[b].remaining + n
            /\ grown[b].total = active_blocks[b].total + n
            /\ grown[b].success = active_blocks[b].success
            /\ grown[b].error = active_blocks[b].error
      /\ b \notin DOMAIN active_blocks =>
            grown[b].remaining = n /\ grown[b].total = n /\ grown[b].success = 0 /\ grown[b].error = 0
  <2> HIDE DEF b, n
  <2> QED BY <1>3, <1>4, IncreasedCounters, ZenonT(30)
<1>7. /\ \A q \in new : /\ q.kind = "put" /\ q.key \in keys /\ q.id[1] = next_id
                          /\ DOMAIN q = {"id", "kind", "from", "key", "found"}
  BY DEF Query
<1> HIDE DEF keys, b, n, new, grown
<1>8. CASE Fits(Cmd.arg)
  <2>1. queries' = queries \cup new /\ next_id' = next_id + 1 /\ loop' = loop
    BY <1>8 DEF RunPutRecord, new, keys
  <2>2. IsFiniteSet(queries')
    BY <1>3, <1>5, <2>1, FS_Union, Zenon
  <2>3. \A r \in queries' : QueryOK(r, next_id', active_blocks')
    <3>1. \A r \in new : QueryOK(r, next_id', active_blocks')
      BY <1>1, <1>2, <1>3, <1>6, <1>7, <2>1 DEF QueryOK
    <3>2. \A r \in queries : QueryOK(r, next_id', active_blocks')
      BY <1>1, <1>3, <1>6, <2>1 DEF QueryOK
    <3> QED BY <2>1, <3>1, <3>2
  <2>4. queries \cap new = {}
    BY <1>3, <1>7 DEF QueryOK
  <2>5. IsFiniteSet(Puts(queries, b)) /\ Cardinality(Puts(queries, b)) \in Nat
    BY <1>3, FS_Subset, FS_CardinalityType DEF Puts
  <2>6. Cardinality(Puts(queries', b)) = Cardinality(Puts(queries, b)) + n
    <3>1. Puts(queries', b) = Puts(queries, b) \cup new /\ Puts(queries, b) \cap new = {}
      BY <1>2, <1>7, <2>1, <2>4 DEF Puts
    <3> DEFINE u == Puts(queries, b)
    <3>2. IsFiniteSet(u) /\ Cardinality(u) \in Nat /\ u \cap new = {}
      BY <2>5, <3>1
    <3> HIDE DEF u
    <3>3. Cardinality(u \cup new) = Cardinality(u) + n
      BY <1>4, <1>5, <3>2, FS_Union, FS_EmptySet
    <3> QED BY <3>1, <3>3, Zenon DEF u
  <2>7. Accounts(active_blocks', queries')
    <3> SUFFICES ASSUME NEW x \in DOMAIN grown
                 PROVE  /\ grown[x].remaining = Cardinality(Puts(queries', x))
                        /\ grown[x].total = grown[x].remaining + grown[x].success + grown[x].error
      BY <1>1 DEF Accounts
    <3>1. CASE x # b
      <4>1. Puts(queries', x) = Puts(queries, x)
        BY <1>2, <1>7, <2>1, <3>1 DEF Puts
      <4>2. x \in DOMAIN active_blocks /\ grown[x] = active_blocks[x]
        BY <1>6, <3>1
      <4> QED BY <1>3, <4>1, <4>2 DEF Accounts
    <3>2. CASE x = b /\ b \in DOMAIN active_blocks
      <4>1. active_blocks[b].remaining = Cardinality(Puts(queries, b)) /\ active_blocks[b] \in Counters
            /\ active_blocks[b].total = active_blocks[b].remaining + active_blocks[b].success
                                          + active_blocks[b].error
        BY <1>3, <3>2 DEF Accounts
      <4>2. grown[b].remaining = Cardinality(Puts(queries', b))
        BY <1>6, <2>6, <3>2, <4>1
      <4>3. grown[b].total = grown[b].remaining + grown[b].success + grown[b].error
        BY <1>4, <1>6, <3>2, <4>1 DEF Counters
      <4> QED BY <3>2, <4>2, <4>3
    <3>3. CASE x = b /\ b \notin DOMAIN active_blocks
      <4>1. Puts(queries, b) = {}
        BY <1>3, <3>3 DEF Puts, QueryOK
      <4>2. Cardinality(Puts(queries', b)) = n
        BY <1>4, <2>6, <4>1, FS_EmptySet
      <4> QED BY <1>4, <1>6, <3>3, <4>2
    <3> QED BY <3>1, <3>2, <3>3
  <2>8. UploadsAccounted' <=> (Running' => Accounts(active_blocks', queries'))
    BY DEF UploadsAccounted, Accounts, Puts
  <2> QED BY <1>1, <1>3, <1>6, <2>1, <2>2, <2>3, <2>7, <2>8 DEF UploadInv, Running
<1>9. CASE ~Fits(Cmd.arg)
  <2>1. queries' = {} /\ ~Running' /\ next_id' = next_id
    BY <1>9 DEF RunPutRecord, LoopEnds, Running
  <2> QED BY <1>1, <1>6, <2>1, QueriesDropped
<1> QED BY <1>8, <1>9

LEMMA UploadStep ==
    ASSUME UploadInv, QueueInv, [Next]_vars
    PROVE  UploadInv'
<1>1. next_id \in Nat /\ IsFiniteSet(queries)
      /\ active_blocks \in [DOMAIN active_blocks -> Counters]
  BY DEF UploadInv
<1>2. CASE UNCHANGED <<queryVars, loop>>
  <2>1. UNCHANGED <<queries, next_id, active_blocks, loop>>
    BY <1>2 DEF queryVars
  <2> QED BY <1>1, <2>1, OtherQueries
<1>3. CASE RunPutRecord
  BY <1>3, RunPutRecordStep
<1>4. CASE RunBootstrap \/ RunGetRecord \/ PeriodicBootstrap
  <2>1. UNCHANGED <<active_blocks, loop>> /\ Running
    BY <1>4 DEF RunBootstrap, RunGetRecord, PeriodicBootstrap, Takes, queryVars
  <2>2. CASE UNCHANGED <<queries, next_id>>
    BY <1>1, <2>1, <2>2, OtherQueries
  <2>3. CASE \E kind \in {"bootstrap", "get"}, from \in {Cmd.from, None}, key \in {Cmd.arg, None} :
                queries' = queries \cup {Query(kind, from, key)} /\ next_id' = next_id + 1
    <3>1. PICK kind \in {"bootstrap", "get"}, from \in {Cmd.from, None}, key \in {Cmd.arg, None} :
                queries' = queries \cup {Query(kind, from, key)} /\ next_id' = next_id + 1
      BY <2>3
    <3> DEFINE q == Query(kind, from, key)
    <3>2. q.kind # "put" /\ QueryOK(q, next_id', active_blocks') /\ IsFiniteSet(queries \cup {q})
      BY <2>1, <3>1, NewQuery
    <3>3. queries' = queries \cup {q} /\ next_id' \in Nat /\ next_id' >= next_id
      BY <1>1, <3>1
    <3> HIDE DEF q
    <3> QED BY <2>1, <3>2, <3>3, OtherQueries
  <2> QED BY <1>4, <2>2, <2>3 DEF RunBootstrap, RunGetRecord, PeriodicBootstrap, queryVars
<1>5. CASE QueryEnds
  BY <1>5, PutEndsStep, QueryIsOver DEF QueryEnds, GetEnds, BootstrapEnds
<1>6. CASE \E q \in queries : GetFound(q) \/ BootstrapTimesOut(q)
  BY <1>6, QueryGoesOn DEF GetFound, BootstrapTimesOut
<1>7. CASE Stop
  BY <1>1, <1>7, QueriesDropped DEF Stop, LoopEnds, Running
<1>8. [Next]_vars => \/ UNCHANGED <<queryVars, loop>> \/ RunPutRecord \/ Stop
                     \/ RunBootstrap \/ RunGetRecord \/ PeriodicBootstrap \/ QueryEnds
                     \/ \E q \in queries : GetFound(q) \/ BootstrapTimesOut(q)
  BY Zenon DEF Next, vars, RunCommand, BootStep, MaintStarts, MaintStep, get_kad_record, insert_into_dht,
         ApiCalls, RunSimple, RunPrune, RunAddAddress, RunDialPeer, InboundPut, Tick, DialEnds, Established,
         DialFails, Identified, Mdns, KademliaDials, Closed, NatIsPrivate
<1> QED BY <1>2, <1>3, <1>4, <1>5, <1>6, <1>7, <1>8

LEMMA UploadInvariant == Spec => [](UploadInv /\ QueueInv)
<1>1. Init => UploadInv /\ QueueInv
  <2> SUFFICES ASSUME Init PROVE UploadInv /\ QueueInv
    OBVIOUS
  <2>1. queries = {} /\ next_id = 0 /\ active_blocks = [b \in {} |-> 0] /\ queue = <<>> /\ loop = "running"
        /\ maint = "idle"
    BY DEF Init
  <2>2. UploadInv
    BY <2>1, FS_EmptySet DEF UploadInv, UploadsAccounted, Running
  <2>3. PICK s \in Scenarios : boot = [at |-> s.boot, i |-> 1]
    BY DEF Init
  <2>4. s.boot \in {"listen", "failed"}
    BY P2PAssumption
  <2>5. QueueInv
    BY <2>1, <2>3, <2>4 DEF QueueInv
  <2> QED BY <2>2, <2>5
<1>2. UploadInv /\ QueueInv /\ [Next]_vars => UploadInv' /\ QueueInv'
  BY UploadStep, QueueStep
<1> QED BY <1>1, <1>2, PTL DEF Spec

\* handle_put_result and PutKadRecord, for any keys and interleaving: a
\* block's counters agree with its uploads under way, so that remaining_counter
\* never underflows and reaches zero with the last of them.
THEOREM UploadsAreAccounted == Spec => []UploadsAccounted
<1>1. UploadInv => UploadsAccounted
  BY DEF UploadInv
<1> QED BY <1>1, UploadInvariant, PTL
-----------------------------------------------------------------------------
\* A task's sender, with what the task waits for.
Held(t) == HeldOnce(waits[t] # None, InQueue(t), InQueries(t), InDials(t))

\* The first command leaves the queue: of its sender nothing remains there,
\* the others stay where they are.
LEMMA FirstLeaves ==
    ASSUME NEW C, queue \in Seq(C), queue # <<>>, queue' = Tail(queue), NEW t
    PROVE  /\ Cmd.from = t => (Single(InQueue(t)) => InQueue(t)' = {}) /\ InQueue(t) # {}
           /\ Cmd.from # t => /\ InQueue(t) = {} => InQueue(t)' = {}
                              /\ Single(InQueue(t)) => Single(InQueue(t)')
<1>1. /\ Len(queue) \in Nat \ {0} /\ DOMAIN queue = 1..Len(queue)
      /\ DOMAIN queue' = 1..(Len(queue) - 1)
      /\ \A i \in DOMAIN queue' : queue'[i] = queue[i + 1]
      /\ Cmd = queue[1]
  BY DEF Cmd
<1>2. \A i \in InQueue(t)' : i + 1 \in InQueue(t) /\ i + 1 # 1
  BY <1>1 DEF InQueue
<1>3. \A i \in InQueue(t) : i = 1 \/ i - 1 \in InQueue(t)'
  BY <1>1 DEF InQueue
<1>4. \A i \in InQueue(t)' : i \in Nat
  BY <1>1 DEF InQueue
<1>5. \A i \in InQueue(t) : i \in Nat
  BY <1>1 DEF InQueue
<1>6. 1 \in InQueue(t) <=> Cmd.from = t
  BY <1>1 DEF InQueue
<1> DEFINE A == InQueue(t)
           B == InQueue(t)'
<1> HIDE DEF A, B
<1>7. /\ \A i \in B : i + 1 \in A /\ i + 1 # 1 /\ i \in Nat
      /\ \A i \in A : (i = 1 \/ i - 1 \in B) /\ i \in Nat
      /\ 1 \in A <=> Cmd.from = t
  BY <1>2, <1>3, <1>4, <1>5, <1>6, Zenon DEF A, B
<1>8. (1 \in A => (Single(A) => B = {})) /\ (1 \notin A => (A = {} => B = {}))
  BY <1>7 DEF Single
<1>9. ASSUME 1 \notin A, NEW x \in A, A = {x}
      PROVE  Single(B)
  <2>1. x - 1 \in B
    BY <1>7, <1>9
  <2>2. \A y \in B : y = x - 1
    BY <1>7, <1>9
  <2>3. B = {x - 1}
    BY <2>1, <2>2
  <2> QED BY <2>1, <2>3 DEF Single
<1>10. Single(A) => \E x \in A : A = {x}
  BY DEF Single
<1> QED BY <1>7, <1>8, <1>9, <1>10, Zenon DEF A, B

\* A command is sent: its sender is at the end of the queue.
LEMMA LastJoins ==
    ASSUME NEW C, queue \in Seq(C), NEW c \in C, queue' = Append(queue, c), NEW t
    PROVE  /\ c.from # t => InQueue(t)' = InQueue(t)
           /\ c.from = t /\ InQueue(t) = {} => Single(InQueue(t)')
<1>1. /\ Len(queue) \in Nat /\ DOMAIN queue = 1..Len(queue)
      /\ DOMAIN queue' = 1..(Len(queue) + 1)
      /\ \A i \in DOMAIN queue : queue'[i] = queue[i]
      /\ queue'[Len(queue) + 1] = c
  OBVIOUS
<1>2. c.from # t => InQueue(t)' = InQueue(t)
  BY <1>1 DEF InQueue
<1>3. c.from = t /\ InQueue(t) = {} => InQueue(t)' = {Len(queue) + 1}
  BY <1>1 DEF InQueue
<1>4. Single({Len(queue) + 1})
  BY DEF Single
<1> QED BY <1>2, <1>3, <1>4, Zenon

\* The ids of queries and of what is pending.
QueryIds ==
    /\ \A q \in queries :
          /\ q.kind = "put" => q.from = None
          /\ q.found => q.id \notin pending_kad_queries
          /\ \A r \in queries : r.id = q.id => r = q
    /\ \A id \in pending_kad_queries : id[1] \in Nat /\ id[1] < next_id

LEMMA ReplyParts ==
    ReplyInv <=> /\ DOMAIN waits = Task
                 /\ maint = "idle" => waits["maintenance"] = None
                 /\ QueryIds
                 /\ Running => \A t \in Task : Held(t)
BY Zenon DEF ReplyInv, QueryIds, Held

\* A query with a new id: it alone is added to what its task has pending.
LEMMA QueryJoins ==
    ASSUME UploadInv, QueryIds, NEW kind \in {"bootstrap", "get"}, NEW from, NEW key,
           queries' = queries \cup {Query(kind, from, key)}, next_id' = next_id + 1,
           pending_kad_queries' = pending_kad_queries \cup {<<next_id, key>>}
    PROVE  /\ QueryIds'
           /\ \A t : from # t => InQueries(t)' = InQueries(t)
           /\ \A t : from = t /\ InQueries(t) = {} => Single(InQueries(t)')
<1> DEFINE new == Query(kind, from, key)
           id == <<next_id, key>>
<1>1. /\ new.kind # "put" /\ new.found = FALSE /\ new.id = id /\ new.from = from
      /\ id[1] = next_id
  BY DEF Query
<1>2. next_id \in Nat /\ \A q \in queries : q.id[1] < next_id /\ q.id[1] \in Nat
  BY DEF UploadInv, QueryOK
<1>3. queries' = queries \cup {new} /\ pending_kad_queries' = pending_kad_queries \cup {id}
  OBVIOUS
<1> HIDE DEF new, id
<1>4. \A q \in queries : q.id # id
  BY <1>1, <1>2
<1>5. \A x \in pending_kad_queries : x[1] \in Nat /\ x[1] < next_id
  BY DEF QueryIds
<1>6. QueryIds'
  <2>1. \A q \in queries' :
           /\ q.kind = "put" => q.from = None
           /\ q.found => q.id \notin pending_kad_queries'
           /\ \A r \in queries' : r.id = q.id => r = q
    <3>1. ASSUME NEW q \in queries
          PROVE  /\ q.kind = "put" => q.from = None
                 /\ q.found => q.id \notin pending_kad_queries'
                 /\ \A r \in queries' : r.id = q.id => r = q
      BY <1>1, <1>3, <1>4 DEF QueryIds
    <3>2. \A r \in queries' : r.id = new.id => r = new
      BY <1>1, <1>3, <1>4
    <3> QED BY <1>1, <1>3, <3>1, <3>2
  <2>2. \A x \in pending_kad_queries' : x[1] \in Nat /\ x[1] < next_id'
    BY <1>1, <1>2, <1>3, <1>5
  <2> QED BY <2>1, <2>2, Zenon DEF QueryIds
<1>7. ASSUME NEW t PROVE InQueries(t)' = InQueries(t) \cup (IF from = t THEN {new} ELSE {})
  BY <1>1, <1>3, <1>4 DEF InQueries
<1>8. ASSUME NEW t, from = t, InQueries(t) = {} PROVE Single(InQueries(t)')
  <2>1. InQueries(t)' = {new}
    BY <1>7, <1>8
  <2> QED BY <2>1 DEF Single
<1>9. ASSUME NEW t, from # t PROVE InQueries(t)' = InQueries(t)
  BY <1>7, <1>9
<1> QED BY <1>6, <1>8, <1>9

\* A query ends, or goes on with its channel used: it alone leaves what its
\* task has pending.
LEMMA QueryLeaves ==
    ASSUME UploadInv, QueryIds, NEW q \in queries,
           \/ queries' = queries \ {q}
           \/ q.kind # "put" /\ queries' = (queries \ {q}) \cup {[q EXCEPT !.found = TRUE]},
           pending_kad_queries' = pending_kad_queries \ {q.id}, next_id' = next_id
    PROVE  /\ QueryIds'
           /\ \A t : InQueries(t)' = InQueries(t) \ {q}
<1> DEFINE r == [q EXCEPT !.found = TRUE]
<1>1. r.kind = q.kind /\ r.from = q.from /\ r.id = q.id
  BY DEF UploadInv, QueryOK
<1>2. \A x \in queries' : x \in queries \ {q} \/ (x = r /\ q.kind # "put")
  OBVIOUS
<1>3. \A x \in queries \ {q} : x \in queries' /\ x.id # q.id
  BY DEF QueryIds
<1> HIDE DEF r
<1>4. ASSUME NEW x \in queries'
      PROVE  /\ x.kind = "put" => x.from = None
             /\ x.found => x.id \notin pending_kad_queries'
             /\ \A y \in queries' : y.id = x.id => y = x
  <2>1. CASE x \in queries \ {q}
    BY <1>1, <1>2, <1>3, <2>1 DEF QueryIds
  <2>2. CASE x = r /\ q.kind # "put"
    BY <1>1, <1>2, <1>3, <2>2
  <2> QED BY <1>2, <2>1, <2>2
<1>5. \A id \in pending_kad_queries' : id[1] \in Nat /\ id[1] < next_id'
  BY DEF QueryIds
<1>6. QueryIds'
  BY <1>4, <1>5, Zenon DEF QueryIds
<1>7. ASSUME NEW t PROVE InQueries(t)' = InQueries(t) \ {q}
  BY <1>1, <1>2, <1>3 DEF InQueries
<1> QED BY <1>6, <1>7

\* Uploads are awaited by nobody.
LEMMA PutsJoin ==
    ASSUME UploadInv, QueryIds, NEW keys, next_id' = next_id + 1,
           queries' = queries \cup {Query("put", None, k) : k \in keys},
           pending_kad_queries' = pending_kad_queries \cup {<<next_id, k>> : k \in keys}
    PROVE  /\ QueryIds'
           /\ \A t \in Task : InQueries(t)' = InQueries(t)
<1> DEFINE new == {Query("put", None, k) : k \in keys}
           ids == {<<next_id, k>> : k \in keys}
<1>1. /\ \A q \in new : q.kind = "put" /\ q.found = FALSE /\ q.from = None /\ q.id \in ids
      /\ \A q, r \in new : q.id = r.id => q = r
  <2>1. ASSUME NEW k \in keys
        PROVE  LET q == Query("put", None, k)
               IN  q.kind = "put" /\ q.found = FALSE /\ q.from = None /\ q.id = <<next_id, k>>
    BY DEF Query
  <2>2. \A q \in new : \E k \in keys : q = Query("put", None, k)
    OBVIOUS
  <2>3. \A q \in new : q.kind = "put" /\ q.found = FALSE /\ q.from = None /\ q.id \in ids
    BY <2>1, <2>2, Zenon
  <2>4. ASSUME NEW q \in new, NEW r \in new, q.id = r.id
        PROVE  q = r
    <3>1. PICK j \in keys, k \in keys : q = Query("put", None, j) /\ r = Query("put", None, k)
      BY <2>2
    <3>2. <<next_id, j>> = <<next_id, k>>
      BY <2>1, <2>4, <3>1, Zenon
    <3>3. j = k
      BY <3>2
    <3> QED BY <3>1, <3>3, Zenon
  <2> QED BY <2>3, <2>4
<1>2. \A id \in ids : id[1] = next_id
  OBVIOUS
<1>3. queries' = queries \cup new /\ pending_kad_queries' = pending_kad_queries \cup ids
  OBVIOUS
<1> HIDE DEF new, ids
<1>4. next_id \in Nat /\ \A q \in queries : q.id[1] < next_id /\ q.id[1] \in Nat
  BY DEF UploadInv, QueryOK
<1>5. \A q \in queries : q.id \notin ids
  BY <1>2, <1>4
<1>6. ASSUME NEW q \in queries'
      PROVE  /\ q.kind = "put" => q.from = None
             /\ q.found => q.id \notin pending_kad_queries'
             /\ \A r \in queries' : r.id = q.id => r = q
  <2>1. CASE q \in queries
    BY <1>1, <1>3, <1>5, <2>1 DEF QueryIds
  <2>2. CASE q \in new
    BY <1>1, <1>3, <1>5, <2>2
  <2> QED BY <1>3, <2>1, <2>2
<1>7. \A id \in pending_kad_queries' : id[1] \in Nat /\ id[1] < next_id'
  BY <1>2, <1>3, <1>4 DEF QueryIds
<1>8. QueryIds'
  BY <1>6, <1>7, Zenon DEF QueryIds
<1>9. \A t \in Task : InQueries(t)' = InQueries(t)
  BY <1>1, <1>3, <1>5, P2PAssumption DEF InQueries
<1> QED BY <1>8, <1>9

\* What a step has to show when it does not change maintenance.
LEMMA ReplyFrame ==
    ASSUME ReplyInv, UNCHANGED <<loop, maint>>, QueryIds', DOMAIN waits' = Task,
           waits'["maintenance"] \in {None, waits["maintenance"]},
           Running => \A t \in Task : Held(t)'
    PROVE  ReplyInv'
<1>1. maint' = "idle" => waits'["maintenance"] = None
  BY DEF ReplyInv
<1>2. Running' => \A t \in Task : Held(t)'
  BY DEF Running
<1> QED BY <1>1, <1>2, Zenon DEF ReplyInv, QueryIds, Held

LEMMA RepliesKept ==
    ASSUME ReplyInv, UNCHANGED <<queue, waits, queries, pending_kad_queries, pending_swarm_events, loop, maint, next_id>>
    PROVE  ReplyInv'
<1>1. QueryIds'
  BY Zenon DEF ReplyInv, QueryIds
<1>2. Running => \A t \in Task : Held(t)'
  BY Zenon DEF ReplyInv, Held, InQueue, InQueries, InDials
<1> QED BY <1>1, <1>2, ReplyFrame, Zenon DEF ReplyInv

LEMMA LoopEndsReply ==
    ASSUME ReplyInv, NEW how \in {"stopped", "panicked"}, LoopEnds(how)
    PROVE  ReplyInv'
<1>1. "maintenance" \in Task
  BY DEF Task
<1> QED BY <1>1 DEF LoopEnds, ReplyInv, Running

\* An answer to t0, or to nobody.
LEMMA AnswerWaits ==
    ASSUME DOMAIN waits = Task, NEW t0, NEW r, Answer(t0, r)
    PROVE  /\ DOMAIN waits' = Task
           /\ \A t \in Task : waits'[t] = IF t = t0 THEN None ELSE waits[t]
<1>1. waits' = [waits EXCEPT ![t0] = None]
  BY DEF Answer
<1> QED BY <1>1

\* A call: the task did not wait, so the loop had no sender of it.
LEMMA CallReply ==
    ASSUME ReplyInv, QueueInv, UNCHANGED <<queries, pending_kad_queries, pending_swarm_events, next_id, loop>>,
           NEW t0 \in Task, Ready(t0), NEW type \in CallType, NEW arg \in Peer \cup Key \cup {None},
           execute_sync(t0, type, arg), maint' # "idle" \/ (maint' = maint /\ t0 # "maintenance")
    PROVE  ReplyInv'
<1> DEFINE c == [type |-> type, arg |-> arg, from |-> t0]
<1>1. QueryIds'
  BY DEF ReplyInv, QueryIds
<1>2. CASE ~Running
  BY <1>1, <1>2, Zenon DEF execute_sync, ReplyInv, QueryIds, Running
<1>3. CASE Running
  <2>1. queue' = Append(queue, c) /\ waits' = [waits EXCEPT ![t0] = type]
    BY <1>3 DEF execute_sync
  <2>2. c \in Command /\ queue \in Seq(Command) /\ c.from = t0
    BY DEF Command, QueueInv
  <2> HIDE DEF c
  <2>3. /\ DOMAIN waits = Task /\ DOMAIN waits' = Task /\ waits'[t0] = type /\ waits[t0] = None
        /\ \A t \in Task \ {t0} : waits'[t] = waits[t]
    BY <2>1 DEF ReplyInv, Ready
  <2>4. \A t : InQueries(t)' = InQueries(t) /\ InDials(t)' = InDials(t)
    BY Zenon DEF InQueries, InDials
  <2>5. \A t \in Task : Held(t)
    BY <1>3, Zenon DEF ReplyInv, Held
  <2>6. ASSUME NEW t \in Task PROVE Held(t)'
    <3>1. CASE t = t0
      <4>1. InQueue(t) = {} /\ InQueries(t) = {} /\ InDials(t) = {}
        BY <2>3, <2>5, <3>1, Zenon DEF Held, HeldOnce
      <4>2. Single(InQueue(t)')
        BY <2>1, <2>2, <3>1, <4>1, LastJoins
      <4>3. waits'[t] # None
        BY <2>3, <3>1, P2PAssumption
      <4> QED BY <2>4, <4>1, <4>2, <4>3, Zenon DEF Held, HeldOnce
    <3>2. CASE t # t0
      <4>1. InQueue(t)' = InQueue(t)
        BY <2>1, <2>2, <3>2, LastJoins
      <4>2. waits'[t] = waits[t]
        BY <2>3, <3>2
      <4> QED BY <2>4, <2>5, <4>1, <4>2, Zenon DEF Held
    <3> QED BY <3>1, <3>2
  <2>7. maint' = "idle" => waits'["maintenance"] = None
    BY <2>3 DEF ReplyInv, Task
  <2> QED BY <1>1, <2>3, <2>6, <2>7, Zenon DEF ReplyInv, QueryIds, Held
<1> QED BY <1>2, <1>3

\* The address of a bootstrap node, sent without a channel, and a call after it.
LEMMA AutonatReply ==
    ASSUME ReplyInv, QueueInv, UNCHANGED <<queries, pending_kad_queries, pending_swarm_events, next_id, loop, maint>>,
           Running, Ready("boot"), NEW p \in Peer,
           queue' = queue \o <<[type |-> "add", arg |-> p, from |-> None],
                               [type |-> "autonat", arg |-> p, from |-> "boot"]>>,
           waits' = [waits EXCEPT !["boot"] = "autonat"]
    PROVE  ReplyInv'
<1> DEFINE a == [type |-> "add", arg |-> p, from |-> None]
           c == [type |-> "autonat", arg |-> p, from |-> "boot"]
<1>1. a.from = None /\ c.from = "boot" /\ queue' = queue \o <<a, c>>
  OBVIOUS
<1>2. queue \in Seq(Command) /\ a \in Command /\ c \in Command
  BY DEF QueueInv, Command, CallType, Task
<1> HIDE DEF a, c
<1>3. /\ Len(queue) \in Nat /\ DOMAIN queue = 1..Len(queue) /\ DOMAIN queue' = 1..(Len(queue) + 2)
      /\ \A i \in 1..Len(queue) : queue'[i] = queue[i]
      /\ queue'[Len(queue) + 1] = a /\ queue'[Len(queue) + 2] = c
  BY <1>1, <1>2
<1>4. \A t \in Task : InQueue(t)' = InQueue(t) \cup (IF t = "boot" THEN {Len(queue) + 2} ELSE {})
  BY <1>1, <1>3, P2PAssumption, SMTT(30) DEF InQueue
<1>5. /\ DOMAIN waits = Task /\ DOMAIN waits' = Task /\ waits'["boot"] = "autonat" /\ waits["boot"] = None
      /\ \A t \in Task \ {"boot"} : waits'[t] = waits[t]
  BY DEF ReplyInv, Ready, Task
<1>6. \A t : InQueries(t)' = InQueries(t) /\ InDials(t)' = InDials(t)
  BY Zenon DEF InQueries, InDials
<1>7. \A t \in Task : Held(t)
  BY Zenon DEF ReplyInv, Held
<1>8. ASSUME NEW t \in Task PROVE Held(t)'
  <2>1. CASE t = "boot"
    <3>1. InQueue(t) = {} /\ InQueries(t) = {} /\ InDials(t) = {}
      BY <1>5, <1>7, <2>1, Zenon DEF Held, HeldOnce
    <3>2. InQueue(t)' = {Len(queue) + 2}
      BY <1>4, <2>1, <3>1
    <3>3. Single(InQueue(t)')
      BY <3>2 DEF Single
    <3>4. waits'[t] # None
      BY <1>5, <2>1, P2PAssumption DEF CallType
    <3> QED BY <1>6, <3>1, <3>3, <3>4, Zenon DEF Held, HeldOnce
  <2>2. CASE t # "boot"
    <3>1. InQueue(t)' = InQueue(t) /\ waits'[t] = waits[t]
      BY <1>4, <1>5, <2>2, Zenon
    <3> QED BY <1>6, <1>7, <3>1, Zenon DEF Held
  <2> QED BY <2>1, <2>2
<1>9. QueryIds'
  BY Zenon DEF ReplyInv, QueryIds
<1>10. waits'["maintenance"] = waits["maintenance"]
  BY <1>5 DEF Task
<1> QED BY <1>5, <1>8, <1>9, <1>10, ReplyFrame

\* The loop takes a command: its sender is answered, or moves to a query or a
\* dial; the senders of the other tasks stay where they are.
LEMMA TakenReply ==
    ASSUME ReplyInv, QueueInv, Running, queue # <<>>, queue' = Tail(queue), UNCHANGED <<loop, maint>>,
           DOMAIN waits' = Task, QueryIds',
           \A t \in Task : t # Cmd.from => /\ waits'[t] = waits[t]
                                           /\ InQueries(t)' = InQueries(t) /\ InDials(t)' = InDials(t),
           \A t \in Task : t = Cmd.from /\ InQueries(t) = {} /\ InDials(t) = {} =>
               \/ waits'[t] = None /\ InQueries(t)' = {} /\ InDials(t)' = {}
               \/ waits'[t] = waits[t] /\ Single(InQueries(t)') /\ InDials(t)' = {}
               \/ waits'[t] = waits[t] /\ InQueries(t)' = {} /\ Single(InDials(t)')
    PROVE  ReplyInv'
<1>1. \A t \in Task : Held(t)
  BY Zenon DEF ReplyInv, Held
<1>2. queue \in Seq(Command)
  BY DEF QueueInv
<1>3. ASSUME NEW t \in Task
      PROVE  Held(t)' /\ waits'[t] \in {None, waits[t]}
  <2>1. CASE t = Cmd.from
    <3>1. InQueue(t) # {} /\ (Single(InQueue(t)) => InQueue(t)' = {})
      BY <1>2, <2>1, FirstLeaves
    <3>2. waits[t] # None /\ InQueue(t)' = {} /\ InQueries(t) = {} /\ InDials(t) = {}
      BY <1>1, <3>1, Zenon DEF Held, HeldOnce
    <3>3. \/ waits'[t] = None /\ InQueries(t)' = {} /\ InDials(t)' = {}
          \/ waits'[t] = waits[t] /\ Single(InQueries(t)') /\ InDials(t)' = {}
          \/ waits'[t] = waits[t] /\ InQueries(t)' = {} /\ Single(InDials(t)')
      BY <2>1, <3>2, Zenon
    <3> QED BY <3>2, <3>3, Zenon DEF Held, HeldOnce
  <2>2. CASE t # Cmd.from
    <3>1. /\ InQueue(t) = {} => InQueue(t)' = {}
          /\ Single(InQueue(t)) => Single(InQueue(t)')
      BY <1>2, <2>2, FirstLeaves, Zenon
    <3>2. waits'[t] = waits[t] /\ InQueries(t)' = InQueries(t) /\ InDials(t)' = InDials(t)
      BY <2>2
    <3> QED BY <1>1, <3>1, <3>2, Zenon DEF Held, HeldOnce
  <2> QED BY <2>1, <2>2
<1>4. "maintenance" \in Task
  BY DEF Task
<1> QED BY <1>3, <1>4, ReplyFrame

LEMMA CommandReply ==
    ASSUME ReplyInv, QueueInv, UploadInv, DialInv, RunCommand
    PROVE  ReplyInv'
<1>1. DOMAIN waits = Task /\ QueryIds
  BY ReplyParts
<1>2. UNCHANGED <<queries, pending_kad_queries, next_id>> =>
         QueryIds' /\ \A t : InQueries(t)' = InQueries(t)
  BY <1>1, Zenon DEF QueryIds, InQueries
<1>3. UNCHANGED pending_swarm_events => \A t : InDials(t)' = InDials(t)
  BY Zenon DEF InDials
<1>4. Running /\ queue # <<>>
  BY DEF RunCommand, RunSimple, RunPrune, RunAddAddress, RunBootstrap, RunGetRecord, RunPutRecord, RunDialPeer,
         Takes
<1>5. Cmd \in Command
  BY <1>4 DEF QueueInv, Cmd
<1>6. ASSUME NEW r, Answer(Cmd.from, r), queue' = Tail(queue), UNCHANGED <<loop, maint>>,
             UNCHANGED <<queries, pending_kad_queries, next_id, pending_swarm_events>>
      PROVE  ReplyInv'
  <2>1. DOMAIN waits' = Task /\ \A t \in Task : waits'[t] = IF t = Cmd.from THEN None ELSE waits[t]
    BY <1>1, <1>6, AnswerWaits
  <2>2. QueryIds' /\ \A t : InQueries(t)' = InQueries(t) /\ InDials(t)' = InDials(t)
    BY <1>2, <1>3, <1>6, Zenon
  <2> QED BY <1>4, <1>6, <2>1, <2>2, TakenReply, Zenon
<1>7. CASE RunSimple \/ RunPrune
  <2>1. /\ \E r : Answer(Cmd.from, r)
        /\ queue' = Tail(queue) /\ UNCHANGED <<loop, maint>>
        /\ UNCHANGED <<queries, pending_kad_queries, next_id, pending_swarm_events>>
    BY <1>7, Zenon DEF RunSimple, RunPrune, Takes, queryVars, swarmVars
  <2> QED BY <1>6, <2>1
<1>8. ASSUME Cmd.from = None, queue' = Tail(queue), UNCHANGED <<loop, maint, waits, pending_swarm_events>>,
             QueryIds', \A t \in Task : InQueries(t)' = InQueries(t)
      PROVE  ReplyInv'
  BY <1>1, <1>3, <1>4, <1>8, P2PAssumption, TakenReply
<1>9. CASE RunAddAddress
  <2>1. Cmd.from = None
    BY <1>5, <1>9 DEF RunAddAddress, Takes, Command, CallType
  <2>2. /\ queue' = Tail(queue) /\ UNCHANGED <<loop, maint, waits, pending_swarm_events>>
        /\ UNCHANGED <<queries, pending_kad_queries, next_id>>
    BY <1>9, Zenon DEF RunAddAddress, Takes, queryVars
  <2>3. QueryIds' /\ \A t \in Task : InQueries(t)' = InQueries(t)
    BY <1>2, <2>2, Zenon
  <2> QED BY <1>8, <2>1, <2>2, <2>3
<1>10. ASSUME NEW kind \in {"bootstrap", "get"}, NEW key,
              queries' = queries \cup {Query(kind, Cmd.from, key)}, next_id' = next_id + 1,
              pending_kad_queries' = pending_kad_queries \cup {<<next_id, key>>},
              queue' = Tail(queue), UNCHANGED <<loop, maint, waits, pending_swarm_events>>
       PROVE  ReplyInv'
  <2>1. /\ QueryIds'
        /\ \A t : Cmd.from # t => InQueries(t)' = InQueries(t)
        /\ \A t : Cmd.from = t /\ InQueries(t) = {} => Single(InQueries(t)')
    BY <1>1, <1>10, QueryJoins
  <2>2. \A t : InDials(t)' = InDials(t)
    BY <1>3, <1>10
  <2>3. DOMAIN waits' = Task
    BY <1>1, <1>10
  <2> QED BY <1>4, <1>10, <2>1, <2>2, <2>3, TakenReply
<1>11. CASE RunBootstrap
  <2>1. queue' = Tail(queue) /\ UNCHANGED <<loop, maint, pending_swarm_events>>
    BY <1>11, Zenon DEF RunBootstrap, Takes, swarmVars
  <2>2. CASE routing = {}
    BY <1>6, <1>11, <2>1, <2>2 DEF RunBootstrap, queryVars
  <2>3. CASE routing # {}
    BY <1>10, <1>11, <2>1, <2>3 DEF RunBootstrap
  <2> QED BY <2>2, <2>3
<1>12. CASE RunGetRecord
  BY <1>10, <1>12 DEF RunGetRecord, Takes, swarmVars
<1>13. CASE RunPutRecord
  <2>1. CASE Fits(Cmd.arg)
    <3>1. /\ queue' = Tail(queue) /\ UNCHANGED <<loop, maint, waits, pending_swarm_events>>
          /\ queries' = queries \cup {Query("put", None, k) : k \in Cmd.arg} /\ next_id' = next_id + 1
          /\ pending_kad_queries' = pending_kad_queries \cup {<<next_id, k>> : k \in Cmd.arg}
          /\ Cmd.type = "put"
      BY <1>13, <2>1, Zenon DEF RunPutRecord
    <3>2. QueryIds' /\ \A t \in Task : InQueries(t)' = InQueries(t)
      BY <1>1, <3>1, PutsJoin
    <3>3. Cmd.from = None
      BY <1>5, <3>1 DEF Command, CallType
    <3> QED BY <1>8, <3>1, <3>2, <3>3
  <2>2. CASE ~Fits(Cmd.arg)
    BY <1>13, <2>2, LoopEndsReply DEF RunPutRecord
  <2> QED BY <2>1, <2>2
<1>14. CASE RunDialPeer
  <2>1. /\ queue' = Tail(queue) /\ UNCHANGED <<loop, maint>>
        /\ UNCHANGED <<queries, pending_kad_queries, next_id>>
    BY <1>14, Zenon DEF RunDialPeer, Takes, queryVars
  <2>2. CASE Cmd.arg \in connected \cup dialing \cup blocked
    BY <1>6, <1>14, <2>1, <2>2 DEF RunDialPeer
  <2>3. CASE Cmd.arg \notin connected \cup dialing \cup blocked
    <3>1. Cmd.arg \notin DOMAIN pending_swarm_events
      BY <2>3 DEF DialInv, DialsPending
    <3>2. /\ pending_swarm_events' = [p \in DOMAIN pending_swarm_events \cup {Cmd.arg} |->
                IF p = Cmd.arg THEN Cmd.from ELSE pending_swarm_events[p]]
          /\ waits' = waits
      BY <1>14, <2>3 DEF RunDialPeer
    <3>3. \A t : InDials(t)' = InDials(t) \cup (IF Cmd.from = t THEN {Cmd.arg} ELSE {})
      BY <3>1, <3>2 DEF InDials
    <3>4. \A t : Cmd.from # t => InDials(t)' = InDials(t)
      BY <3>3, Zenon
    <3>5. ASSUME NEW t, Cmd.from = t, InDials(t) = {} PROVE Single(InDials(t)')
      <4>1. InDials(t)' = {Cmd.arg}
        BY <3>3, <3>5
      <4> QED BY <4>1 DEF Single
    <3>6. QueryIds' /\ \A t : InQueries(t)' = InQueries(t)
      BY <1>2, <2>1, Zenon
    <3>7. DOMAIN waits' = Task
      BY <1>1, <3>2
    <3> QED BY <1>4, <2>1, <3>2, <3>4, <3>5, <3>6, <3>7, TakenReply
  <2> QED BY <2>2, <2>3
<1> QED BY <1>7, <1>9, <1>11, <1>12, <1>13, <1>14 DEF RunCommand

\* A sender with a query is used with its first answer, or dropped with nobody
\* waiting for it.
LEMMA QueryReply ==
    ASSUME ReplyInv, UploadInv, NEW q \in queries, Running, UNCHANGED <<queue, pending_swarm_events, loop, maint>>,
           \/ queries' = queries \ {q}
           \/ q.kind # "put" /\ queries' = (queries \ {q}) \cup {[q EXCEPT !.found = TRUE]},
           pending_kad_queries' = pending_kad_queries \ {q.id}, next_id' = next_id,
           \/ q.id \in pending_kad_queries /\ \E r : Answer(q.from, r)
           \/ q.id \notin pending_kad_queries /\ UNCHANGED waits
           \/ q.from = None /\ UNCHANGED waits
    PROVE  ReplyInv'
<1>1. DOMAIN waits = Task /\ QueryIds /\ \A t \in Task : Held(t)
  BY ReplyParts
<1>2. QueryIds' /\ \A t : InQueries(t)' = InQueries(t) \ {q}
  BY <1>1, QueryLeaves
<1>3. /\ DOMAIN waits' = Task
      /\ \A t \in Task : waits'[t] = IF q \in InQueries(t) THEN None ELSE waits[t]
  <2>1. CASE q.id \in pending_kad_queries /\ \E r : Answer(q.from, r)
    BY <1>1, <2>1, AnswerWaits DEF InQueries
  <2>2. CASE q.id \notin pending_kad_queries /\ UNCHANGED waits
    BY <1>1, <2>2 DEF InQueries
  <2>3. CASE q.from = None /\ UNCHANGED waits
    BY <1>1, <2>3, P2PAssumption DEF InQueries
  <2> QED BY <2>1, <2>2, <2>3
<1>4. \A t : InQueue(t)' = InQueue(t) /\ InDials(t)' = InDials(t)
  BY Zenon DEF InQueue, InDials
<1>5. ASSUME NEW t \in Task PROVE Held(t)'
  <2>1. CASE q \in InQueries(t)
    <3>1. waits'[t] = None
      BY <1>3, <2>1
    <3>2. InQueue(t) = {} /\ Single(InQueries(t)) /\ InDials(t) = {}
      BY <1>1, <2>1 DEF Held, HeldOnce
    <3>3. InQueries(t)' = {}
      BY <1>2, <2>1, <3>2 DEF Single
    <3> QED BY <1>4, <3>1, <3>2, <3>3, Zenon DEF Held, HeldOnce
  <2>2. CASE q \notin InQueries(t)
    <3>1. waits'[t] = waits[t] /\ InQueries(t)' = InQueries(t)
      BY <1>2, <1>3, <2>2
    <3> QED BY <1>1, <1>4, <3>1, Zenon DEF Held
  <2> QED BY <2>1, <2>2
<1>6. waits'["maintenance"] \in {None, waits["maintenance"]}
  BY <1>3 DEF Task
<1> QED BY <1>2, <1>3, <1>5, <1>6, ReplyFrame

\* A dial's events use the sender that waits for it.
LEMMA DialReply ==
    ASSUME ReplyInv, Running, NEW p, NEW r, NotifyDial(p, r),
           UNCHANGED <<queue, queries, pending_kad_queries, next_id, loop, maint>>
    PROVE  ReplyInv'
<1>1. DOMAIN waits = Task /\ QueryIds /\ \A t \in Task : Held(t)
  BY ReplyParts
<1>2. \A t : InDials(t)' = InDials(t) \ {p}
  BY DEF NotifyDial, Restrict, InDials
<1>3. /\ DOMAIN waits' = Task
      /\ \A t \in Task : waits'[t] = IF p \in InDials(t) THEN None ELSE waits[t]
  <2>1. CASE p \in DOMAIN pending_swarm_events
    BY <1>1, <2>1, AnswerWaits DEF NotifyDial, InDials
  <2>2. CASE p \notin DOMAIN pending_swarm_events
    BY <1>1, <2>2 DEF NotifyDial, InDials
  <2> QED BY <2>1, <2>2
<1>4. QueryIds' /\ \A t : InQueue(t)' = InQueue(t) /\ InQueries(t)' = InQueries(t)
  BY <1>1, Zenon DEF InQueue, InQueries, QueryIds
<1>5. ASSUME NEW t \in Task PROVE Held(t)'
  <2>1. CASE p \in InDials(t)
    <3>1. waits'[t] = None
      BY <1>3, <2>1
    <3>2. InQueue(t) = {} /\ InQueries(t) = {} /\ Single(InDials(t))
      BY <1>1, <2>1 DEF Held, HeldOnce
    <3>3. InDials(t)' = {}
      BY <1>2, <2>1, <3>2 DEF Single
    <3> QED BY <1>4, <3>1, <3>2, <3>3, Zenon DEF Held, HeldOnce
  <2>2. CASE p \notin InDials(t)
    <3>1. waits'[t] = waits[t] /\ InDials(t)' = InDials(t)
      BY <1>2, <1>3, <2>2
    <3> QED BY <1>1, <1>4, <3>1, Zenon DEF Held
  <2> QED BY <2>1, <2>2
<1>6. waits'["maintenance"] \in {None, waits["maintenance"]}
  BY <1>3 DEF Task
<1> QED BY <1>3, <1>4, <1>5, <1>6, ReplyFrame

LEMMA ClientsReply ==
    ASSUME ReplyInv, QueueInv, BootStep \/ MaintStarts \/ MaintStep \/ get_kad_record \/ ApiCalls
    PROVE  ReplyInv'
<1>1. UNCHANGED <<queries, pending_kad_queries, pending_swarm_events, next_id, loop>>
  BY Zenon DEF BootStep, MaintStarts, MaintStep, get_kad_record, ApiCalls, queryVars, swarmVars
<1>2. Task = {"boot", "maintenance", "fetch", "api"}
      /\ {"listen", "dial", "bootstrap", "prune", "shrink", "size", "count", "list", "get", "info"} \subseteq CallType
  BY DEF Task, CallType
<1>3. ASSUME UNCHANGED <<queue, waits>>, maint' # "idle" \/ maint' = maint \/ Ready("maintenance")
      PROVE  ReplyInv'
  <2>1. maint' = "idle" => waits'["maintenance"] = None
    BY <1>3 DEF ReplyInv, Ready
  <2>2. QueryIds' /\ DOMAIN waits' = Task
    BY <1>1, <1>3, Zenon DEF ReplyInv, QueryIds
  <2>3. Running' => \A t \in Task : Held(t)'
    BY <1>1, <1>3, Zenon DEF ReplyInv, Held, Running, InQueue, InQueries, InDials
  <2> QED BY <2>1, <2>2, <2>3, Zenon DEF ReplyInv, QueryIds, Held
<1>4. CASE BootStep
  <2>1. Ready("boot") /\ maint' = maint
    BY <1>4 DEF BootStep
  <2>2. boot.at = "dial" => Bootstraps[boot.i] \in Peer
    BY P2PAssumption DEF QueueInv
  <2>3. CASE UNCHANGED <<queue, waits>>
    BY <1>3, <2>1, <2>3
  <2>4. CASE \/ execute_sync("boot", "listen", None)
             \/ execute_sync("boot", "bootstrap", None)
             \/ boot.at = "dial" /\ execute_sync("boot", "dial", Bootstraps[boot.i])
    BY <1>1, <1>2, <2>1, <2>2, <2>4, CallReply
  <2>5. CASE /\ boot.at = "dial" /\ Running
             /\ queue' = queue \o <<[type |-> "add", arg |-> Bootstraps[boot.i], from |-> None],
                                     [type |-> "autonat", arg |-> Bootstraps[boot.i], from |-> "boot"]>>
             /\ waits' = [waits EXCEPT !["boot"] = "autonat"]
    BY <1>1, <2>1, <2>2, <2>5, AutonatReply
  <2> QED BY <1>4, <2>3, <2>4, <2>5 DEF BootStep
<1>5. CASE MaintStarts
  <2>1. PICK first \in {"prune", "shrink"} : maint' = first /\ execute_sync("maintenance", first, None)
    BY <1>5 DEF MaintStarts
  <2>2. Ready("maintenance")
    BY <1>5 DEF MaintStarts, ReplyInv, Ready
  <2> QED BY <1>1, <1>2, <2>1, <2>2, CallReply
<1>6. CASE MaintStep
  <2>1. Ready("maintenance") /\ maint \in {"prune", "shrink", "size", "count", "list"}
    BY <1>6 DEF MaintStep, QueueInv
  <2>2. \/ UNCHANGED <<queue, waits>>
        \/ \E type \in {"shrink", "size", "count", "list"} :
              maint' = type /\ execute_sync("maintenance", type, None)
    <3>1. \/ UNCHANGED <<queue, waits>>
          \/ /\ maint # "list" /\ maint' = NextMaint[maint]
             /\ execute_sync("maintenance", NextMaint[maint], None)
      BY <1>6, Zenon DEF MaintStep
    <3>2. maint # "list" => NextMaint[maint] \in {"shrink", "size", "count", "list"}
      BY <2>1, MaintenanceGoesOn, Zenon
    <3> QED BY <3>1, <3>2, Zenon
  <2> QED BY <1>1, <1>2, <1>3, <2>1, <2>2, CallReply
<1>7. CASE get_kad_record
  <2>1. Ready("fetch") /\ maint' = maint /\ \E k \in Key : execute_sync("fetch", "get", k)
    BY <1>7, Zenon DEF get_kad_record
  <2> QED BY <1>1, <1>2, <2>1, CallReply
<1>8. CASE ApiCalls
  <2>1. /\ Ready("api") /\ maint' = maint
        /\ (\E p \in Peer : execute_sync("api", "dial", p)) \/ execute_sync("api", "info", None)
    BY <1>8, Zenon DEF ApiCalls
  <2> QED BY <1>1, <1>2, <2>1, CallReply
<1> QED BY <1>4, <1>5, <1>6, <1>7, <1>8

\* Uploads are sent without a channel.
LEMMA InsertReply ==
    ASSUME ReplyInv, QueueInv, QueueInv', insert_into_dht
    PROVE  ReplyInv'
<1>1. PICK keys : queue' = Append(queue, [type |-> "put", arg |-> keys, from |-> None])
  BY Zenon DEF insert_into_dht
<1> DEFINE c == [type |-> "put", arg |-> keys, from |-> None]
           C == {queue[i] : i \in DOMAIN queue} \cup {c}
<1>2. UNCHANGED <<waits, maint, loop, queries, pending_kad_queries, next_id, pending_swarm_events>>
  BY Zenon DEF insert_into_dht, queryVars, swarmVars
<1>3. queue \in Seq(C) /\ c \in C /\ c.from = None
  <2>1. queue \in Seq(Command)
    BY Zenon DEF QueueInv
  <2>2. c \in C /\ c.from = None
    OBVIOUS
  <2>3. queue \in Seq({queue[i] : i \in DOMAIN queue} \cup {c})
    <3> HIDE DEF c
    <3> QED BY <2>1
  <2> QED BY <2>2, <2>3, Zenon DEF C
<1> HIDE DEF c, C
<1>4. queue' = Append(queue, c)
  BY <1>1, Zenon DEF c
<1>5. \A t \in Task : InQueue(t)' = InQueue(t)
  BY <1>3, <1>4, P2PAssumption, LastJoins
<1>6. Running => \A t \in Task : Held(t)'
  BY <1>2, <1>5, ZenonT(30) DEF ReplyInv, Held, InQueries, InDials
<1>7. QueryIds' /\ DOMAIN waits' = Task
  BY <1>2, Zenon DEF ReplyInv, QueryIds
<1> QED BY <1>2, <1>6, <1>7, ReplyFrame

LEMMA ReplyStep ==
    ASSUME ReplyInv, QueueInv, UploadInv, DialInv, [Next]_vars
    PROVE  ReplyInv'
<1>1. CASE BootStep \/ MaintStarts \/ MaintStep \/ get_kad_record \/ ApiCalls
  BY <1>1, ClientsReply
<1>2. CASE insert_into_dht
  BY <1>2, QueueStep, InsertReply
<1>3. CASE RunCommand
  BY <1>3, CommandReply
<1>4. CASE QueryEnds
  <2>1. PICK q \in queries : GetEnds(q) \/ \E ok \in BOOLEAN : PutEnds(q, ok) \/ BootstrapEnds(q, ok)
    BY <1>4 DEF QueryEnds
  <2>2. /\ Running /\ queries' = queries \ {q} /\ next_id' = next_id
        /\ UNCHANGED <<queue, pending_swarm_events, loop, maint>>
    BY <2>1, Zenon DEF GetEnds, PutEnds, BootstrapEnds, clientVars, swarmVars
  <2>3. CASE \E r : AnswerIfPending(q, r)
    BY <2>2, <2>3, QueryReply DEF AnswerIfPending
  <2>4. CASE PutEnds(q, TRUE) \/ PutEnds(q, FALSE)
    <3>1. q.from = None /\ UNCHANGED waits /\ pending_kad_queries' = pending_kad_queries \ {q.id}
      BY <2>4, Zenon DEF PutEnds, ReplyInv, clientVars
    <3> QED BY <2>2, <3>1, QueryReply
  <2>5. CASE q.found /\ UNCHANGED <<waits, pending_kad_queries>>
    <3>1. q.id \notin pending_kad_queries
      BY <2>5 DEF ReplyInv
    <3>2. pending_kad_queries' = pending_kad_queries \ {q.id}
      BY <2>5, <3>1
    <3> QED BY <2>2, <2>5, <3>1, <3>2, QueryReply
  <2>6. \/ \E r : AnswerIfPending(q, r)
        \/ PutEnds(q, TRUE) \/ PutEnds(q, FALSE)
        \/ q.found /\ UNCHANGED <<waits, pending_kad_queries>>
    <3>1. GetEnds(q) => (\E r : AnswerIfPending(q, r)) \/ (q.found /\ UNCHANGED <<waits, pending_kad_queries>>)
      BY Zenon DEF GetEnds
    <3>2. ASSUME NEW ok \in BOOLEAN, BootstrapEnds(q, ok)
          PROVE  \E r : AnswerIfPending(q, r)
      BY <3>2, Zenon DEF BootstrapEnds
    <3>3. ASSUME NEW ok \in BOOLEAN, PutEnds(q, ok)
          PROVE  PutEnds(q, TRUE) \/ PutEnds(q, FALSE)
      <4>1. CASE ok = TRUE
        BY <3>3, <4>1, Zenon
      <4>2. CASE ok = FALSE
        BY <3>3, <4>2, Zenon
      <4> QED BY <4>1, <4>2, Zenon
    <3> QED BY <2>1, <3>1, <3>2, <3>3, Zenon
  <2> QED BY <2>3, <2>4, <2>5, <2>6, Zenon
<1>5. CASE \E q \in queries : GetFound(q) \/ BootstrapTimesOut(q)
  <2>1. PICK q \in queries : GetFound(q) \/ BootstrapTimesOut(q)
    BY <1>5
  <2>2. /\ Running /\ q.kind # "put" /\ queries' = (queries \ {q}) \cup {[q EXCEPT !.found = TRUE]}
        /\ next_id' = next_id /\ UNCHANGED <<queue, pending_swarm_events, loop, maint>>
        /\ \E r : AnswerIfPending(q, r)
    <3>1. GetFound(q) => \E r : AnswerIfPending(q, r)
      BY Zenon DEF GetFound
    <3>2. BootstrapTimesOut(q) => \E r : AnswerIfPending(q, r)
      BY Zenon DEF BootstrapTimesOut
    <3>3. q.kind # "put"
      BY <2>1 DEF GetFound, BootstrapTimesOut
    <3> QED BY <2>1, <3>1, <3>2, <3>3, Zenon DEF GetFound, BootstrapTimesOut, swarmVars
  <2> QED BY <2>2, QueryReply DEF AnswerIfPending
<1>6. CASE PeriodicBootstrap
  <2>1. /\ UNCHANGED <<queue, waits, maint, loop, pending_kad_queries, pending_swarm_events>>
        /\ Running
    BY <1>6, Zenon DEF PeriodicBootstrap, clientVars, swarmVars
  <2>2. next_id \in Nat /\ \A q \in queries : q.id[1] \in Nat /\ q.id[1] < next_id
    BY DEF UploadInv, QueryOK
  <2>3. CASE UNCHANGED <<queries, next_id>>
    BY <2>1, <2>3, RepliesKept
  <2>4. CASE queries' = queries \cup {Query("bootstrap", None, None)} /\ next_id' = next_id + 1
    <3> DEFINE new == Query("bootstrap", None, None)
    <3>1. /\ new.kind = "bootstrap" /\ new.found = FALSE /\ new.id = <<next_id, None>> /\ new.from = None
          /\ new.id[1] = next_id
      BY DEF Query
    <3>2. queries' = queries \cup {new}
      BY <2>4
    <3> HIDE DEF new
    <3>3. \A q \in queries : q.id # new.id
      BY <2>2, <3>1
    <3>4. ASSUME NEW q \in queries'
          PROVE  /\ q.kind = "put" => q.from = None
                 /\ q.found => q.id \notin pending_kad_queries'
                 /\ \A r \in queries' : r.id = q.id => r = q
      <4>1. CASE q \in queries
        BY <2>1, <3>1, <3>2, <3>3, <4>1 DEF ReplyInv
      <4>2. CASE q = new
        BY <3>1, <3>2, <3>3, <4>2
      <4> QED BY <3>2, <4>1, <4>2
    <3>5. \A id \in pending_kad_queries' : id[1] \in Nat /\ id[1] < next_id'
      <4>1. \A id \in pending_kad_queries : id[1] \in Nat /\ id[1] < next_id
        BY Zenon DEF ReplyInv
      <4> QED BY <2>1, <2>2, <2>4, <4>1
    <3>6. QueryIds'
      BY <3>4, <3>5, Zenon DEF QueryIds
    <3>7. \A t \in Task : InQueries(t)' = InQueries(t)
      BY <2>1, <3>1, <3>2, P2PAssumption DEF InQueries
    <3>8. Running => \A t \in Task : Held(t)'
      BY <2>1, <3>7, Zenon DEF ReplyInv, Held, InQueue, InDials
    <3> QED BY <2>1, <3>6, <3>8, ReplyFrame, Zenon DEF ReplyInv
  <2> QED BY <1>6, <2>3, <2>4, Zenon DEF PeriodicBootstrap
<1>7. CASE \E p : Established(p) \/ \E wrong : DialFails(p, wrong)
  <2>1. PICK p : \/ NotifyDial(p, "ok") /\ Established(p)
                 \/ NotifyDial(p, "err") /\ \E wrong : DialFails(p, wrong)
    BY <1>7, Zenon DEF Established, DialFails
  <2>2. Running /\ UNCHANGED <<queue, queries, pending_kad_queries, next_id, loop, maint>>
    BY <2>1, Zenon DEF Established, DialFails, queryVars
  <2> QED BY <2>1, <2>2, DialReply
<1>8. CASE Stop
  BY <1>8, LoopEndsReply DEF Stop
<1>9. CASE UNCHANGED <<clientVars, queryVars, pending_swarm_events, loop>>
  <2>1. UNCHANGED <<queue, waits, queries, pending_kad_queries, pending_swarm_events, loop, maint, next_id>>
    BY <1>9, Zenon DEF clientVars, queryVars
  <2> QED BY <2>1, RepliesKept
<1>10. [Next]_vars =>
          \/ BootStep \/ MaintStarts \/ MaintStep \/ get_kad_record \/ ApiCalls \/ insert_into_dht
          \/ RunCommand \/ QueryEnds \/ \E q \in queries : GetFound(q) \/ BootstrapTimesOut(q)
          \/ PeriodicBootstrap \/ \E p : Established(p) \/ \E wrong : DialFails(p, wrong)
          \/ Stop \/ UNCHANGED <<clientVars, queryVars, pending_swarm_events, loop>>
  BY ZenonT(30)
     DEF Next, vars, swarmVars, InboundPut, Tick, DialEnds, Identified, Mdns, KademliaDials, Closed, NatIsPrivate
<1> QED BY <1>1, <1>2, <1>3, <1>4, <1>5, <1>6, <1>7, <1>8, <1>9, <1>10, Zenon

\* One place of three holds one sender, or none does: the number of senders.
LEMMA HeldCounts ==
    ASSUME NEW w \in BOOLEAN, NEW A, NEW B, NEW C, HeldOnce(w, A, B, C)
    PROVE  Cardinality(A) + Cardinality(B) + Cardinality(C) = IF w THEN 1 ELSE 0
<1>1. \A S : (S = {} => Cardinality(S) = 0) /\ (Single(S) => Cardinality(S) = 1)
  BY FS_EmptySet, FS_Singleton, Zenon DEF Single
<1>2. \/ ~w /\ Cardinality(A) = 0 /\ Cardinality(B) = 0 /\ Cardinality(C) = 0
      \/ w /\ \/ Cardinality(A) = 1 /\ Cardinality(B) = 0 /\ Cardinality(C) = 0
              \/ Cardinality(A) = 0 /\ Cardinality(B) = 1 /\ Cardinality(C) = 0
              \/ Cardinality(A) = 0 /\ Cardinality(B) = 0 /\ Cardinality(C) = 1
  BY <1>1, Zenon DEF HeldOnce
<1> QED BY <1>2

\* execute_sync and every handler, for any commands, queries, dials and order:
\* a task that waits has its oneshot sender with the loop exactly once.
THEOREM RepliesAreKept == Spec => []NoLostReply
<1>1. Init => ReplyInv
  <2> SUFFICES ASSUME Init PROVE ReplyInv
    OBVIOUS
  <2>1. /\ waits = [t \in Task |-> None] /\ queries = {} /\ pending_kad_queries = {} /\ queue = <<>>
        /\ pending_swarm_events = [p \in {} |-> None]
    BY DEF Init
  <2>2. DOMAIN waits = Task /\ \A t \in Task : waits[t] = None
    BY <2>1
  <2>3. \A t \in Task : InQueue(t) = {} /\ InQueries(t) = {} /\ InDials(t) = {}
    BY <2>1 DEF InQueue, InQueries, InDials
  <2>4. \A t \in Task : HeldOnce(waits[t] # None, InQueue(t), InQueries(t), InDials(t))
    BY <2>2, <2>3, Zenon DEF HeldOnce
  <2>5. "maintenance" \in Task
    BY DEF Task
  <2> QED BY <2>1, <2>2, <2>4, <2>5, Zenon DEF ReplyInv
<1>2. ReplyInv /\ QueueInv /\ UploadInv /\ DialInv /\ [Next]_vars => ReplyInv'
  BY ReplyStep
<1>3. ReplyInv => NoLostReply
  <2> SUFFICES ASSUME ReplyInv, Running, NEW t \in Task
               PROVE  Cardinality(InQueue(t)) + Cardinality(InQueries(t)) + Cardinality(InDials(t))
                         = IF waits[t] = None THEN 0 ELSE 1
    BY DEF NoLostReply
  <2> DEFINE w == waits[t] # None
             A == InQueue(t)
             B == InQueries(t)
             C == InDials(t)
  <2>1. w \in BOOLEAN /\ HeldOnce(w, A, B, C)
    BY DEF ReplyInv
  <2> HIDE DEF w, A, B, C
  <2>2. Cardinality(A) + Cardinality(B) + Cardinality(C) = IF w THEN 1 ELSE 0
    BY <2>1, HeldCounts
  <2> QED BY <2>2 DEF w, A, B, C
<1> QED BY <1>1, <1>2, <1>3, UploadInvariant, DialInvariant, PTL DEF Spec
=============================================================================
