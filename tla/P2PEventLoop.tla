---------------------------- MODULE P2PEventLoop ----------------------------
(***************************************************************************)
(* The P2P event loop (network/p2p/event_loop.rs) and its clients.  Tasks  *)
(* send commands over an unbounded channel (network/p2p/client.rs), most   *)
(* with a oneshot channel for the answer; the loop runs the commands and   *)
(* handles the events of the libp2p swarm one at a time.  The clients are  *)
(* the bootstrap task of avail-light.rs, maintenance (maintenance.rs), a   *)
(* task that reads records, one that uploads them, and API requests.       *)
(*                                                                         *)
(* The swarm is external: connections, dials and queries that are under    *)
(* way, and the routing table of Kademlia.                                 *)
(***************************************************************************)
EXTENDS KadStore, Sequences

CONSTANT
    None,
    Peer,
    Bootstraps,     \* bootstrap nodes, a sequence
    Relays,         \* relay nodes
    Key,            \* pairs of a block and a position, the keys of records
    Scenarios       \* for each behaviour: the configuration, whether it starts
                    \* with the node or after a bootstrap that failed, and how
                    \* often each event of the environment may happen

Task == {"boot", "maintenance", "fetch", "api"}
Event == {"get", "put", "dial", "info", "block", "inbound", "close", "identify", "mdns", "nat",
          "query", "record", "tick", "timer", "stop"}

\* Commands that a task awaits the answer of.
CallType == {"listen", "dial", "autonat", "bootstrap", "prune", "shrink", "size", "count", "list", "get",
             "info"}

ASSUME P2PAssumption ==
    /\ Bootstraps \in Seq(Peer)
    /\ Relays \subseteq Peer /\ None \notin Peer \cup Task \cup CallType
    /\ IsFiniteSet(Key)
    /\ Scenarios \subseteq [fat : BOOLEAN, rocks : BOOLEAN, boot : {"listen", "failed"}, left : [Event -> Nat]]

VARIABLE
    fat,            \* is_fat_client
    left,           \* bound: how often an event may still happen
    queue,          \* commands sent
    waits,          \* of each task: the command it awaits the answer of
    reply,          \* of each task: the last answer
    boot,           \* step of bootstrap_on_startup, and the node it is at
    maint,          \* step of maintenance
    loop,           \* "running", "stopped" or "panicked"
    queries,        \* Kademlia queries under way
    next_id,
    pending_kad_queries,    \* queries whose answer is awaited
    pending_swarm_events,   \* of each peer: the task that awaits its connection
    active_blocks,  \* counters of each block with uploads
    dialing, connected, routing, blocked,   \* sets of peers
    relay,          \* id and is_circuit_established
    is_startup_done

clientVars == <<queue, waits, reply, boot, maint>>
queryVars == <<queries, next_id, pending_kad_queries, active_blocks>>
swarmVars == <<pending_swarm_events, dialing, connected, routing, blocked, relay>>
vars == <<fat, left, clientVars, loop, queryVars, swarmVars, is_startup_done, storeVars>>

Block == {k[1] : k \in Key}
NoRelay == [id |-> None, is_circuit_established |-> FALSE]

\* An event of the environment uses up one of its kind.
Happens(e) == left[e] > 0 /\ left' = [left EXCEPT ![e] = @ - 1]

Running == loop = "running"

Init ==
    /\ \E s \in Scenarios : /\ fat = s.fat /\ left = s.left /\ StoreInit(s.rocks)
                            /\ boot = [at |-> s.boot, i |-> 1]
    /\ queue = <<>>
    /\ waits = [t \in Task |-> None]
    /\ reply = [t \in Task |-> "none"]
    /\ maint = "idle"
    /\ loop = "running"
    /\ queries = {}
    /\ next_id = 0
    /\ pending_kad_queries = {}
    /\ pending_swarm_events = [p \in {} |-> None]
    /\ active_blocks = [b \in {} |-> 0]
    /\ dialing = {} /\ connected = {} /\ routing = {} /\ blocked = {}
    /\ relay = NoRelay
    /\ is_startup_done = FALSE
-----------------------------------------------------------------------------
(* The clients *)

\* execute_sync: the command and a oneshot channel, or an error when the
\* loop has ended.
execute_sync(t, type, arg) ==
    IF Running
    THEN /\ queue' = Append(queue, [type |-> type, arg |-> arg, from |-> t])
         /\ waits' = [waits EXCEPT ![t] = type]
         /\ reply' = [reply EXCEPT ![t] = "none"]
    ELSE /\ reply' = [reply EXCEPT ![t] = "err"]
         /\ UNCHANGED <<queue, waits>>

Ready(t) == waits[t] = None

\* start_listening of run, then bootstrap_on_startup: the first error ends
\* it.  add_address is sent without waiting, before add_autonat_server.
BootStep ==
    /\ Ready("boot") /\ boot.at \notin {"done", "failed"}
    /\ IF reply["boot"] = "err"
       THEN boot' = [boot EXCEPT !.at = "failed"] /\ UNCHANGED <<queue, waits, reply>>
       ELSE CASE boot.at = "listen" /\ reply["boot"] = "none" ->
                     execute_sync("boot", "listen", None) /\ UNCHANGED boot
              [] boot.at = "dial" /\ reply["boot"] = "none" ->
                     execute_sync("boot", "dial", Bootstraps[boot.i]) /\ UNCHANGED boot
              [] boot.at = "dial" /\ reply["boot"] = "ok" ->
                     /\ boot' = [boot EXCEPT !.at = "autonat"]
                     /\ IF Running
                        THEN /\ queue' = queue \o
                                   <<[type |-> "add", arg |-> Bootstraps[boot.i], from |-> None],
                                     [type |-> "autonat", arg |-> Bootstraps[boot.i], from |-> "boot"]>>
                             /\ waits' = [waits EXCEPT !["boot"] = "autonat"]
                             /\ reply' = [reply EXCEPT !["boot"] = "none"]
                        ELSE reply' = [reply EXCEPT !["boot"] = "err"] /\ UNCHANGED <<queue, waits>>
              [] boot.at \in {"listen", "autonat"} /\ reply["boot"] = "ok" ->
                     LET i == IF boot.at = "listen" THEN 1 ELSE boot.i + 1
                     IN /\ boot' = [at |-> IF i <= Len(Bootstraps) THEN "dial" ELSE "bootstrap", i |-> i]
                        /\ reply' = [reply EXCEPT !["boot"] = "none"]
                        /\ UNCHANGED <<queue, waits>>
              [] boot.at = "bootstrap" /\ reply["boot"] = "none" ->
                     execute_sync("boot", "bootstrap", None) /\ UNCHANGED boot
              [] OTHER -> boot' = [boot EXCEPT !.at = "done"] /\ UNCHANGED <<queue, waits, reply>>
    /\ UNCHANGED <<fat, left, maint, loop, queryVars, swarmVars, is_startup_done, storeVars>>

\* Maintenance of a block: prune at the interval, then shrink, size, count,
\* list.  An error of any but the first triggers a shutdown.
NextMaint == [prune |-> "shrink", shrink |-> "size", size |-> "count", count |-> "list", list |-> "idle"]

MaintStarts ==
    /\ maint = "idle" /\ Happens("block")
    /\ \E first \in IF rocks THEN {"shrink"} ELSE {"prune", "shrink"} :
          maint' = first /\ execute_sync("maintenance", first, None)
    /\ UNCHANGED <<fat, boot, loop, queryVars, swarmVars, is_startup_done, storeVars>>

MaintStep ==
    /\ maint \notin {"idle", "stopped"} /\ Ready("maintenance") /\ reply["maintenance"] # "none"
    /\ IF reply["maintenance"] = "err" /\ maint # "prune"
       THEN maint' = "stopped" /\ UNCHANGED <<queue, waits, reply>>
       ELSE /\ maint' = NextMaint[maint]
            /\ IF maint = "list" THEN UNCHANGED <<queue, waits, reply>>
               ELSE execute_sync("maintenance", NextMaint[maint], None)
    /\ UNCHANGED <<fat, left, boot, loop, queryVars, swarmVars, is_startup_done, storeVars>>

get_kad_record ==
    /\ Ready("fetch") /\ Happens("get")
    /\ \E k \in Key : execute_sync("fetch", "get", k)
    /\ UNCHANGED <<fat, boot, maint, loop, queryVars, swarmVars, is_startup_done, storeVars>>

\* insert_into_dht: the records of a block, without waiting.
insert_into_dht ==
    /\ Running /\ Happens("put")
    /\ \E b \in Block : \E keys \in SUBSET {k \in Key : k[1] = b} :
          /\ keys # {}
          /\ queue' = Append(queue, [type |-> "put", arg |-> keys, from |-> None])
    /\ UNCHANGED <<fat, waits, reply, boot, maint, loop, queryVars, swarmVars, is_startup_done, storeVars>>

\* dial_external_peer and get_peer_info.
ApiCalls ==
    /\ Ready("api")
    /\ \/ Happens("dial") /\ \E p \in Peer : execute_sync("api", "dial", p)
       \/ Happens("info") /\ execute_sync("api", "info", None)
    /\ UNCHANGED <<fat, boot, maint, loop, queryVars, swarmVars, is_startup_done, storeVars>>
-----------------------------------------------------------------------------
(* Commands *)

Answer(t, r) ==
    /\ waits' = [waits EXCEPT ![t] = None]
    /\ reply' = [reply EXCEPT ![t] = r]

Cmd == Head(queue)
Takes(types) == Running /\ queue # <<>> /\ Cmd.type \in types /\ queue' = Tail(queue)

Query(kind, from, key) == [id |-> <<next_id, key>>, kind |-> kind, from |-> from, key |-> key, found |-> FALSE]

\* StartListening, GetLocalInfo, CountConnectedPeers, ListConnectedPeers,
\* GetKademliaMapSize, ReduceKademliaMapSize, AddAutonatServer: answered at
\* once; listening may fail.
RunSimple ==
    /\ Takes({"listen", "info", "count", "list", "size", "shrink", "autonat"})
    /\ \E r \in IF Cmd.type = "listen" THEN {"ok", "err"} ELSE {"ok"} : Answer(Cmd.from, r)
    /\ UNCHANGED <<fat, left, boot, maint, loop, queryVars, swarmVars, is_startup_done, storeVars>>

RunPrune ==
    /\ Takes({"prune"})
    /\ records' = Pruned
    /\ Answer(Cmd.from, "ok")
    /\ UNCHANGED <<fat, left, boot, maint, loop, queryVars, swarmVars, is_startup_done, rocks, now>>

RunAddAddress ==
    /\ Takes({"add"})
    /\ routing' = routing \cup {Cmd.arg}
    /\ UNCHANGED <<fat, left, waits, reply, boot, maint, loop, queryVars, pending_swarm_events, dialing,
                   connected, blocked, relay, is_startup_done, storeVars>>

\* Bootstrap: an error when no peer is known, else a query.
RunBootstrap ==
    /\ Takes({"bootstrap"})
    /\ IF routing = {}
       THEN Answer(Cmd.from, "err") /\ UNCHANGED queryVars
       ELSE /\ queries' = queries \cup {Query("bootstrap", Cmd.from, None)}
            /\ pending_kad_queries' = pending_kad_queries \cup {<<next_id, None>>}
            /\ next_id' = next_id + 1
            /\ UNCHANGED <<active_blocks, waits, reply>>
    /\ UNCHANGED <<fat, left, boot, maint, loop, swarmVars, is_startup_done, storeVars>>

RunGetRecord ==
    /\ Takes({"get"})
    /\ queries' = queries \cup {Query("get", Cmd.from, Cmd.arg)}
    /\ pending_kad_queries' = pending_kad_queries \cup {<<next_id, Cmd.arg>>}
    /\ next_id' = next_id + 1
    /\ UNCHANGED <<fat, left, waits, reply, boot, maint, loop, active_blocks, swarmVars, is_startup_done,
                   storeVars>>

\* A block that is counted anew although it has an entry.
MutIncreased(b, n) ==
    [x \in DOMAIN active_blocks \cup {b} |->
        IF x = b THEN [total |-> n, remaining |-> n, success |-> 0, error |-> 0] ELSE active_blocks[x]]

\* increase_block_stat_counters, or a new entry.
Increased(b, n) ==
    IF b \in DOMAIN active_blocks
    THEN [active_blocks EXCEPT ![b] = [total |-> @.total + n, remaining |-> @.remaining + n,
                                       success |-> @.success, error |-> @.error]]
    ELSE [x \in DOMAIN active_blocks \cup {b} |->
             IF x = b THEN [total |-> n, remaining |-> n, success |-> 0, error |-> 0] ELSE active_blocks[x]]

\* The loop ends: every channel it held is dropped, which is an error for
\* the task at its other end.
LoopEnds(how) ==
    /\ loop' = how
    /\ queue' = <<>>
    /\ reply' = [t \in Task |-> IF waits[t] = None THEN reply[t] ELSE "err"]
    /\ waits' = [t \in Task |-> None]
    /\ queries' = {} /\ pending_kad_queries' = {}
    /\ pending_swarm_events' = [p \in {} |-> None]
    /\ dialing' = {} /\ connected' = {}

\* PutKadRecord: the counters first, then a query for each record; a store
\* that refuses one panics ("Unable to perform Kademlia PUT operation.").
RunPutRecord ==
    /\ Running /\ queue # <<>> /\ Cmd.type = "put"
    /\ LET b == (CHOOSE k \in Cmd.arg : TRUE)[1] IN
       active_blocks' = Increased(b, Cardinality(Cmd.arg))
    /\ IF Fits(Cmd.arg)
       THEN /\ queue' = Tail(queue)
            /\ records' = Put(Cmd.arg, now + RecordTtl)
            /\ queries' = queries \cup {Query("put", None, k) : k \in Cmd.arg}
            /\ pending_kad_queries' = pending_kad_queries \cup {<<next_id, k>> : k \in Cmd.arg}
            /\ next_id' = next_id + 1
            /\ UNCHANGED <<waits, reply, loop, pending_swarm_events, dialing, connected>>
       ELSE LoopEnds("panicked") /\ UNCHANGED <<records, next_id>>
    /\ UNCHANGED <<fat, left, boot, maint, routing, blocked, relay, is_startup_done, rocks, now>>

\* A dial that takes whatever the swarm says of the peer.
MutRunDialPeer ==
    /\ Takes({"dial"})
    /\ dialing' = dialing \cup {Cmd.arg}
    /\ pending_swarm_events' = [p \in DOMAIN pending_swarm_events \cup {Cmd.arg} |->
           IF p = Cmd.arg THEN Cmd.from ELSE pending_swarm_events[p]]
    /\ UNCHANGED <<fat, left, waits, reply, boot, maint, loop, queryVars, connected, routing, blocked,
                   relay, is_startup_done, storeVars>>

\* DialPeer: refused by the swarm when the peer is connected, being dialled
\* or blocked.
RunDialPeer ==
    /\ Takes({"dial"})
    /\ IF Cmd.arg \in connected \cup dialing \cup blocked
       THEN Answer(Cmd.from, "err") /\ UNCHANGED <<dialing, pending_swarm_events>>
       ELSE /\ dialing' = dialing \cup {Cmd.arg}
            /\ pending_swarm_events' = [p \in DOMAIN pending_swarm_events \cup {Cmd.arg} |->
                   IF p = Cmd.arg THEN Cmd.from ELSE pending_swarm_events[p]]
            /\ UNCHANGED <<waits, reply>>
    /\ UNCHANGED <<fat, left, boot, maint, loop, queryVars, connected, routing, blocked, relay,
                   is_startup_done, storeVars>>

-----------------------------------------------------------------------------
(* Events of Kademlia *)

AnswerIfPending(q, r) ==
    /\ IF q.id \in pending_kad_queries THEN Answer(q.from, r) ELSE UNCHANGED <<waits, reply>>
    /\ pending_kad_queries' = pending_kad_queries \ {q.id}

\* A record was found; the query goes on, and may find more.
GetFound(q) ==
    /\ Running /\ q.kind = "get" /\ ~q.found
    /\ queries' = (queries \ {q}) \cup {[q EXCEPT !.found = TRUE]}
    /\ AnswerIfPending(q, "ok")
    /\ UNCHANGED <<fat, left, queue, boot, maint, loop, next_id, active_blocks, swarmVars, is_startup_done,
                   storeVars>>

\* A query whose failure is not reported.
MutGetEnds(q) ==
    /\ Running /\ q.kind = "get"
    /\ queries' = queries \ {q}
    /\ UNCHANGED <<fat, left, clientVars, loop, next_id, pending_kad_queries, active_blocks, swarmVars,
                   is_startup_done, storeVars>>

\* The last event of the query: an error unless a record was found.
GetEnds(q) ==
    /\ Running /\ q.kind = "get"
    /\ queries' = queries \ {q}
    /\ IF q.found THEN UNCHANGED <<waits, reply, pending_kad_queries>> ELSE AnswerIfPending(q, "err")
    /\ UNCHANGED <<fat, left, queue, boot, maint, loop, next_id, active_blocks, swarmVars, is_startup_done,
                   storeVars>>

\* handle_put_result.
PutEnds(q, ok) ==
    /\ Running /\ q.kind = "put"
    /\ queries' = queries \ {q}
    /\ pending_kad_queries' = pending_kad_queries \ {q.id}
    /\ active_blocks' = [active_blocks EXCEPT ![q.key[1]] =
           [total |-> @.total, remaining |-> @.remaining - 1,
            success |-> @.success + (IF ok THEN 1 ELSE 0), error |-> @.error + (IF ok THEN 0 ELSE 1)]]
    /\ records' = IF fat THEN Remove(q.key) ELSE records
    /\ UNCHANGED <<fat, left, clientVars, loop, next_id, swarmVars, is_startup_done, rocks, now>>

\* A step of a bootstrap timed out: the task is told, the query goes on.
BootstrapTimesOut(q) ==
    /\ Running /\ q.kind = "bootstrap" /\ ~q.found
    /\ queries' = (queries \ {q}) \cup {[q EXCEPT !.found = TRUE]}
    /\ AnswerIfPending(q, "err")
    /\ UNCHANGED <<fat, left, queue, boot, maint, loop, next_id, active_blocks, swarmVars, is_startup_done,
                   storeVars>>

\* Its last step: num_remaining is 0, or an error.
BootstrapEnds(q, ok) ==
    /\ Running /\ q.kind = "bootstrap"
    /\ queries' = queries \ {q}
    /\ AnswerIfPending(q, IF ok THEN "ok" ELSE "err")
    /\ is_startup_done' = (is_startup_done \/ (ok /\ q.id \in pending_kad_queries))
    /\ UNCHANGED <<fat, left, queue, boot, maint, loop, next_id, active_blocks, swarmVars, storeVars>>

\* handle_periodic_bootstraps: a query nobody waits for.
PeriodicBootstrap ==
    /\ Running /\ Happens("timer")
    /\ IF is_startup_done /\ routing # {}
       THEN queries' = queries \cup {Query("bootstrap", None, None)} /\ next_id' = next_id + 1
       ELSE UNCHANGED <<queries, next_id>>
    /\ UNCHANGED <<fat, clientVars, loop, pending_kad_queries, active_blocks, swarmVars, is_startup_done,
                   storeVars>>

\* InboundRequest::PutRecord: stored with the lower of the two expiries; a
\* record that is too large or does not fit is dropped.
InboundPut ==
    /\ Running /\ Happens("record")
    /\ \E k \in Key, expires \in {now, now + RecordTtl, now + RecordTtl + 1}, small \in BOOLEAN :
          records' = IF small /\ Fits({k})
                     THEN Put({k}, IF expires < now + RecordTtl THEN expires ELSE now + RecordTtl)
                     ELSE records
    /\ UNCHANGED <<fat, clientVars, loop, queryVars, swarmVars, is_startup_done, rocks, now>>

\* Time passes; RocksDB compacts when it likes.
Tick ==
    /\ Happens("tick")
    /\ now' = now + 1
    /\ records' \in IF rocks THEN {records, Compacted} ELSE {records}
    /\ UNCHANGED <<fat, clientVars, loop, queryVars, swarmVars, is_startup_done, rocks>>
-----------------------------------------------------------------------------
(* Events of the swarm *)

NotifyDial(p, r) ==
    /\ IF p \in DOMAIN pending_swarm_events
       THEN Answer(pending_swarm_events[p], r) ELSE UNCHANGED <<waits, reply>>
    /\ pending_swarm_events' = Restrict(pending_swarm_events, DOMAIN pending_swarm_events \ {p})

\* establish_relay_circuit: listening on the relay's address may fail.
establish_relay_circuit(p) ==
    IF p = relay.id /\ ~relay.is_circuit_established
    THEN relay' \in {[relay EXCEPT !.is_circuit_established = TRUE], NoRelay}
    ELSE UNCHANGED relay

\* ConnectionEstablished, for a dial or from the other side.
Established(p) ==
    /\ Running /\ p \notin blocked
    /\ \/ p \in dialing /\ dialing' = dialing \ {p} /\ UNCHANGED left
       \/ Happens("inbound") /\ UNCHANGED dialing
    /\ connected' = connected \cup {p}
    /\ NotifyDial(p, "ok")
    /\ establish_relay_circuit(p)
    /\ UNCHANGED <<fat, queue, boot, maint, loop, queryVars, routing, blocked, is_startup_done, storeVars>>

\* A failed relay that is kept.
MutDialFails(p, wrong_peer_id) ==
    /\ Running /\ p \in dialing
    /\ dialing' = dialing \ {p}
    /\ routing' = IF wrong_peer_id THEN routing \ {p} ELSE routing
    /\ NotifyDial(p, "err")
    /\ UNCHANGED <<fat, left, queue, boot, maint, loop, queryVars, connected, blocked, relay,
                   is_startup_done, storeVars>>

\* OutgoingConnectionError: a peer of another identity leaves the routing
\* table, and a relay that fails is given up.
DialFails(p, wrong_peer_id) ==
    /\ Running /\ p \in dialing
    /\ dialing' = dialing \ {p}
    /\ routing' = IF wrong_peer_id THEN routing \ {p} ELSE routing
    /\ NotifyDial(p, "err")
    /\ relay' = IF relay.id = p THEN NoRelay ELSE relay
    /\ UNCHANGED <<fat, left, queue, boot, maint, loop, queryVars, connected, blocked, is_startup_done,
                   storeVars>>

\* ConnectionClosed: after an I/O error the peer leaves the routing table.
Closed(p, io) ==
    /\ Running /\ p \in connected /\ Happens("close")
    /\ connected' = connected \ {p}
    /\ routing' = IF io THEN routing \ {p} ELSE routing
    /\ UNCHANGED <<fat, clientVars, loop, queryVars, pending_swarm_events, dialing, blocked, relay,
                   is_startup_done, storeVars>>

\* identify::Event::Received, by what the peer says it is.
Identified(p) ==
    /\ Running /\ p \in connected /\ Happens("identify")
    /\ \/ UNCHANGED <<routing, blocked>>                               \* unreadable, or not a server
       \/ routing' = routing \ {p} /\ UNCHANGED blocked                \* unsupported version
       \/ routing' = routing \cup {p} /\ UNCHANGED blocked             \* a server
       \/ routing' = routing \ {p} /\ blocked' = blocked \cup {p}      \* another protocol
    /\ UNCHANGED <<fat, clientVars, loop, queryVars, pending_swarm_events, dialing, connected, relay,
                   is_startup_done, storeVars>>

\* mdns: a peer is discovered, or an address of it expires.
Mdns(p) ==
    /\ Running /\ Happens("mdns")
    /\ routing' \in {routing \cup {p}, routing, routing \ {p}}
    /\ UNCHANGED <<fat, clientVars, loop, queryVars, pending_swarm_events, dialing, connected, blocked, relay,
                   is_startup_done, storeVars>>

\* AutoNAT reports a private address: select_and_dial_relay, except on a fat
\* client.  Dialling is refused while the relay is being dialled.
NatIsPrivate ==
    /\ Running /\ Happens("nat")
    /\ IF fat \/ Relays = {} THEN UNCHANGED <<relay, dialing>>
       ELSE \E r \in Relays :
               IF r \in dialing \cup blocked THEN relay' = NoRelay /\ UNCHANGED dialing
               ELSE /\ relay' = [relay EXCEPT !.id = r]
                    /\ dialing' = dialing \cup {r}
    /\ UNCHANGED <<fat, clientVars, loop, queryVars, pending_swarm_events, connected, routing, blocked,
                   is_startup_done, storeVars>>

\* Kademlia dials a peer of the routing table for one of its queries.
KademliaDials(p) ==
    /\ Running /\ Happens("query")
    /\ p \in routing \ (connected \cup dialing \cup blocked)
    /\ dialing' = dialing \cup {p}
    /\ UNCHANGED <<fat, clientVars, loop, queryVars, pending_swarm_events, connected, routing, blocked, relay,
                   is_startup_done, storeVars>>

\* The shutdown signal: disconnect_peers, and the loop returns.
Stop ==
    /\ Running /\ Happens("stop")
    /\ LoopEnds("stopped")
    /\ UNCHANGED <<fat, boot, maint, next_id, active_blocks, routing, blocked, relay, is_startup_done,
                   storeVars>>
-----------------------------------------------------------------------------
RunCommand ==
    \/ RunSimple \/ RunPrune \/ RunAddAddress \/ RunBootstrap
    \/ RunGetRecord \/ RunPutRecord \/ RunDialPeer

QueryEnds ==
    \E q \in queries : \/ GetEnds(q)
                       \/ \E ok \in BOOLEAN : PutEnds(q, ok) \/ BootstrapEnds(q, ok)

DialEnds == \E p \in dialing : Established(p) \/ \E wrong \in BOOLEAN : DialFails(p, wrong)

Next ==
    \/ BootStep \/ MaintStarts \/ MaintStep
    \/ get_kad_record \/ insert_into_dht \/ ApiCalls
    \/ RunCommand
    \/ QueryEnds
    \/ \E q \in queries : GetFound(q) \/ BootstrapTimesOut(q)
    \/ PeriodicBootstrap \/ InboundPut \/ Tick
    \/ DialEnds
    \/ \E p \in Peer : \/ Established(p) \/ Identified(p) \/ Mdns(p) \/ KademliaDials(p)
                       \/ \E io \in BOOLEAN : Closed(p, io)
    \/ NatIsPrivate \/ Stop

Spec == Init /\ [][Next]_vars

\* The loop is polled; libp2p ends every query (query_timeout) and dial.
FairSpec == Spec /\ WF_vars(RunCommand) /\ WF_vars(QueryEnds) /\ WF_vars(DialEnds)
-----------------------------------------------------------------------------
\* Where the loop holds the oneshot senders of task t.
InQueue(t) == {i \in DOMAIN queue : queue[i].from = t}
InQueries(t) == {q \in queries : q.from = t /\ q.id \in pending_kad_queries}
InDials(t) == {p \in DOMAIN pending_swarm_events : pending_swarm_events[p] = t}

\* execute_sync: while a task waits, the loop holds its oneshot sender in
\* exactly one place: with the command in the queue, with a query, or with
\* a dial.  No handler drops a sender, hands out two, or answers twice.
NoLostReply ==
    Running => \A t \in Task :
        Cardinality(InQueue(t)) + Cardinality(InQueries(t)) + Cardinality(InDials(t))
        = IF waits[t] = None THEN 0 ELSE 1

\* handle_put_result: remaining_counter is the number of uploads of the
\* block that are under way, so it is never decremented below zero and is
\* zero when the last of them ended, whatever was added in between; and the
\* three counters add up.
UploadsAccounted ==
    Running =>
        \A b \in DOMAIN active_blocks :
            /\ active_blocks[b].remaining = Cardinality({q \in queries : q.kind = "put" /\ q.key[1] = b})
            /\ active_blocks[b].total = active_blocks[b].remaining + active_blocks[b].success
                                         + active_blocks[b].error

\* select_and_dial_relay and the events of its dial: a relay that is
\* selected and has no circuit is being dialled, so the client never waits
\* for a relay that nobody will connect.
RelayInProgress ==
    Running /\ relay.id # None /\ ~relay.is_circuit_established => relay.id \in dialing

\* "errors will be logged and skipped" (insert_cells_into_dht).
PutErrorsSkipped == loop # "panicked"

\* A task waits for the connection of a peer only while the swarm dials it,
\* so every entry of pending_swarm_events is answered by the dial's events
\* and RunDialPeer never replaces one.
DialsPending == DOMAIN pending_swarm_events \subseteq dialing

\* The types that UploadsAccounted, RelayInProgress and DialsPending depend on.
Command ==
    [type : CallType, arg : Peer \cup Key \cup {None}, from : Task]
    \cup [type : {"add"}, arg : Peer, from : {None}]
    \cup [type : {"put"}, from : {None},
          arg : {keys \in SUBSET Key : keys # {} /\ \A j, k \in keys : j[1] = k[1]}]

QueryOK(q, ids, blocks) ==
    /\ DOMAIN q = {"id", "kind", "from", "key", "found"}
    /\ q.id[1] \in Nat /\ q.id[1] < ids
    /\ q.kind = "put" => q.key[1] \in DOMAIN blocks

Counters == [total : Nat, remaining : Nat, success : Nat, error : Nat]

\* Commands are well formed; bootstrap_on_startup stays within its nodes.
QueueInv ==
    /\ queue \in Seq(Command)
    /\ boot \in [at : {"listen", "dial", "autonat", "bootstrap", "done", "failed"}, i : Nat \ {0}]
    /\ boot.at \in {"dial", "autonat"} => boot.i <= Len(Bootstraps)
    /\ maint \in {"idle", "stopped", "prune", "shrink", "size", "count", "list"}

\* Queries have ids that were given out, and an upload's block has counters.
UploadInv ==
    /\ next_id \in Nat /\ IsFiniteSet(queries)
    /\ \A q \in queries : QueryOK(q, next_id, active_blocks)
    /\ active_blocks \in [DOMAIN active_blocks -> Counters]
    /\ ~Running => queries = {}
    /\ UploadsAccounted

DialInv ==
    /\ relay \in [id : Peer \cup {None}, is_circuit_established : BOOLEAN]
    /\ RelayInProgress
    /\ DialsPending

Single(S) == \E x \in S : S = {x}

\* A task that waits has its sender in one of the three places, another one
\* in none.
HeldOnce(waiting, in_queue, in_queries, in_dials) ==
    \/ ~waiting /\ in_queue = {} /\ in_queries = {} /\ in_dials = {}
    \/ waiting /\ \/ Single(in_queue) /\ in_queries = {} /\ in_dials = {}
                  \/ in_queue = {} /\ Single(in_queries) /\ in_dials = {}
                  \/ in_queue = {} /\ in_queries = {} /\ Single(in_dials)

\* What NoLostReply depends on: maintenance begins a block with no call
\* pending; ids of queries are not given out twice; nobody awaits an upload;
\* and a query that goes on after it has answered is not answered for again.
ReplyInv ==
    /\ DOMAIN waits = Task
    /\ maint = "idle" => waits["maintenance"] = None
    /\ \A q \in queries :
          /\ q.kind = "put" => q.from = None
          /\ q.found => q.id \notin pending_kad_queries
          /\ \A r \in queries : r.id = q.id => r = q
    /\ \A id \in pending_kad_queries : id[1] \in Nat /\ id[1] < next_id
    /\ Running => \A t \in Task : HeldOnce(waits[t] # None, InQueue(t), InQueries(t), InDials(t))

\* Every task that waits for the loop gets an answer.
CallsAnswered == []<>(\A t \in Task : waits[t] = None)
=============================================================================
