------------------------------- MODULE Clients ------------------------------
(***************************************************************************)
(* The tasks that process blocks, as src/bin/avail-light.rs wires them:    *)
(* the light client or, with a partition, the fat client; the sync client; *)
(* the application client; and the publisher of application data.  They    *)
(* share State and the database of ClientState and talk over broadcast     *)
(* channels.  A channel is the log of what was sent and a position for     *)
(* each receiver; a receiver more than a capacity behind gets an error     *)
(* (RecvError::Lagged).                                                    *)
(*                                                                         *)
(* The source of blocks is the feed that module BlockFeed describes, from  *)
(* a node whose stream does not go back.  Once a shutdown is triggered     *)
(* every task is cancelled where it is.                                    *)
(***************************************************************************)
EXTENDS ClientState

CONSTANT
    Chains,         \* the chains considered
    Heads,          \* the finalized heads to start from
    Options,        \* the configurations considered
    RpcCapacity,    \* capacity of the rpc event channel
    BlockCapacity,  \* capacity of the channels block_tx and data_tx
    MaxEvents,      \* bound: blocks announced in a session
    MaxRestarts     \* bound: how often the process is started again

ASSUME ClientsAssumption ==
    /\ Chains \subseteq [Block -> [lookup : Lookup, dims : Dims]]
    /\ Heads \subseteq Block
    /\ Options \subseteq [app : BOOLEAN, fat : BOOLEAN, start : Block \cup {None}]
    /\ {RpcCapacity, BlockCapacity, MaxEvents, MaxRestarts} \subseteq Nat

VARIABLE
    head,       \* finalized head when the session started
    received,   \* the last header received from the node
    events,     \* blocks announced on the rpc event channel
    blocks,     \* messages on block_tx
    data,       \* blocks sent on data_tx
    pos,        \* of each receiver: how many messages it has taken
    first,      \* the first block announced, None until run has received it
    light,      \* the light client, or the fat client: pc and current block
    sync,       \* the sync client: pc and current block
    app,        \* the application client: pc and current block
    ended,      \* tasks that have returned
    shutdown,   \* a shutdown was triggered
    restarts

channelVars == <<head, received, events, blocks, data, pos>>
taskVars == <<light, sync, app, ended>>
vars == <<opt, chain, state, db, channelVars, first, taskVars, shutdown, restarts>>

Receiver == {"light", "app", "publisher"}
Task == Receiver \cup {"sync"}
Message == [num : Block, confidence : BOOLEAN]

\* The tasks are spawned when the first block was announced.
Running(t) == first # None /\ t \notin ended /\ ~shutdown

\* sync_range: from sync_start_block up to the first block announced.
SyncRange == IF opt.start = None \/ first = None THEN {} ELSE {n \in Block : opt.start <= n /\ n < first}

Tip == IF events = <<>> THEN head ELSE events[Len(events)]
-----------------------------------------------------------------------------
\* The first start, with an empty database.
Init ==
    /\ opt \in Options
    /\ chain \in Chains
    /\ db = [header |-> {}, cells |-> {}, data |-> {}]
    /\ head \in Heads
    /\ received = head
    /\ state = InitialState
    /\ events = <<>>
    /\ blocks = <<>>
    /\ data = <<>>
    /\ pos = [r \in Receiver |-> 0]
    /\ first = None
    /\ light = [pc |-> "recv", num |-> 1, confidence |-> FALSE]
    /\ sync = [pc |-> "check", num |-> 1]
    /\ app = [pc |-> "recv", num |-> 1]
    /\ ended = {}
    /\ shutdown = FALSE
    /\ restarts = 0

\* The process dies, or ends after a shutdown, and is started again later.
Restart ==
    /\ restarts < MaxRestarts
    /\ restarts' = restarts + 1
    /\ head' \in {h \in Heads : h >= Tip}
    /\ received' = head'
    /\ state' = InitialState
    /\ events' = <<>>
    /\ blocks' = <<>>
    /\ data' = <<>>
    /\ pos' = [r \in Receiver |-> 0]
    /\ first' = None
    /\ light' = [pc |-> "recv", num |-> 1, confidence |-> FALSE]
    /\ sync' = [pc |-> "check", num |-> 1]
    /\ app' = [pc |-> "recv", num |-> 1]
    /\ ended' = {}
    /\ shutdown' = FALSE
    /\ UNCHANGED <<opt, chain, db>>
-----------------------------------------------------------------------------
(* The subscription loop *)

\* A header arrives from the node: State.latest.
NewHeader ==
    /\ ~shutdown
    /\ received < MaxBlock
    /\ received' = received + 1
    /\ state' = [state EXCEPT !.latest = received + 1]
    /\ UNCHANGED <<opt, chain, db, head, events, blocks, data, pos, first, taskVars,
                   shutdown, restarts>>

\* The next block is announced, as the justified one or as one it skipped.
Announce ==
    /\ ~shutdown
    /\ Len(events) < MaxEvents
    /\ \E n \in Block :
          /\ n <= received
          /\ n = Tip + 1
          /\ events' = Append(events, n)
          /\ \/ state' = [state EXCEPT !.header_verified = RangeSet(@, n)]
             \/ UNCHANGED state
    /\ UNCHANGED <<opt, chain, db, head, received, blocks, data, pos, first, taskVars,
                   shutdown, restarts>>

\* run goes on with the first block announced and spawns the tasks.  It sets
\* latest again, from that block.
Spawn ==
    /\ first = None
    /\ events # <<>>
    /\ first' = events[1]
    /\ state' = [state EXCEPT !.latest = events[1],
                              !.synced = IF opt.start = None THEN None ELSE FALSE]
    /\ sync' = [sync EXCEPT !.num = IF opt.start = None THEN 1 ELSE opt.start]
    /\ ended' = (IF opt.start = None THEN {"sync"} ELSE {})
                \cup (IF opt.app THEN {} ELSE {"app", "publisher"})
    /\ UNCHANGED <<opt, chain, db, channelVars, light, app, shutdown, restarts>>
-----------------------------------------------------------------------------
(* Receiving *)

\* The receiver r of a channel has a next message, or is too far behind.
Ready(r, log) == pos[r] < Len(log)
Lagged(r, log, capacity) == Len(log) - pos[r] > capacity

Take(r) == pos' = [pos EXCEPT ![r] = @ + 1]

\* Task t returns; with stop it triggers the shutdown first.
Return(t, stop) ==
    /\ ended' = ended \cup {t}
    /\ shutdown' = (shutdown \/ stop)

Send(n, confidence) == blocks' = Append(blocks, [num |-> n, confidence |-> confidence])
-----------------------------------------------------------------------------
(* light_client.rs; with a partition the fat client of fat_client.rs *)

LightAt(pc) == Running("light") /\ light.pc = pc

LightGoto(pc, confidence) == light' = [light EXCEPT !.pc = pc, !.confidence = confidence]

\* What a step of the light client leaves alone, besides what it names.
LightKeeps == UNCHANGED <<opt, chain, head, received, events, data, first, sync, app, restarts>>

\* rpc_event_receiver.recv() fails: the task returns, without a shutdown.
LightLags ==
    /\ LightAt("recv")
    /\ Lagged("light", events, RpcCapacity)
    /\ Return("light", FALSE)
    /\ LightKeeps /\ UNCHANGED <<state, db, blocks, pos, light>>

LightReceives ==
    /\ LightAt("recv")
    /\ Ready("light", events) /\ ~Lagged("light", events, RpcCapacity)
    /\ light' = [pc |-> IF opt.fat THEN "upload" ELSE "process",
                 num |-> events[pos["light"] + 1], confidence |-> FALSE]
    /\ Take("light")
    /\ LightKeeps /\ UNCHANGED <<state, db, blocks, ended, shutdown>>

\* No header extension: the range moves, then the header is stored.
LightIncomplete ==
    /\ LightAt("process")
    /\ ~extract_kate(light.num)
    /\ state' = [state EXCEPT !.confidence_achieved = RangeSet(@, light.num)]
    /\ LightGoto("header", FALSE)
    /\ LightKeeps /\ UNCHANGED <<db, blocks, pos, ended, shutdown>>

\* Dimensions that cannot be sampled, or too few cells were verified.
LightSkips ==
    /\ LightAt("process")
    /\ extract_kate(light.num)
    /\ LightGoto("send", FALSE)
    /\ LightKeeps /\ UNCHANGED <<state, db, blocks, pos, ended, shutdown>>

MutCountNotStored ==
    /\ LightAt("process")
    /\ extract_kate(light.num) /\ ColumnsSuffice(light.num)
    /\ LightGoto("range", TRUE)
    /\ LightKeeps /\ UNCHANGED <<state, db, blocks, pos, ended, shutdown>>
LightSampled ==
    /\ LightAt("process")
    /\ extract_kate(light.num) /\ ColumnsSuffice(light.num)
    /\ db' = [db EXCEPT !.cells = @ \cup {light.num}]
    /\ LightGoto("range", TRUE)
    /\ LightKeeps /\ UNCHANGED <<state, blocks, pos, ended, shutdown>>

LightAchieves ==
    /\ LightAt("range")
    /\ state' = [state EXCEPT !.confidence_achieved = RangeSet(@, light.num)]
    /\ LightGoto("header", TRUE)
    /\ LightKeeps /\ UNCHANGED <<db, blocks, pos, ended, shutdown>>

LightStores ==
    /\ LightAt("header")
    /\ db' = [db EXCEPT !.header = @ \cup {light.num}]
    /\ LightGoto("send", light.confidence)
    /\ LightKeeps /\ UNCHANGED <<state, blocks, pos, ended, shutdown>>

\* fat_client::process_block: the header is stored, then the partition uploaded.
FatStores ==
    /\ LightAt("upload")
    /\ IF extract_kate(light.num) /\ ColumnsSuffice(light.num)
       THEN db' = [db EXCEPT !.header = @ \cup {light.num}] /\ LightGoto("partition", FALSE)
       ELSE UNCHANGED db /\ LightGoto("send", FALSE)
    /\ LightKeeps /\ UNCHANGED <<state, blocks, pos, ended, shutdown>>

FatUploads ==
    /\ LightAt("partition")
    /\ LightGoto("send", FALSE)
    /\ LightKeeps /\ UNCHANGED <<state, db, blocks, pos, ended, shutdown>>

\* process_block returns an error: commitments, network or database.
LightFails ==
    /\ Running("light")
    /\ \/ light.pc \in {"header", "partition"}
       \/ light.pc \in {"process", "upload"} /\ extract_kate(light.num) /\ ColumnsSuffice(light.num)
    /\ Return("light", TRUE)
    /\ LightKeeps /\ UNCHANGED <<state, db, blocks, pos, light>>

\* The message goes out whether or not the block was verified.
MutLightSendsOrStops ==
    /\ LightAt("send")
    /\ IF TryFromFails(light.num)
       THEN Return("light", FALSE) /\ UNCHANGED <<blocks, light>>
       ELSE Send(light.num, light.confidence) /\ LightGoto("recv", FALSE) /\ UNCHANGED <<ended, shutdown>>
    /\ LightKeeps /\ UNCHANGED <<state, db, pos>>
LightSends ==
    /\ LightAt("send")
    /\ IF TryFromFails(light.num) THEN UNCHANGED blocks ELSE Send(light.num, light.confidence)
    /\ LightGoto("recv", FALSE)
    /\ LightKeeps /\ UNCHANGED <<state, db, pos, ended, shutdown>>

LightStep ==
    \/ LightLags \/ LightReceives \/ LightIncomplete \/ LightSkips \/ LightSampled
    \/ LightAchieves \/ LightStores \/ FatStores \/ FatUploads \/ LightFails \/ LightSends
-----------------------------------------------------------------------------
(* sync_client.rs *)

SyncAt(pc) == Running("sync") /\ sync.pc = pc /\ sync.num \in SyncRange

SyncGoto(pc) == sync' = [sync EXCEPT !.pc = pc]
SyncNext == sync' = [pc |-> "check", num |-> sync.num + 1]

SyncKeeps == UNCHANGED <<opt, chain, head, received, events, data, pos, first, light, app, restarts>>

\* is_confidence_stored; a block that is stored, or a failing read, is skipped.
SyncChecks ==
    /\ SyncAt("check")
    /\ \/ sync.num \notin db.cells /\ SyncGoto("header")
       \/ SyncNext
    /\ SyncKeeps /\ UNCHANGED <<state, db, blocks, ended, shutdown>>

\* get_header_by_block_number: from the database, or from the node and stored.
MutSyncHeaderOrStops ==
    /\ SyncAt("header")
    /\ \/ /\ db' = [db EXCEPT !.header = @ \cup {sync.num}]
          /\ state' = [state EXCEPT !.sync_latest = sync.num,
                                    !.sync_header_verified = RangeSet(@, sync.num)]
          /\ SyncGoto("sample")
          /\ UNCHANGED <<ended, shutdown>>
       \/ Return("sync", FALSE) /\ UNCHANGED <<state, db, sync>>
    /\ SyncKeeps /\ UNCHANGED blocks
SyncHeader ==
    /\ SyncAt("header")
    /\ \/ /\ db' = [db EXCEPT !.header = @ \cup {sync.num}]
          /\ state' = [state EXCEPT !.sync_latest = sync.num,
                                    !.sync_header_verified = RangeSet(@, sync.num)]
          /\ SyncGoto("sample")
       \/ SyncNext /\ UNCHANGED <<state, db>>
    /\ SyncKeeps /\ UNCHANGED <<blocks, ended, shutdown>>

\* process_block ends without a stored confidence: no extension or too few
\* cells is success, invalid dimensions or a failed fetch an error.
SyncUnsampled ==
    /\ SyncAt("sample")
    /\ \/ (extract_kate(sync.num) => HasDimensions(sync.num)) /\ SyncGoto("done")
       \/ extract_kate(sync.num) /\ SyncNext
    /\ SyncKeeps /\ UNCHANGED <<state, db, blocks, ended, shutdown>>

SyncSampled ==
    /\ SyncAt("sample")
    /\ Extension(sync.num)
    /\ db' = [db EXCEPT !.cells = @ \cup {sync.num}]
    /\ SyncGoto("send")
    /\ SyncKeeps /\ UNCHANGED <<state, blocks, ended, shutdown>>

SyncSends ==
    /\ SyncAt("send")
    /\ Send(sync.num, TRUE)
    /\ SyncGoto("done")
    /\ SyncKeeps /\ UNCHANGED <<state, db, ended, shutdown>>

SyncAchieves ==
    /\ SyncAt("done")
    /\ state' = [state EXCEPT !.sync_confidence_achieved = RangeSet(@, sync.num)]
    /\ SyncNext
    /\ SyncKeeps /\ UNCHANGED <<db, blocks, ended, shutdown>>

\* The range is done; an empty one returns before synced could be set.
SyncEnds ==
    /\ Running("sync")
    /\ sync.num \notin SyncRange
    /\ state' = [state EXCEPT !.synced = IF SyncRange # {} /\ ~opt.app THEN TRUE ELSE @]
    /\ Return("sync", FALSE)
    /\ SyncKeeps /\ UNCHANGED <<db, blocks, sync>>

SyncStep ==
    \/ SyncChecks \/ SyncHeader \/ SyncUnsampled \/ SyncSampled \/ SyncSends
    \/ SyncAchieves \/ SyncEnds
-----------------------------------------------------------------------------
(* app_client.rs *)

\* set_data_verified_state
MutSyncedAtAny(s, n) ==
    LET t == IF n \in SyncRange
             THEN [s EXCEPT !.sync_data_verified = RangeSet(@, n)]
             ELSE [s EXCEPT !.data_verified = RangeSet(@, n)]
    IN  [t EXCEPT !.synced = IF @ = FALSE THEN TRUE ELSE @]
set_data_verified_state(s, n) ==
    LET t == IF n \in SyncRange
             THEN [s EXCEPT !.sync_data_verified = RangeSet(@, n)]
             ELSE [s EXCEPT !.data_verified = RangeSet(@, n)]
    IN  [t EXCEPT !.synced = IF @ = FALSE /\ n \in SyncRange /\ n + 1 = first THEN TRUE ELSE @]

\* The block has an extension whose lookup names cells of the application.
HasData(n) == Extension(n) /\ chain[n].lookup = "app"

AppAt(pc) == Running("app") /\ app.pc = pc

AppKeeps == UNCHANGED <<opt, chain, head, received, events, blocks, first, light, sync, restarts>>

\* A block with data of the application is processed, any other one is done.
MutAppMarksFirst ==
    /\ AppAt("recv")
    /\ Ready("app", blocks) /\ ~Lagged("app", blocks, BlockCapacity)
    /\ LET n == blocks[pos["app"] + 1].num
       IN  /\ state' = set_data_verified_state(state, n)
           /\ app' = [pc |-> IF HasData(n) THEN "process" ELSE "recv",
                      num |-> n]
    /\ Take("app")
    /\ AppKeeps /\ UNCHANGED <<db, data, ended, shutdown>>
AppReceives ==
    /\ AppAt("recv")
    /\ Ready("app", blocks) /\ ~Lagged("app", blocks, BlockCapacity)
    /\ LET n == blocks[pos["app"] + 1].num
       IN  IF HasData(n)
           THEN app' = [pc |-> "process", num |-> n] /\ UNCHANGED state
           ELSE state' = set_data_verified_state(state, n) /\ UNCHANGED app
    /\ Take("app")
    /\ AppKeeps /\ UNCHANGED <<db, data, ended, shutdown>>

\* process_block, which ends with the data stored.
AppStores ==
    /\ AppAt("process")
    /\ db' = [db EXCEPT !.data = @ \cup {app.num}]
    /\ app' = [app EXCEPT !.pc = "mark"]
    /\ AppKeeps /\ UNCHANGED <<state, data, pos, ended, shutdown>>

AppMarks ==
    /\ AppAt("mark")
    /\ state' = set_data_verified_state(state, app.num)
    /\ app' = [app EXCEPT !.pc = "send"]
    /\ AppKeeps /\ UNCHANGED <<db, data, pos, ended, shutdown>>

AppSends ==
    /\ AppAt("send")
    /\ "publisher" \notin ended
    /\ data' = Append(data, app.num)
    /\ app' = [app EXCEPT !.pc = "recv"]
    /\ AppKeeps /\ UNCHANGED <<state, db, pos, ended, shutdown>>

\* The channel lagged, process_block failed or nobody receives the data.
AppFails ==
    /\ \/ AppAt("recv") /\ Lagged("app", blocks, BlockCapacity)
       \/ AppAt("process")
       \/ AppAt("send") /\ "publisher" \in ended
    /\ Return("app", TRUE)
    /\ AppKeeps /\ UNCHANGED <<state, db, data, pos, app>>

AppStep == AppReceives \/ AppStores \/ AppMarks \/ AppSends \/ AppFails
-----------------------------------------------------------------------------
\* publish of api/v2/mod.rs for application data
Publisher ==
    /\ Running("publisher")
    /\ \/ /\ Ready("publisher", data) /\ ~Lagged("publisher", data, BlockCapacity)
          /\ Take("publisher")
          /\ UNCHANGED <<ended, shutdown>>
       \/ /\ Lagged("publisher", data, BlockCapacity)
          /\ Return("publisher", FALSE)
          /\ UNCHANGED pos
    /\ UNCHANGED <<opt, chain, state, db, head, received, events, blocks, data, first,
                   light, sync, app, restarts>>

Next ==
    \/ Restart \/ NewHeader \/ Announce \/ Spawn
    \/ LightStep \/ SyncStep \/ AppStep \/ Publisher

Spec == Init /\ [][Next]_vars

(***************************************************************************)
(* Fairness: the runtime keeps polling main and each task until the        *)
(* shutdown, when they are cancelled.                                      *)
(***************************************************************************)
FairSpec ==
    /\ Spec
    /\ WF_vars(Spawn)
    /\ WF_vars(LightStep)
    /\ WF_vars(SyncStep)
-----------------------------------------------------------------------------
(* Properties *)

\* The block that /v1/latest_block names has its confidence stored, so that
\* /v1/status finds it, unless the block has no extension: the light client
\* stores the count before it moves the range, and a crash loses the range.
LatestIsAchieved ==
    latest_block # None => status_found \/ ~extract_kate(latest_block)

\* For a block followed live, /v2/blocks/{n}/data never answers an empty list
\* when the block has data of the application, and /v1/appdata/{n} has it too:
\* the range the answer relies on covers only blocks that the application
\* client took off the channel in order, each stored before the range moved
\* over it.
FinishedHasData ==
    first # None =>
        \A n \in Block :
            (first <= n /\ HasData(n)) =>
                /\ block_data(n) # "no_data"
                /\ block(n) = "finished" => appdata(n) = "data"

\* synced: the sync client is past every block before the last, and the data
\* of every synced block it has sent is stored.
SyncedMeansDone ==
    state.synced = TRUE =>
        /\ SyncRange # {}
        /\ sync.num + 1 >= first
        /\ opt.app => \A i \in DOMAIN blocks :
              LET n == blocks[i].num
              IN  (n \in SyncRange /\ HasData(n)) => n \in db.data

Rank(status) ==
    CASE status = None -> 0
      [] status \in {"unavailable", "pending", "verifying-header"} -> 1
      [] status = "verifying-confidence" -> 2
      [] status = "verifying-data" -> 3
      [] status \in {"incomplete", "finished"} -> 4

\* Once a header was verified, the status of a block in /v2/blocks/{n} only
\* moves forward (the next header makes a block that waits for its justification
\* pending again), and /v1/confidence/{n} keeps an answer it has given,
\* whatever the order in which the clients move the ranges.
StatusAdvances ==
    [][(restarts' = restarts /\ first # None /\ state.header_verified # None) =>
          \A n \in Block : /\ Rank(block(n)) <= Rank(block(n)')
                           /\ confidence_found(n) => confidence_found(n)']_vars

\* Each announced block is taken and finished by the light or the fat client,
\* or the client was too slow for the channel, or the node is being shut down
\* (or was started again).
AnnouncedIsProcessed ==
    \A i \in 1..MaxEvents :
        Len(events) >= i ~>
            \/ pos["light"] >= i /\ light.pc = "recv"
            \/ Lagged("light", events, RpcCapacity)
            \/ shutdown
            \/ Len(events) < i

\* Without an application client, historical sync of a range that is not
\* empty ends with synced set, whatever blocks fail on the way.
SyncCompletes ==
    (~opt.app /\ SyncRange # {}) ~> (state.synced = TRUE \/ shutdown \/ first = None)

\* No task of a running process stops unnoticed: the light client (or the fat
\* one) has returned only when it was too slow for the channel or with a
\* shutdown, the application client only with a shutdown, the publisher only when
\* it was too slow, and the sync client, without an application client, has set
\* synced.
StopsForAReason ==
    first # None =>
        /\ "light" \in ended => Lagged("light", events, RpcCapacity) \/ shutdown
        /\ "app" \in ended => ~opt.app \/ shutdown
        /\ "publisher" \in ended => ~opt.app \/ Lagged("publisher", data, BlockCapacity)
        /\ ("sync" \in ended /\ ~opt.app /\ SyncRange # {}) => state.synced = TRUE
-----------------------------------------------------------------------------
(* Inductive invariant *)

\* The shapes of the variables and the types the argument needs.
TypeOK ==
    /\ opt \in Options
    /\ DOMAIN state = DOMAIN InitialState
    /\ state.confidence_achieved \in BlockRange \cup {None}
    /\ state.data_verified \in BlockRange \cup {None}
    /\ state.sync_data_verified \in BlockRange \cup {None}
    /\ DOMAIN db = {"header", "cells", "data"}
    /\ head \in Nat /\ head <= MaxBlock
    /\ events \in Seq(Block)
    /\ blocks \in Seq(Message)
    /\ pos \in [Receiver -> Nat]
    /\ pos["light"] <= Len(events) /\ pos["app"] <= Len(blocks)
    /\ light \in [pc : {"recv", "process", "range", "header", "upload", "partition", "send"},
                  num : Block, confidence : BOOLEAN]
    /\ sync \in [pc : {"check", "header", "sample", "send", "done"}, num : Nat]
    /\ app \in [pc : {"recv", "process", "mark", "send"}, num : Block]

\* How many announced blocks the light client, and how many messages the
\* application client, is done with.
LightDone == IF light.pc = "recv" THEN pos["light"] ELSE pos["light"] - 1
AppDone == IF app.pc = "process" THEN pos["app"] - 1 ELSE pos["app"]

\* Announced blocks follow the head without a gap, and the first of them is the
\* one run waits for; nothing has happened before that.
FeedInv ==
    /\ \A i \in 1..Len(events) : events[i] = head + i
    /\ first # None => first = head + 1
    /\ first = None =>
          /\ blocks = <<>> /\ pos = [r \in Receiver |-> 0]
          /\ light.pc = "recv" /\ app.pc = "recv"
          /\ state.confidence_achieved = None
          /\ state.data_verified = None /\ state.sync_data_verified = None
    /\ light.pc # "recv" => pos["light"] > 0 /\ light.num = head + pos["light"]
    /\ app.pc # "recv" => pos["app"] > 0 /\ app.num = blocks[pos["app"]].num

\* The messages of the light client and those of the sync client are each in
\* the order of the blocks, and none with an extension that the light client is
\* done with is missing.
MessagesInv ==
    /\ \A i \in 1..Len(blocks) : blocks[i].num > head => blocks[i].num <= head + LightDone
    /\ \A i, j \in 1..Len(blocks) :
          (i < j /\ (blocks[i].num > head <=> blocks[j].num > head)) => blocks[i].num < blocks[j].num
    /\ \A k \in 1..LightDone :
          Extension(head + k) => \E i \in 1..Len(blocks) : blocks[i].num = head + k
    /\ \A i \in 1..Len(blocks) :
          blocks[i].num <= head =>
              /\ blocks[i].num \in SyncRange
              /\ blocks[i].num <= sync.num /\ (sync.pc # "done" => blocks[i].num < sync.num)

\* The data of the messages the application client is done with is stored, and
\* the ranges cover no other live block with data.
DataInv ==
    /\ \A i \in 1..AppDone : HasData(blocks[i].num) => blocks[i].num \in db.data
    /\ state.data_verified # None =>
          \A n \in Block : (head < n /\ n <= state.data_verified.last /\ HasData(n)) => n \in db.data
    /\ state.sync_data_verified # None => state.sync_data_verified.last <= head

\* The count of a block is stored before the range moves to it.
CountInv ==
    /\ light.pc = "range" => light.num \in db.cells
    /\ LatestIsAchieved

IInv == TypeOK /\ FeedInv /\ MessagesInv /\ DataInv /\ CountInv

\* synced was set by the sync client at its end, or by the application client
\* at the message of the last block of the range.
SyncInv ==
    /\ (first # None /\ opt.start # None) => sync.num >= opt.start
    /\ (first # None /\ ~opt.app) => "app" \in ended
    /\ state.synced = TRUE =>
          /\ SyncRange # {}
          /\ IF opt.app THEN \E i \in 1..AppDone : blocks[i].num = head
                        ELSE sync.num >= first

\* No range is ahead of the task that moves it, so that each move is forward:
\* the feed, the light client at the last block it took, the sync client at its
\* block, and the application client at a message it took off the channel.
RangesInv ==
    /\ restarts \in Nat /\ received \in Nat /\ state.latest \in Nat
    /\ head + Len(events) <= received /\ state.latest <= received
    /\ state.header_verified \in BlockRange \cup {None}
    /\ state.sync_header_verified \in BlockRange \cup {None}
    /\ state.sync_confidence_achieved \in BlockRange \cup {None}
    /\ first = None => state.sync_header_verified = None /\ state.sync_confidence_achieved = None
    /\ state.header_verified # None => state.header_verified.last <= head + Len(events)
    /\ state.confidence_achieved # None => state.confidence_achieved.last <= head + pos["light"]
    /\ state.sync_header_verified # None => state.sync_header_verified.last <= sync.num
    /\ state.sync_confidence_achieved # None => state.sync_confidence_achieved.last <= sync.num
    /\ state.data_verified # None =>
          \E i \in 1..pos["app"] : blocks[i].num > head /\ state.data_verified.last = blocks[i].num
    /\ state.sync_data_verified # None =>
          \E i \in 1..pos["app"] : blocks[i].num <= head /\ state.sync_data_verified.last = blocks[i].num
=============================================================================
