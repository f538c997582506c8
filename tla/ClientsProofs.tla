---------------------------- MODULE ClientsProofs ---------------------------
(***************************************************************************)
(* Proofs about Clients, for every chain, configuration, channel capacity  *)
(* and number of blocks and restarts.  The argument is in FeedInv,         *)
(* MessagesInv and DataInv: the light client sends every block with an     *)
(* extension in order, the application client stores the data of each      *)
(* message before it goes on, so a range that reaches a block covers only  *)
(* blocks whose data is stored.                                            *)
(*                                                                         *)
(* The answers of the API go forward by RangesInv: every range is moved by *)
(* one task, which is never behind it, so that each step either leaves a   *)
(* range or moves it forward (RangeStep).                                  *)
(***************************************************************************)
EXTENDS Clients, Integers, TLAPS

-----------------------------------------------------------------------------
(* What leaves a conjunct of the invariant alone *)

\* MessagesInv depends on the messages and on how far their senders are.
LEMMA MessagesKept ==
    ASSUME MessagesInv, UNCHANGED <<opt, chain, head, first, blocks, sync>>, LightDone' = LightDone
    PROVE  MessagesInv'
BY Zenon DEF MessagesInv, SyncRange, Extension, extract_kate, HasDimensions

\* DataInv depends on what the application client is done with.
LEMMA DataKept ==
    ASSUME DataInv, UNCHANGED <<chain, head>>, AppDone' = AppDone,
           \A i \in 1..AppDone : blocks'[i].num = blocks[i].num,
           db.data \subseteq db'.data,
           state'.data_verified = state.data_verified,
           state'.sync_data_verified = state.sync_data_verified
    PROVE  DataInv'
BY DEF DataInv, HasData, Extension, extract_kate, HasDimensions

\* CountInv depends on the range and the stored counts.
LEMMA CountKept ==
    ASSUME CountInv, UNCHANGED chain, db.cells \subseteq db'.cells,
           light'.pc = "range" => light.pc = "range" /\ light'.num = light.num,
           state'.confidence_achieved = state.confidence_achieved
    PROVE  CountInv'
BY DEF CountInv, LatestIsAchieved, latest_block, status_found, extract_kate

\* A message goes to the end of the channel.
LEMMA SendAppends ==
    ASSUME blocks \in Seq(Message), NEW n \in Block, NEW c \in BOOLEAN, Send(n, c)
    PROVE  /\ blocks' \in Seq(Message)
           /\ Len(blocks') = Len(blocks) + 1
           /\ \A i \in 1..Len(blocks) : blocks'[i] = blocks[i]
           /\ blocks'[Len(blocks) + 1].num = n
<1> DEFINE msg == [num |-> n, confidence |-> c]
<1>1. msg \in Message /\ msg.num = n
  BY DEF Message
<1>2. blocks' = Append(blocks, msg)
  BY DEF Send
<1> HIDE DEF msg
<1> QED
  BY <1>1, <1>2

LEMMA MessageNumbers ==
    ASSUME NEW s \in Seq(Message)
    PROVE  \A i \in 1..Len(s) : s[i].num \in Nat
<1>1. \A i \in 1..Len(s) : s[i] \in Message
  OBVIOUS
<1>2. \A m \in Message : m.num \in Block
  BY DEF Message
<1>3. \A n \in Block : n \in Nat
  BY DEF Block
<1> QED
  BY <1>1, <1>2, <1>3
-----------------------------------------------------------------------------
(* The light client and the fat client *)

LEMMA LightQuiet ==
    ASSUME TypeOK, FeedInv,
           LightLags \/ LightSkips \/ LightFails \/ FatUploads \/ LightStores \/ FatStores
             \/ LightSampled
    PROVE  TypeOK' /\ FeedInv'
<1>1. CASE LightLags \/ LightFails
  BY <1>1, ZenonT(30) DEF LightLags, LightFails, LightKeeps, TypeOK, FeedInv, Receiver
<1>2. CASE LightSkips \/ FatUploads
  BY <1>2, ZenonT(30)
     DEF LightSkips, FatUploads, LightAt, Running, LightGoto, LightKeeps, TypeOK, FeedInv, Receiver
<1>3. CASE LightStores \/ LightSampled
  BY <1>3, ZenonT(30)
     DEF LightStores, LightSampled, LightAt, Running, LightGoto, LightKeeps, TypeOK, FeedInv, Receiver
<1>4. CASE FatStores
  <2>1. \/ light' = [light EXCEPT !.pc = "partition", !.confidence = FALSE]
        \/ light' = [light EXCEPT !.pc = "send", !.confidence = FALSE]
    BY <1>4 DEF FatStores, LightGoto
  <2>2. /\ DOMAIN db' = DOMAIN db
        /\ light.pc = "upload" /\ first # None
        /\ UNCHANGED <<opt, state, blocks, pos, head, events, first, sync, app>>
    BY <1>4, Zenon DEF FatStores, LightAt, Running, LightKeeps
  <2> QED
    BY <2>1, <2>2, ZenonT(30) DEF TypeOK, FeedInv
<1> QED
  BY <1>1, <1>2, <1>3, <1>4

LEMMA LightMoves ==
    ASSUME TypeOK, FeedInv, LightReceives \/ LightIncomplete \/ LightAchieves \/ LightSends
    PROVE  TypeOK' /\ FeedInv'
<1>1. CASE LightReceives
  <2>1. /\ light'.num = events[pos["light"] + 1] /\ light'.num \in Block
        /\ light' \in [pc : {"recv", "process", "range", "header", "upload", "partition", "send"},
                       num : Block, confidence : BOOLEAN]
    BY <1>1 DEF LightReceives, Ready, TypeOK, Receiver
  <2>2. /\ pos' = [pos EXCEPT !["light"] = pos["light"] + 1]
        /\ pos["light"] < Len(events) /\ first # None
        /\ UNCHANGED <<opt, state, db, blocks, head, events, first, sync, app>>
    BY <1>1 DEF LightReceives, LightAt, Running, LightKeeps, Ready, Take
  <2>3. TypeOK'
    <3>1. /\ pos' \in [Receiver -> Nat] /\ pos'["light"] <= Len(events) /\ pos'["app"] = pos["app"]
      BY <2>2 DEF TypeOK, Receiver
    <3> QED
      BY <2>1, <2>2, <3>1 DEF TypeOK
  <2>4. FeedInv'
    <3>1. events[pos["light"] + 1] = head + (pos["light"] + 1)
      <4>1. \A i \in 1..Len(events) : events[i] = head + i
        BY DEF FeedInv
      <4>2. pos["light"] \in Nat /\ Len(events) \in Nat /\ pos["light"] < Len(events)
        BY <2>2 DEF TypeOK, Receiver
      <4> QED
        BY <4>1, <4>2
    <3>2. pos'["light"] = pos["light"] + 1 /\ pos'["app"] = pos["app"]
      BY <2>2 DEF TypeOK, Receiver
    <3> QED
      BY <2>1, <2>2, <3>1, <3>2 DEF TypeOK, FeedInv, Receiver
  <2> QED
    BY <2>3, <2>4
<1>2. CASE LightIncomplete \/ LightAchieves
  <2>1. /\ state' = [state EXCEPT !.confidence_achieved = RangeSet(state.confidence_achieved, light.num)]
        /\ light' \in [pc : {"header"}, num : Block, confidence : BOOLEAN]
        /\ light'.num = light.num
        /\ light.pc # "recv" /\ first # None
        /\ UNCHANGED <<opt, db, blocks, pos, head, events, first, sync, app>>
    BY <1>2, Zenon
       DEF LightIncomplete, LightAchieves, LightAt, LightGoto, LightKeeps, Running, TypeOK
  <2>2. RangeSet(state.confidence_achieved, light.num) \in BlockRange
    BY Zenon DEF RangeSet, BlockRange, TypeOK
  <2>3. TypeOK'
    BY <2>1, <2>2 DEF TypeOK, InitialState
  <2>4. FeedInv'
    BY <2>1 DEF TypeOK, FeedInv
  <2> QED
    BY <2>3, <2>4
<1>3. CASE LightSends
  <2>1. /\ light' \in [pc : {"recv", "process", "range", "header", "upload", "partition", "send"},
                       num : Block, confidence : BOOLEAN]
        /\ light'.pc = "recv"
    BY <1>3, Zenon DEF LightSends, LightGoto, TypeOK
  <2>2. /\ first # None
        /\ UNCHANGED <<opt, state, db, pos, head, events, first, sync, app>>
    BY <1>3 DEF LightSends, LightAt, LightKeeps, Running
  <2>3. /\ blocks' \in Seq(Message) /\ Len(blocks) <= Len(blocks')
        /\ \A i \in 1..Len(blocks) : blocks'[i] = blocks[i]
    <3>1. blocks' = blocks \/ Send(light.num, light.confidence)
      BY <1>3 DEF LightSends
    <3>2. light.num \in Block /\ light.confidence \in BOOLEAN
      BY DEF TypeOK
    <3> QED
      BY <3>1, <3>2, SendAppends DEF TypeOK
  <2>4. TypeOK'
    <3>1. pos["app"] <= Len(blocks')
      BY <2>3 DEF TypeOK, Receiver
    <3> QED
      BY <2>1, <2>2, <2>3, <3>1 DEF TypeOK
  <2>5. FeedInv'
    BY <2>1, <2>2, <2>3 DEF TypeOK, FeedInv, Receiver
  <2> QED
    BY <2>4, <2>5
<1> QED
  BY <1>1, <1>2, <1>3

\* A block that is announced is not yet done; its message comes after those of
\* the blocks before it.
LEMMA LightMessages ==
    ASSUME IInv, LightStep
    PROVE  MessagesInv'
<1> USE DEF IInv
<1>1. CASE LightReceives
  <2>1. LightDone' = LightDone
    BY <1>1 DEF LightDone, LightReceives, LightAt, Take, TypeOK, Receiver
  <2> QED
    BY <1>1, <2>1, MessagesKept DEF LightReceives, LightKeeps
<1>2. CASE LightLags \/ LightFails
  <2>1. LightDone' = LightDone
    BY <1>2, Zenon DEF LightDone, LightLags, LightFails
  <2> QED
    BY <1>2, <2>1, MessagesKept, Zenon DEF LightLags, LightFails, LightKeeps
<1>3. CASE LightIncomplete \/ LightSkips \/ LightSampled \/ LightAchieves \/ LightStores
             \/ FatStores \/ FatUploads
  <2>1. light.pc # "recv" /\ light'.pc # "recv" /\ pos' = pos
    BY <1>3, Zenon
       DEF LightIncomplete, LightSkips, LightSampled, LightAchieves, LightStores, FatStores,
       FatUploads, LightAt, LightGoto, TypeOK
  <2>2. LightDone' = LightDone
    BY <2>1 DEF LightDone
  <2> QED
    BY <1>3, <2>2, MessagesKept, Zenon DEF LightIncomplete, LightSkips, LightSampled, LightAchieves,
       LightStores, FatStores, FatUploads, LightKeeps
<1>4. CASE LightSends
  <2> DEFINE k == pos["light"]
  <2>1. /\ LightDone = k - 1 /\ LightDone' = k /\ k \in Nat \ {0}
        /\ light.num = head + k /\ head \in Nat
    BY <1>4 DEF LightDone, LightSends, LightAt, LightGoto, TypeOK, FeedInv, Receiver
  <2>2. UNCHANGED <<opt, chain, head, first, sync>>
    BY <1>4 DEF LightSends, LightKeeps
  <2>3. /\ SyncRange' = SyncRange
        /\ \A n : Extension(n)' <=> Extension(n)
    BY <2>2 DEF SyncRange, Extension, extract_kate, HasDimensions
  <2> HIDE DEF k
  <2>4. /\ \A i \in 1..Len(blocks) : blocks[i].num \in Nat
        /\ \A i \in 1..Len(blocks) : blocks[i].num > head => blocks[i].num < head + k
        /\ Len(blocks) \in Nat
    <3>1. \A i \in 1..Len(blocks) : blocks[i].num \in Nat
      BY MessageNumbers DEF TypeOK
    <3>2. \A i \in 1..Len(blocks) : blocks[i].num > head => blocks[i].num <= head + (k - 1)
      BY <2>1 DEF MessagesInv
    <3>3. Len(blocks) \in Nat
      BY DEF TypeOK
    <3> QED
      BY <2>1, <3>1, <3>2, <3>3
  <2>5. /\ \A i, j \in 1..Len(blocks) :
             (i < j /\ (blocks[i].num > head <=> blocks[j].num > head)) => blocks[i].num < blocks[j].num
        /\ \A m \in 1..(k - 1) :
             Extension(head + m) => \E i \in 1..Len(blocks) : blocks[i].num = head + m
        /\ \A i \in 1..Len(blocks) :
             blocks[i].num <= head =>
                 /\ blocks[i].num \in SyncRange
                 /\ blocks[i].num <= sync.num /\ (sync.pc # "done" => blocks[i].num < sync.num)
    BY <2>1 DEF MessagesInv
  <2>6. SUFFICES
          /\ \A i \in 1..Len(blocks') : blocks'[i].num > head => blocks'[i].num <= head + k
          /\ \A i, j \in 1..Len(blocks') :
               (i < j /\ (blocks'[i].num > head <=> blocks'[j].num > head))
                  => blocks'[i].num < blocks'[j].num
          /\ \A m \in 1..k :
               Extension(head + m) => \E i \in 1..Len(blocks') : blocks'[i].num = head + m
          /\ \A i \in 1..Len(blocks') :
               blocks'[i].num <= head =>
                   /\ blocks'[i].num \in SyncRange
                   /\ blocks'[i].num <= sync.num /\ (sync.pc # "done" => blocks'[i].num < sync.num)
    BY <2>1, <2>2, <2>3, Zenon DEF MessagesInv
  <2>7. CASE TryFromFails(light.num)
    <3>1. blocks' = blocks /\ ~Extension(head + k)
      BY <1>4, <2>1, <2>7 DEF LightSends, TryFromFails, Extension
    <3>2. \A m \in 1..k : m = k \/ m \in 1..(k - 1)
      BY <2>1
    <3>3. \A i \in 1..Len(blocks) : blocks[i].num > head => blocks[i].num <= head + k
      BY <2>1, <2>4
    <3>4. \A m \in 1..k :
             Extension(head + m) => \E i \in 1..Len(blocks) : blocks[i].num = head + m
      BY <2>5, <3>1, <3>2, Zenon
    <3> QED
      BY <2>5, <3>1, <3>3, <3>4, Zenon
  <2>8. CASE ~TryFromFails(light.num)
    <3>1. /\ Len(blocks') = Len(blocks) + 1
          /\ \A i \in 1..Len(blocks) : blocks'[i] = blocks[i]
          /\ blocks'[Len(blocks) + 1].num = head + k
      <4>1. Send(light.num, light.confidence)
        BY <1>4, <2>8 DEF LightSends
      <4>2. light.num \in Block /\ light.confidence \in BOOLEAN
        BY DEF TypeOK
      <4> QED
        BY <2>1, <4>1, <4>2, SendAppends DEF TypeOK
    <3>2. \A i \in 1..Len(blocks') : i = Len(blocks) + 1 \/ i \in 1..Len(blocks)
      BY <2>4, <3>1
    <3>3. \A i \in 1..Len(blocks') : blocks'[i].num > head => blocks'[i].num <= head + k
      BY <2>1, <2>4, <3>1, <3>2
    <3>4. \A i, j \in 1..Len(blocks') :
             (i < j /\ (blocks'[i].num > head <=> blocks'[j].num > head))
                => blocks'[i].num < blocks'[j].num
      BY <2>1, <2>4, <2>5, <3>1, <3>2
    <3>5. \A m \in 1..k :
             Extension(head + m) => \E i \in 1..Len(blocks') : blocks'[i].num = head + m
      <4>1. \A m \in 1..k : m = k \/ m \in 1..(k - 1)
        BY <2>1
      <4>2. /\ \A i \in 1..Len(blocks) : i \in 1..Len(blocks') /\ blocks'[i].num = blocks[i].num
            /\ Len(blocks) + 1 \in 1..Len(blocks')
        BY <2>4, <3>1
      <4> QED
        BY <2>5, <3>1, <4>1, <4>2
    <3>6. \A i \in 1..Len(blocks') :
             blocks'[i].num <= head =>
                 /\ blocks'[i].num \in SyncRange
                 /\ blocks'[i].num <= sync.num /\ (sync.pc # "done" => blocks'[i].num < sync.num)
      BY <2>1, <2>5, <3>1, <3>2
    <3> QED
      BY <3>3, <3>4, <3>5, <3>6
  <2> QED
    BY <2>7, <2>8
<1> QED
  BY <1>1, <1>2, <1>3, <1>4 DEF LightStep

LEMMA LightPreserves ==
    ASSUME IInv, LightStep
    PROVE  IInv'
<1> USE DEF IInv
<1>1. TypeOK' /\ FeedInv'
  BY LightQuiet, LightMoves DEF LightStep
<1>2. MessagesInv'
  BY LightMessages
<1>3. DataInv'
  <2>1. AppDone' = AppDone
    <3>1. app' = app /\ pos'["app"] = pos["app"]
      BY Zenon DEF LightStep, LightLags, LightReceives, LightIncomplete, LightSkips, LightSampled,
         LightAchieves, LightStores, FatStores, FatUploads, LightFails, LightSends, LightKeeps, Take,
         TypeOK, Receiver
    <3> QED
      BY <3>1 DEF AppDone
  <2>2. UNCHANGED <<chain, head>>
    BY Zenon DEF LightStep, LightLags, LightReceives, LightIncomplete, LightSkips, LightSampled,
       LightAchieves, LightStores, FatStores, FatUploads, LightFails, LightSends, LightKeeps
  <2>3. /\ db'.data = db.data /\ state'.data_verified = state.data_verified
        /\ state'.sync_data_verified = state.sync_data_verified
    BY ZenonT(30)
       DEF LightStep, LightLags, LightReceives, LightIncomplete, LightSkips, LightSampled,
       LightAchieves, LightStores, FatStores, FatUploads, LightFails, LightSends, TypeOK, InitialState
  <2>4. \A i \in 1..AppDone : blocks'[i].num = blocks[i].num
    <3>1. CASE LightSends
      <4>1. blocks' = blocks \/ Send(light.num, light.confidence)
        BY <3>1 DEF LightSends
      <4>2. light.num \in Block /\ light.confidence \in BOOLEAN /\ blocks \in Seq(Message)
        BY DEF TypeOK
      <4>3. \A i \in 1..Len(blocks) : blocks'[i] = blocks[i]
        BY <4>1, <4>2, SendAppends
      <4>4. AppDone \in Int /\ AppDone <= Len(blocks) /\ Len(blocks) \in Nat
        BY DEF AppDone, TypeOK, Receiver
      <4> QED
        BY <4>3, <4>4
    <3>2. CASE ~LightSends
      BY <3>2, Zenon
         DEF LightStep, LightLags, LightReceives, LightIncomplete, LightSkips, LightSampled,
         LightAchieves, LightStores, FatStores, FatUploads, LightFails
    <3> QED
      BY <3>1, <3>2
  <2> QED
    BY <2>1, <2>2, <2>3, <2>4, DataKept
<1>4. CountInv'
  <2>1. CASE LightSampled
    <3>1. light'.num \in db'.cells /\ db.cells \subseteq db'.cells
      BY <2>1 DEF LightSampled, LightGoto, TypeOK
    <3>2. state' = state /\ chain' = chain
      BY <2>1 DEF LightSampled, LightKeeps
    <3> QED
      BY <3>1, <3>2 DEF CountInv, LatestIsAchieved, latest_block, status_found, extract_kate
  <2>2. CASE LightIncomplete \/ LightAchieves
    <3>1. /\ light.num \in db.cells \/ ~extract_kate(light.num)
          /\ UNCHANGED <<chain, db>> /\ light'.pc # "range"
      BY <2>2, Zenon
         DEF LightIncomplete, LightAchieves, LightAt, LightGoto, LightKeeps, TypeOK, CountInv
    <3>2. state'.confidence_achieved = RangeSet(state.confidence_achieved, light.num)
      BY <2>2, Zenon DEF LightIncomplete, LightAchieves, TypeOK, InitialState
    <3>3. state'.confidence_achieved.last = light.num
      BY <3>2 DEF RangeSet, TypeOK, BlockRange
    <3> QED
      BY <3>1, <3>3 DEF CountInv, LatestIsAchieved, latest_block, status_found, extract_kate
  <2>3. CASE ~LightSampled /\ ~LightIncomplete /\ ~LightAchieves
    <3>1. chain' = chain /\ state' = state
      BY <2>3, Zenon
         DEF LightStep, LightLags, LightReceives, LightSkips, LightStores, FatStores, FatUploads,
         LightFails, LightSends, LightKeeps
    <3>2. db'.cells = db.cells
      BY <2>3, Zenon
         DEF LightStep, LightLags, LightReceives, LightSkips, LightStores, FatStores, FatUploads,
         LightFails, LightSends, TypeOK
    <3>3. light'.pc = "range" => light' = light
      <4>1. CASE LightLags \/ LightFails
        BY <4>1, Zenon DEF LightLags, LightFails
      <4>2. CASE LightReceives
        BY <4>2 DEF LightReceives
      <4>3. CASE LightSkips \/ LightStores \/ FatUploads \/ LightSends
        BY <4>3, Zenon DEF LightSkips, LightStores, FatUploads, LightSends, LightGoto, TypeOK
      <4>4. CASE FatStores
        BY <4>4, Zenon DEF FatStores, LightGoto, TypeOK
      <4> QED
        BY <2>3, <4>1, <4>2, <4>3, <4>4 DEF LightStep
    <3> QED
      BY <3>1, <3>2, <3>3, CountKept
  <2> QED
    BY <2>1, <2>2, <2>3
<1> QED
  BY <1>1, <1>2, <1>3, <1>4
-----------------------------------------------------------------------------
(* The sync client *)

LEMMA SyncMoves ==
    ASSUME SyncStep
    PROVE  \/ sync' = sync
           \/ \E p \in {"check", "header", "sample", "send", "done"} : sync' = [sync EXCEPT !.pc = p]
           \/ sync' = [pc |-> "check", num |-> sync.num + 1]
<1>1. CASE SyncChecks
  BY <1>1 DEF SyncChecks, SyncGoto, SyncNext
<1>2. CASE SyncHeader
  BY <1>2 DEF SyncHeader, SyncGoto, SyncNext
<1>3. CASE SyncUnsampled \/ SyncSampled
  BY <1>3 DEF SyncUnsampled, SyncSampled, SyncGoto, SyncNext
<1>4. CASE SyncSends \/ SyncAchieves \/ SyncEnds
  BY <1>4, Zenon DEF SyncSends, SyncAchieves, SyncEnds, SyncGoto, SyncNext
<1> QED
  BY <1>1, <1>2, <1>3, <1>4 DEF SyncStep

LEMMA SyncSendAppends ==
    ASSUME blocks \in Seq(Message), SyncSends
    PROVE  /\ blocks' \in Seq(Message)
           /\ Len(blocks') = Len(blocks) + 1
           /\ \A i \in 1..Len(blocks) : blocks'[i] = blocks[i]
           /\ blocks'[Len(blocks) + 1].num = sync.num
<1>1. sync.num \in Block
  BY DEF SyncSends, SyncAt, SyncRange
<1>2. PICK c \in BOOLEAN : Send(sync.num, c)
  BY Zenon DEF SyncSends
<1> QED
  BY <1>1, <1>2, SendAppends

LEMMA SyncTypes ==
    ASSUME TypeOK, FeedInv, SyncStep
    PROVE  TypeOK' /\ FeedInv'
<1>1. /\ UNCHANGED <<opt, head, events, pos, first, light, app>>
      /\ first # None
  BY Zenon
     DEF SyncStep, SyncChecks, SyncHeader, SyncUnsampled, SyncSampled, SyncSends, SyncAchieves,
     SyncEnds, SyncKeeps, SyncAt, Running
<1>2. /\ DOMAIN state' = DOMAIN state /\ DOMAIN db' = DOMAIN db
      /\ state'.confidence_achieved = state.confidence_achieved
      /\ state'.data_verified = state.data_verified
      /\ state'.sync_data_verified = state.sync_data_verified
  BY ZenonT(30)
     DEF SyncStep, SyncChecks, SyncHeader, SyncUnsampled, SyncSampled, SyncSends, SyncAchieves,
     SyncEnds, TypeOK, InitialState
<1>3. sync' \in [pc : {"check", "header", "sample", "send", "done"}, num : Nat]
  BY SyncMoves DEF TypeOK
<1>4. /\ blocks' \in Seq(Message) /\ Len(blocks) <= Len(blocks')
      /\ \A i \in 1..Len(blocks) : blocks'[i] = blocks[i]
  <2>1. CASE SyncSends
    BY <2>1, SyncSendAppends DEF TypeOK
  <2>2. CASE ~SyncSends
    <3>1. blocks' = blocks
      BY <2>2, Zenon
         DEF SyncStep, SyncChecks, SyncHeader, SyncUnsampled, SyncSampled, SyncAchieves, SyncEnds
    <3> QED
      BY <3>1 DEF TypeOK
  <2> QED
    BY <2>1, <2>2
<1>5. TypeOK'
  <2>1. pos["app"] <= Len(blocks')
    BY <1>4 DEF TypeOK, Receiver
  <2> QED
    BY <1>1, <1>2, <1>3, <1>4, <2>1 DEF TypeOK
<1>6. FeedInv'
  BY <1>1, <1>2, <1>4 DEF TypeOK, FeedInv, Receiver
<1> QED
  BY <1>5, <1>6

\* The sync client sends each block of its range at most once, in order.
LEMMA SyncMessages ==
    ASSUME IInv, SyncStep
    PROVE  MessagesInv'
<1> USE DEF IInv
<1>1. /\ UNCHANGED <<opt, chain, head, first, pos, light>> /\ first = head + 1
  BY Zenon
     DEF SyncStep, SyncChecks, SyncHeader, SyncUnsampled, SyncSampled, SyncSends, SyncAchieves,
     SyncEnds, SyncKeeps, SyncAt, Running, FeedInv
<1>2. /\ SyncRange' = SyncRange /\ LightDone' = LightDone
      /\ \A n : Extension(n)' <=> Extension(n)
  BY <1>1 DEF SyncRange, LightDone, Extension, extract_kate, HasDimensions
<1>3. /\ sync.num \in Nat /\ sync'.num \in Nat /\ sync'.num >= sync.num
      /\ sync.pc = "done" /\ sync'.pc # "done" => sync'.num > sync.num
  <2>1. sync.num \in Nat
    BY DEF TypeOK
  <2>2. CASE sync.pc = "done"
    <3>1. sync' = sync \/ sync' = [pc |-> "check", num |-> sync.num + 1]
      BY <2>2, Zenon DEF SyncStep, SyncChecks, SyncHeader, SyncUnsampled, SyncSampled, SyncSends,
         SyncAchieves, SyncEnds, SyncAt, SyncNext
    <3> QED
      BY <2>1, <3>1
  <2>3. CASE sync.pc # "done"
    <3>1. sync'.num = sync.num \/ sync'.num = sync.num + 1
      BY SyncMoves DEF TypeOK
    <3> QED
      BY <2>1, <2>3, <3>1
  <2> QED
    BY <2>2, <2>3
<1>4. head \in Nat /\ Len(blocks) \in Nat /\ \A i \in 1..Len(blocks) : blocks[i].num \in Nat
  BY MessageNumbers DEF TypeOK
<1>5. CASE ~SyncSends
  <2>1. blocks' = blocks
    BY <1>5, Zenon
       DEF SyncStep, SyncChecks, SyncHeader, SyncUnsampled, SyncSampled, SyncAchieves, SyncEnds
  <2>2. \A i \in 1..Len(blocks) :
            blocks[i].num <= head =>
                /\ blocks[i].num \in SyncRange
                /\ blocks[i].num <= sync'.num /\ (sync'.pc # "done" => blocks[i].num < sync'.num)
    BY <1>3, <1>4 DEF MessagesInv
  <2> QED
    BY <1>1, <1>2, <2>1, <2>2 DEF MessagesInv
<1>6. CASE SyncSends
  <2>1. /\ Len(blocks') = Len(blocks) + 1
        /\ \A i \in 1..Len(blocks) : blocks'[i] = blocks[i]
        /\ blocks'[Len(blocks) + 1].num = sync.num
    BY <1>6, SyncSendAppends DEF TypeOK
  <2>2. /\ sync.pc = "send" /\ sync'.pc = "done" /\ sync'.num = sync.num
        /\ sync.num \in SyncRange
    BY <1>6 DEF SyncSends, SyncAt, SyncGoto, TypeOK
  <2>3. sync.num <= head
    <3>1. sync.num < first
      BY <2>2 DEF SyncRange
    <3> QED
      BY <1>1, <1>3, <1>4, <3>1
  <2>4. \A i \in 1..Len(blocks') : i = Len(blocks) + 1 \/ i \in 1..Len(blocks)
    BY <1>4, <2>1
  <2>5. \A i \in 1..Len(blocks) : blocks[i].num <= head => blocks[i].num < sync.num
    BY <2>2 DEF MessagesInv
  <2>6. \A i \in 1..Len(blocks') : blocks'[i].num > head => blocks'[i].num <= head + LightDone
    BY <1>3, <1>4, <2>1, <2>3, <2>4 DEF MessagesInv
  <2>7. \A i, j \in 1..Len(blocks') :
           (i < j /\ (blocks'[i].num > head <=> blocks'[j].num > head))
              => blocks'[i].num < blocks'[j].num
    <3>1. \A i, j \in 1..Len(blocks) :
             (i < j /\ (blocks[i].num > head <=> blocks[j].num > head)) => blocks[i].num < blocks[j].num
      BY DEF MessagesInv
    <3> SUFFICES ASSUME NEW i \in 1..Len(blocks'), NEW j \in 1..Len(blocks'), i < j,
                        blocks'[i].num > head <=> blocks'[j].num > head
                 PROVE  blocks'[i].num < blocks'[j].num
      OBVIOUS
    <3>2. i \in 1..Len(blocks) /\ blocks'[i].num = blocks[i].num
      BY <1>4, <2>1
    <3>3. CASE j \in 1..Len(blocks)
      BY <2>1, <3>1, <3>2, <3>3
    <3>4. CASE j = Len(blocks) + 1
      <4>1. blocks'[j].num = sync.num /\ ~(sync.num > head)
        BY <1>3, <1>4, <2>1, <2>3, <3>4
      <4>2. blocks[i].num <= head
        BY <1>4, <3>2, <4>1
      <4> QED
        BY <2>5, <3>2, <4>1, <4>2
    <3> QED
      BY <2>4, <3>3, <3>4
  <2>8. \A m \in 1..LightDone :
           Extension(head + m) => \E i \in 1..Len(blocks') : blocks'[i].num = head + m
    <3>1. \A i \in 1..Len(blocks) : i \in 1..Len(blocks') /\ blocks'[i].num = blocks[i].num
      BY <1>4, <2>1
    <3> QED
      BY <3>1 DEF MessagesInv
  <2>9. \A i \in 1..Len(blocks') :
           blocks'[i].num <= head =>
               blocks'[i].num \in SyncRange /\ blocks'[i].num <= sync'.num
    BY <1>3, <2>1, <2>2, <2>4 DEF MessagesInv
  <2> QED
    BY <1>1, <1>2, <2>2, <2>6, <2>7, <2>8, <2>9 DEF MessagesInv
<1> QED
  BY <1>5, <1>6

LEMMA SyncPreserves ==
    ASSUME IInv, SyncStep
    PROVE  IInv'
<1> USE DEF IInv
<1>1. TypeOK' /\ FeedInv'
  BY SyncTypes
<1>2. MessagesInv'
  BY SyncMessages
<1>3. /\ UNCHANGED <<chain, head, pos, light, app>>
      /\ db.cells \subseteq db'.cells /\ db'.data = db.data
      /\ state'.confidence_achieved = state.confidence_achieved
      /\ state'.data_verified = state.data_verified
      /\ state'.sync_data_verified = state.sync_data_verified
  <2>1. UNCHANGED <<chain, head, pos, light, app>>
    BY Zenon
       DEF SyncStep, SyncChecks, SyncHeader, SyncUnsampled, SyncSampled, SyncSends, SyncAchieves,
       SyncEnds, SyncKeeps
  <2>2. /\ state'.confidence_achieved = state.confidence_achieved
        /\ state'.data_verified = state.data_verified
        /\ state'.sync_data_verified = state.sync_data_verified
    BY ZenonT(30)
       DEF SyncStep, SyncChecks, SyncHeader, SyncUnsampled, SyncSampled, SyncSends, SyncAchieves,
       SyncEnds, TypeOK, InitialState
  <2>3. db.cells \subseteq db'.cells /\ db'.data = db.data
    <3>1. \/ db' = db
          \/ db' = [db EXCEPT !.header = db.header \cup {sync.num}]
          \/ db' = [db EXCEPT !.cells = db.cells \cup {sync.num}]
      BY Zenon
         DEF SyncStep, SyncChecks, SyncHeader, SyncUnsampled, SyncSampled, SyncSends, SyncAchieves,
         SyncEnds
    <3>2. DOMAIN db = {"header", "cells", "data"}
      BY DEF TypeOK
    <3>3. CASE db' = db
      BY <3>3
    <3>4. CASE db' = [db EXCEPT !.header = db.header \cup {sync.num}]
      BY <3>2, <3>4
    <3>5. CASE db' = [db EXCEPT !.cells = db.cells \cup {sync.num}]
      BY <3>2, <3>5
    <3> QED
      BY <3>1, <3>3, <3>4, <3>5
  <2> QED
    BY <2>1, <2>2, <2>3
<1>4. AppDone' = AppDone
  BY <1>3 DEF AppDone
<1>5. \A i \in 1..AppDone : blocks'[i].num = blocks[i].num
  <2>1. \A i \in 1..Len(blocks) : blocks'[i] = blocks[i]
    BY SyncSendAppends, Zenon
       DEF SyncStep, SyncChecks, SyncHeader, SyncUnsampled, SyncSampled, SyncAchieves,
       SyncEnds, TypeOK
  <2>2. AppDone \in Int /\ AppDone <= Len(blocks) /\ Len(blocks) \in Nat
    BY DEF AppDone, TypeOK, Receiver
  <2> QED
    BY <2>1, <2>2
<1>6. DataInv'
  BY <1>3, <1>4, <1>5, DataKept
<1>7. CountInv'
  BY <1>3, CountKept
<1> QED
  BY <1>1, <1>2, <1>6, <1>7
-----------------------------------------------------------------------------
(* The application client *)

\* set_data_verified_state moves one of the two ranges to the block.
LEMMA MarkedState ==
    ASSUME TypeOK, NEW n \in Block,
           state' = set_data_verified_state(state, n)
    PROVE  /\ DOMAIN state' = DOMAIN InitialState
           /\ state'.confidence_achieved = state.confidence_achieved
           /\ n \in SyncRange =>
                 /\ state'.sync_data_verified = RangeSet(state.sync_data_verified, n)
                 /\ state'.data_verified = state.data_verified
           /\ n \notin SyncRange =>
                 /\ state'.data_verified = RangeSet(state.data_verified, n)
                 /\ state'.sync_data_verified = state.sync_data_verified
<1>1. DOMAIN state = DOMAIN InitialState
  BY DEF TypeOK
<1>2. CASE n \in SyncRange
  BY <1>1, <1>2 DEF set_data_verified_state, InitialState
<1>3. CASE n \notin SyncRange
  BY <1>1, <1>3 DEF set_data_verified_state, InitialState
<1> QED
  BY <1>2, <1>3

LEMMA RangeMoves ==
    ASSUME NEW r \in BlockRange \cup {None}, NEW n \in Block
    PROVE  RangeSet(r, n) \in BlockRange /\ RangeSet(r, n).last = n
BY DEF RangeSet, BlockRange

\* Marking the block of the last message taken, once its data, if there is
\* any, is stored.
LEMMA MarkPreserves ==
    ASSUME IInv, NEW i \in 1..Len(blocks),
           state' = set_data_verified_state(state, blocks[i].num),
           UNCHANGED <<chain, head, blocks, db, opt, first>>, first = head + 1,
           AppDone' = i,
           \A j \in 1..i : HasData(blocks[j].num) => blocks[j].num \in db.data
    PROVE  DataInv'
<1> USE DEF IInv
<1> DEFINE n == blocks[i].num
<1>1. /\ n \in Block /\ n \in Nat /\ head \in Nat /\ Len(blocks) \in Nat
      /\ state' = set_data_verified_state(state, n)
  <2>1. blocks \in Seq(Message) /\ head \in Nat
    BY DEF TypeOK
  <2>2. blocks[i] \in Message /\ Len(blocks) \in Nat
    BY <2>1
  <2>3. n \in Block
    BY <2>2 DEF Message
  <2> QED
    BY <2>1, <2>2, <2>3, MessageNumbers
<1>2. \A m : HasData(m)' <=> HasData(m)
  BY DEF HasData, Extension, extract_kate, HasDimensions
<1> HIDE DEF n
<1>3. (\A j \in 1..AppDone : HasData(blocks[j].num) => blocks[j].num \in db.data)'
  BY <1>2
<1>4. CASE n \in SyncRange
  <2>1. n <= head
    BY <1>1, <1>4 DEF SyncRange
  <2>2. /\ state'.sync_data_verified = RangeSet(state.sync_data_verified, n)
        /\ state'.data_verified = state.data_verified
    BY <1>1, <1>4, MarkedState
  <2>3. state'.sync_data_verified.last = n
    <3>1. state.sync_data_verified \in BlockRange \cup {None}
      BY DEF TypeOK
    <3> QED
      BY <1>1, <2>2, <3>1, RangeMoves, ZenonT(30)
  <2> QED
    BY <1>2, <1>3, <2>1, <2>2, <2>3 DEF DataInv
<1>5. CASE n \notin SyncRange
  <2>1. n > head
    BY <1>1, <1>5 DEF MessagesInv, n
  <2>2. /\ state'.data_verified = RangeSet(state.data_verified, n)
        /\ state'.sync_data_verified = state.sync_data_verified
    BY <1>1, <1>5, MarkedState
  <2>3. state'.data_verified.last = n
    <3>1. state.data_verified \in BlockRange \cup {None}
      BY DEF TypeOK
    <3> QED
      BY <1>1, <2>2, <3>1, RangeMoves, ZenonT(30)
  <2>4. ASSUME NEW m \in Block, head < m, m <= n, HasData(m)
        PROVE  m \in db.data
    <3>1. m \in Nat /\ n <= head + LightDone
      BY <2>1 DEF Block, MessagesInv, n
    <3>2. LightDone \in Int
      BY DEF LightDone, TypeOK, Receiver
    <3>3. m - head \in 1..LightDone /\ head + (m - head) = m
      BY <1>1, <2>4, <3>1, <3>2
    <3>4. PICK j \in 1..Len(blocks) : blocks[j].num = m
      BY <2>4, <3>3 DEF MessagesInv, HasData
    <3>5. j <= i
      <4>1. i < j => n < m
        BY <2>1, <2>4, <3>4 DEF MessagesInv, n
      <4> QED
        BY <1>1, <2>4, <3>1, <4>1
    <3> QED
      BY <2>4, <3>4, <3>5
  <2> QED
    BY <1>2, <1>3, <2>2, <2>3, <2>4 DEF DataInv
<1> QED
  BY <1>4, <1>5

LEMMA AppTypes ==
    ASSUME TypeOK, FeedInv, AppStep
    PROVE  TypeOK' /\ FeedInv'
<1>1. /\ UNCHANGED <<opt, chain, head, events, blocks, first, light, sync>>
      /\ first # None
  BY Zenon
     DEF AppStep, AppReceives, AppStores, AppMarks, AppSends, AppFails, AppKeeps, AppAt, Running
<1>2. DOMAIN db' = DOMAIN db
  BY ZenonT(30) DEF AppStep, AppReceives, AppStores, AppMarks, AppSends, AppFails
<1>3. ASSUME NEW n \in Block, state' = set_data_verified_state(state, n)
      PROVE  /\ DOMAIN state' = DOMAIN InitialState
             /\ state'.confidence_achieved \in BlockRange \cup {None}
             /\ state'.data_verified \in BlockRange \cup {None}
             /\ state'.sync_data_verified \in BlockRange \cup {None}
  <2>1. /\ state.confidence_achieved \in BlockRange \cup {None}
        /\ state.data_verified \in BlockRange \cup {None}
        /\ state.sync_data_verified \in BlockRange \cup {None}
    BY DEF TypeOK
  <2> QED
    BY <1>3, <2>1, MarkedState, RangeMoves
<1>4. CASE AppReceives
  <2> DEFINE n == blocks[pos["app"] + 1].num
  <2>1. /\ pos["app"] \in Nat /\ pos["app"] < Len(blocks) /\ app.pc = "recv"
        /\ pos' = [pos EXCEPT !["app"] = pos["app"] + 1]
    BY <1>4 DEF AppReceives, AppAt, Ready, Take, TypeOK, Receiver
  <2>2. n \in Block
    <3>1. blocks[pos["app"] + 1] \in Message
      BY <2>1 DEF TypeOK
    <3> QED
      BY <3>1 DEF Message
  <2>3. /\ pos' \in [Receiver -> Nat] /\ pos'["app"] = pos["app"] + 1
        /\ pos'["light"] = pos["light"] /\ pos'["app"] <= Len(blocks)
    BY <2>1 DEF TypeOK, Receiver
  <2>4. \/ state' = state /\ app' = [pc |-> "process", num |-> n]
        \/ state' = set_data_verified_state(state, n) /\ app' = app
    BY <1>4 DEF AppReceives
  <2>5. /\ app' \in [pc : {"recv", "process", "mark", "send"}, num : Block]
        /\ app'.pc # "recv" => app'.num = blocks[pos'["app"]].num
    BY <2>1, <2>2, <2>3, <2>4 DEF TypeOK
  <2>6. /\ DOMAIN state' = DOMAIN InitialState
        /\ state'.confidence_achieved \in BlockRange \cup {None}
        /\ state'.data_verified \in BlockRange \cup {None}
        /\ state'.sync_data_verified \in BlockRange \cup {None}
    BY <1>3, <2>2, <2>4 DEF TypeOK
  <2> HIDE DEF n
  <2>7. TypeOK'
    BY <1>1, <1>2, <2>3, <2>5, <2>6 DEF TypeOK
  <2>8. FeedInv'
    BY <1>1, <2>1, <2>3, <2>5 DEF FeedInv
  <2> QED
    BY <2>7, <2>8
<1>5. CASE AppMarks
  <2>1. /\ state' = set_data_verified_state(state, app.num) /\ app.num \in Block
        /\ app' \in [pc : {"recv", "process", "mark", "send"}, num : Block]
        /\ app.pc = "mark" /\ app'.num = app.num /\ pos' = pos
    BY <1>5, Zenon DEF AppMarks, AppAt, TypeOK
  <2>2. TypeOK'
    BY <1>1, <1>2, <1>3, <2>1 DEF TypeOK
  <2>3. FeedInv'
    BY <1>1, <2>1 DEF FeedInv
  <2> QED
    BY <2>2, <2>3
<1>6. CASE AppStores \/ AppSends \/ AppFails
  <2>1. /\ app' \in [pc : {"recv", "process", "mark", "send"}, num : Block]
        /\ app'.pc # "recv" => app.pc # "recv"
        /\ app'.num = app.num /\ pos' = pos /\ state' = state
    BY <1>6, Zenon DEF AppStores, AppSends, AppFails, AppAt, TypeOK
  <2>2. TypeOK'
    BY <1>1, <1>2, <2>1 DEF TypeOK
  <2>3. FeedInv'
    BY <1>1, <2>1 DEF FeedInv
  <2> QED
    BY <2>2, <2>3
<1> QED
  BY <1>4, <1>5, <1>6 DEF AppStep

LEMMA AppPreserves ==
    ASSUME IInv, AppStep
    PROVE  IInv'
<1> USE DEF IInv
<1>1. TypeOK' /\ FeedInv'
  BY AppTypes
<1>2. /\ UNCHANGED <<opt, chain, head, blocks, first, light, sync>>
      /\ first = head + 1
  BY Zenon
     DEF AppStep, AppReceives, AppStores, AppMarks, AppSends, AppFails, AppKeeps, AppAt, Running,
     FeedInv
<1>3. pos'["light"] = pos["light"]
  BY Zenon DEF AppStep, AppReceives, AppStores, AppMarks, AppSends, AppFails, Take, TypeOK, Receiver
<1>4. MessagesInv'
  <2>1. LightDone' = LightDone
    BY <1>2, <1>3 DEF LightDone
  <2> QED
    BY <1>2, <2>1, MessagesKept
<1>5. CASE AppReceives
  <2> DEFINE i == pos["app"] + 1
  <2>1. /\ i \in 1..Len(blocks) /\ app.pc = "recv" /\ AppDone = i - 1 /\ i \in Nat
        /\ pos'["app"] = i /\ db' = db
    <3>1. /\ app.pc = "recv" /\ pos["app"] < Len(blocks) /\ db' = db
          /\ pos' = [pos EXCEPT !["app"] = pos["app"] + 1]
      BY <1>5 DEF AppReceives, AppAt, Ready, Take
    <3>2. pos \in [Receiver -> Nat] /\ "app" \in Receiver /\ Len(blocks) \in Nat
      BY DEF TypeOK, Receiver
    <3>3. AppDone = pos["app"]
      BY <3>1 DEF AppDone
    <3> QED
      BY <3>1, <3>2, <3>3
  <2>2. \A j \in 1..i : j = i \/ j \in 1..AppDone
    BY <2>1
  <2>3. \A j \in 1..(i - 1) : HasData(blocks[j].num) => blocks[j].num \in db.data
    BY <2>1 DEF DataInv
  <2>4. CASE HasData(blocks[i].num)
    <3>1. state' = state /\ app'.pc = "process"
      BY <1>5, <2>4 DEF AppReceives
    <3>2. AppDone' = AppDone
      BY <2>1, <3>1 DEF AppDone
    <3>3. DataInv'
      BY <1>2, <2>1, <3>1, <3>2, DataKept
    <3>4. CountInv'
      BY <1>2, <2>1, <3>1, CountKept
    <3> QED
      BY <1>1, <1>4, <3>3, <3>4
  <2>5. CASE ~HasData(blocks[i].num)
    <3>1. state' = set_data_verified_state(state, blocks[i].num) /\ app' = app
      BY <1>5, <2>5 DEF AppReceives
    <3>2. AppDone' = i
      BY <2>1, <3>1 DEF AppDone
    <3>3. \A j \in 1..i : HasData(blocks[j].num) => blocks[j].num \in db.data
      BY <2>1, <2>2, <2>3, <2>5, Zenon
    <3>4. blocks[i].num \in Block
      <4>1. blocks[i] \in Message
        BY <2>1 DEF TypeOK
      <4> QED
        BY <4>1 DEF Message
    <3> HIDE DEF i
    <3>5. DataInv'
      BY <1>2, <2>1, <3>1, <3>2, <3>3, MarkPreserves
    <3>6. CountInv'
      BY <1>2, <2>1, <3>1, <3>4, MarkedState, CountKept
    <3> QED
      BY <1>1, <1>4, <3>5, <3>6
  <2> QED
    BY <2>4, <2>5
<1>6. CASE AppMarks
  <2> DEFINE i == pos["app"]
  <2>1. /\ i \in 1..Len(blocks) /\ AppDone = i /\ AppDone' = i
        /\ app.num = blocks[i].num /\ app.num \in Block /\ db' = db
        /\ state' = set_data_verified_state(state, blocks[i].num)
    BY <1>6 DEF AppMarks, AppAt, AppDone, TypeOK, FeedInv, Receiver
  <2>2. \A j \in 1..i : HasData(blocks[j].num) => blocks[j].num \in db.data
    BY <2>1 DEF DataInv
  <2> HIDE DEF i
  <2>3. DataInv'
    BY <1>2, <2>1, <2>2, MarkPreserves
  <2>4. CountInv'
    BY <1>2, <2>1, MarkedState, CountKept
  <2> QED
    BY <1>1, <1>4, <2>3, <2>4
<1>7. CASE AppStores
  <2> DEFINE i == pos["app"]
  <2>1. /\ i \in Nat \ {0} /\ AppDone = i - 1 /\ AppDone' = i /\ app.num = blocks[i].num
        /\ state' = state
    BY <1>7 DEF AppStores, AppAt, AppDone, TypeOK, FeedInv, Receiver
  <2>2. db'.data = db.data \cup {app.num} /\ db'.cells = db.cells
    BY <1>7 DEF AppStores, TypeOK
  <2> HIDE DEF i
  <2>3. DataInv'
    <3>1. \A j \in 1..i : j = i \/ j \in 1..(i - 1)
      BY <2>1
    <3>2. \A m : HasData(m)' <=> HasData(m)
      BY <1>2 DEF HasData, Extension, extract_kate, HasDimensions
    <3>3. \A j \in 1..i : HasData(blocks[j].num) => blocks[j].num \in db'.data
      BY <2>1, <2>2, <3>1 DEF DataInv
    <3> QED
      BY <1>2, <2>1, <2>2, <3>2, <3>3 DEF DataInv
  <2>4. CountInv'
    BY <1>2, <2>1, <2>2, CountKept
  <2> QED
    BY <1>1, <1>4, <2>3, <2>4
<1>8. CASE AppSends \/ AppFails
  <2>1. state' = state /\ db' = db /\ AppDone' = AppDone
    BY <1>8, ZenonT(30) DEF AppSends, AppFails, AppAt, AppDone, TypeOK
  <2>2. DataInv' /\ CountInv'
    BY <1>2, <2>1, DataKept, CountKept
  <2> QED
    BY <1>1, <1>4, <2>2
<1> QED
  BY <1>5, <1>6, <1>7, <1>8 DEF AppStep
-----------------------------------------------------------------------------
(* The other steps *)

\* The state of a session that has just started.
Start ==
    /\ opt \in Options
    /\ head \in Heads /\ state = InitialState /\ events = <<>> /\ blocks = <<>>
    /\ pos = [r \in Receiver |-> 0] /\ first = None
    /\ light = [pc |-> "recv", num |-> 1, confidence |-> FALSE]
    /\ sync = [pc |-> "check", num |-> 1] /\ app = [pc |-> "recv", num |-> 1]
    /\ DOMAIN db = {"header", "cells", "data"}

LEMMA StartHolds == Start => IInv
<1> SUFFICES ASSUME Start PROVE IInv
  OBVIOUS
<1> USE DEF Start
<1>1. head \in Nat /\ head <= MaxBlock /\ 1 \in Block
  BY ClientsAssumption, StateAssumption DEF Block
<1>2. /\ state.confidence_achieved = None
      /\ state.data_verified = None /\ state.sync_data_verified = None
  BY DEF InitialState
<1>3. TypeOK
  BY <1>1, <1>2 DEF TypeOK, Receiver
<1>4. LightDone = 0 /\ AppDone = 0
  <2>1. light.pc = "recv" /\ app.pc = "recv" /\ pos["light"] = 0 /\ pos["app"] = 0
    BY DEF Receiver
  <2> QED
    BY <2>1 DEF LightDone, AppDone
<1>5. FeedInv
  BY <1>2 DEF FeedInv
<1>6. MessagesInv
  BY <1>4 DEF MessagesInv
<1>7. DataInv
  BY <1>2, <1>4 DEF DataInv
<1>8. CountInv
  BY <1>2 DEF CountInv, LatestIsAchieved, latest_block
<1> QED
  BY <1>3, <1>5, <1>6, <1>7, <1>8 DEF IInv

LEMMA AnnouncePreserves ==
    ASSUME IInv, Announce
    PROVE  IInv'
<1> USE DEF IInv
<1>1. PICK n \in Block : n = Tip + 1 /\ events' = Append(events, n)
  BY DEF Announce
<1>2. /\ UNCHANGED <<opt, chain, db, head, blocks, pos, first, light, sync, app>>
      /\ DOMAIN state' = DOMAIN InitialState
      /\ state'.confidence_achieved = state.confidence_achieved
      /\ state'.data_verified = state.data_verified
      /\ state'.sync_data_verified = state.sync_data_verified
  BY DEF Announce, taskVars, TypeOK, InitialState
<1>3. events \in Seq(Block) /\ head \in Nat /\ Len(events) \in Nat
  BY DEF TypeOK
<1>4. /\ events' \in Seq(Block) /\ Len(events') = Len(events) + 1
      /\ \A i \in 1..Len(events') : i = Len(events) + 1 \/ (i \in 1..Len(events) /\ events'[i] = events[i])
      /\ events'[Len(events) + 1] = n
  BY <1>1, <1>3
<1>5. n = head + (Len(events) + 1)
  <2>1. CASE events = <<>>
    BY <1>1, <1>3, <2>1 DEF Tip
  <2>2. CASE events # <<>>
    <3>1. Tip = events[Len(events)] /\ Len(events) \in 1..Len(events)
      BY <1>3, <2>2 DEF Tip
    <3>2. Tip = head + Len(events)
      BY <3>1 DEF FeedInv
    <3> QED
      BY <1>1, <1>3, <3>2
  <2> QED
    BY <2>1, <2>2
<1>6. TypeOK'
  <2>1. pos["light"] <= Len(events')
    BY <1>4, <1>3 DEF TypeOK, Receiver
  <2> QED
    BY <1>2, <1>4, <2>1, SMTT(30) DEF TypeOK
<1>7. FeedInv'
  <2>1. \A i \in 1..Len(events') : events'[i] = head + i
    BY <1>4, <1>5 DEF FeedInv
  <2> QED
    BY <1>2, <2>1 DEF FeedInv
<1>8. LightDone' = LightDone /\ AppDone' = AppDone
  BY <1>2 DEF LightDone, AppDone
<1>9. MessagesInv' /\ DataInv' /\ CountInv'
  BY <1>2, <1>8, MessagesKept, DataKept, CountKept
<1> QED
  BY <1>6, <1>7, <1>9

LEMMA StartType ==
    ASSUME TypeOK, opt.start # None
    PROVE  opt.start \in Nat
<1>1. opt \in [app : BOOLEAN, fat : BOOLEAN, start : Block \cup {None}]
  BY ClientsAssumption DEF TypeOK
<1>2. opt.start \in Block
  BY <1>1
<1> QED
  BY <1>2 DEF Block

LEMMA SpawnPreserves ==
    ASSUME IInv, Spawn
    PROVE  IInv'
<1> USE DEF IInv
<1>1. /\ UNCHANGED <<opt, chain, db, head, events, blocks, pos, light, app>>
      /\ first = None /\ events # <<>> /\ first' = events[1]
      /\ blocks = <<>>
  BY DEF Spawn, channelVars, FeedInv
<1>2. /\ DOMAIN state' = DOMAIN InitialState
      /\ state'.confidence_achieved = None
      /\ state'.data_verified = None /\ state'.sync_data_verified = None
  BY DEF Spawn, TypeOK, InitialState, FeedInv
<1>3. sync'.pc = sync.pc /\ sync' \in [pc : {"check", "header", "sample", "send", "done"}, num : Nat]
  <2>1. opt.start # None => opt.start \in Nat
    BY StartType
  <2> QED
    BY <2>1, SMTT(30) DEF Spawn, TypeOK
<1>4. TypeOK'
  BY <1>1, <1>2, <1>3 DEF TypeOK
<1>5. FeedInv'
  <2>1. 1 \in 1..Len(events)
    <3>1. events \in Seq(Block) /\ events # <<>>
      BY <1>1, Zenon DEF TypeOK
    <3> QED
      BY <3>1
  <2>2. first' = head + 1
    BY <1>1, <2>1, Zenon DEF FeedInv
  <2>3. first' # None
    <3>1. events \in Seq(Block)
      BY Zenon DEF TypeOK
    <3>2. first' \in Block
      BY <1>1, <2>1, <3>1
    <3> QED
      BY <3>2, StateAssumption
  <2> QED
    BY <1>1, <2>2, <2>3, SMTT(30) DEF FeedInv
<1>6. LightDone' = 0 /\ AppDone' = 0
  BY <1>1 DEF LightDone, AppDone, FeedInv, Receiver
<1>7. MessagesInv'
  BY <1>1, <1>6 DEF MessagesInv
<1>8. DataInv'
  BY <1>2, <1>6 DEF DataInv
<1>9. CountInv'
  <2>1. light.pc = "recv"
    BY <1>1 DEF FeedInv
  <2> QED
    BY <1>1, <1>2, <2>1 DEF CountInv, LatestIsAchieved, latest_block
<1> QED
  BY <1>4, <1>5, <1>7, <1>8, <1>9

LEMMA OtherPreserves ==
    ASSUME IInv, Publisher \/ NewHeader \/ UNCHANGED vars
    PROVE  IInv'
<1> USE DEF IInv
<1>1. /\ UNCHANGED <<opt, chain, db, head, events, blocks, first, light, sync, app>>
      /\ DOMAIN state' = DOMAIN InitialState
      /\ state'.confidence_achieved = state.confidence_achieved
      /\ state'.data_verified = state.data_verified
      /\ state'.sync_data_verified = state.sync_data_verified
  BY ZenonT(30) DEF Publisher, NewHeader, vars, channelVars, taskVars, TypeOK, InitialState
<1>2. /\ pos' \in [Receiver -> Nat]
      /\ pos'["light"] = pos["light"] /\ pos'["app"] = pos["app"]
      /\ first = None => pos' = pos
  <2>1. pos \in [Receiver -> Nat]
    BY DEF TypeOK
  <2>2. pos' = pos \/ (first # None /\ pos' = [pos EXCEPT !["publisher"] = pos["publisher"] + 1])
    BY Zenon DEF Publisher, NewHeader, vars, channelVars, Take, Running
  <2> QED
    BY <2>1, <2>2 DEF Receiver
<1>3. TypeOK' /\ FeedInv'
  <2>1. TypeOK'
    BY <1>1, <1>2, ZenonT(30) DEF TypeOK
  <2>2. FeedInv'
    BY <1>1, <1>2, ZenonT(30) DEF FeedInv
  <2> QED
    BY <2>1, <2>2
<1>4. LightDone' = LightDone /\ AppDone' = AppDone
  BY <1>1, <1>2, ZenonT(30) DEF LightDone, AppDone
<1>5. MessagesInv' /\ DataInv' /\ CountInv'
  BY <1>1, <1>4, MessagesKept, DataKept, CountKept, Zenon
<1> QED
  BY <1>3, <1>5

LEMMA RestartPreserves ==
    ASSUME IInv, Restart
    PROVE  IInv'
<1>1. Start'
  BY DEF Start, Restart, IInv, TypeOK
<1> QED
  BY <1>1, StartHolds, PTL

LEMMA Preserved == IInv /\ [Next]_vars => IInv'
<1> SUFFICES ASSUME IInv, [Next]_vars PROVE IInv'
  OBVIOUS
<1> QED
  BY LightPreserves, SyncPreserves, AppPreserves, AnnouncePreserves, SpawnPreserves, OtherPreserves,
     RestartPreserves DEF Next

\* The inductive invariant of the client tasks.
THEOREM InductiveInvariant == Spec => []IInv
<1>1. Init => IInv
  <2>1. Init => Start
    BY DEF Init, Start
  <2> QED
    BY <2>1, StartHolds
<1> QED
  BY <1>1, Preserved, PTL DEF Spec

\* latest_block and status of the v1 API agree: the light client stores a count
\* before it moves the range, in any session and after any crash.
THEOREM LatestAchieved == Spec => []LatestIsAchieved
<1>1. IInv => LatestIsAchieved
  BY DEF IInv, CountInv
<1> QED
  BY <1>1, InductiveInvariant, PTL

\* A live block is reported finished only when its data is stored, however the
\* three clients interleave and whatever capacity the channels have.
THEOREM FinishedStored == Spec => []FinishedHasData
<1>1. IInv => FinishedHasData
  <2> SUFFICES ASSUME IInv, first # None, NEW n \in Block, first <= n, HasData(n), block(n) = "finished"
               PROVE  n \in db.data
    BY DEF FinishedHasData, block_data, appdata
  <2> USE DEF IInv
  <2>1. first = head + 1 /\ head \in Nat /\ n \in Nat /\ head < n
    BY DEF FeedInv, TypeOK, Block
  <2>2. block_status(n) = "finished"
    BY StateAssumption DEF block, BlockStatus
  <2>3. \/ RangeContains(state.sync_data_verified, n)
        \/ RangeContains(state.data_verified, n)
    BY <2>2, StateAssumption DEF block_status, Progress, BlockStatus
  <2>4. CASE RangeContains(state.sync_data_verified, n)
    <3>1. /\ state.sync_data_verified # None
          /\ n <= state.sync_data_verified.last /\ state.sync_data_verified.last <= head
      BY <2>4 DEF RangeContains, DataInv
    <3>2. state.sync_data_verified.last \in Nat
      BY <3>1 DEF TypeOK, BlockRange, Block
    <3> QED
      BY <2>1, <3>1, <3>2
  <2>5. CASE RangeContains(state.data_verified, n)
    BY <2>1, <2>5 DEF RangeContains, DataInv
  <2> QED
    BY <2>3, <2>4, <2>5
<1> QED
  BY <1>1, InductiveInvariant, PTL
-----------------------------------------------------------------------------
(* Historical sync *)

\* What leaves SyncInv alone.
LEMMA SyncKept ==
    ASSUME SyncInv, UNCHANGED <<opt, first, head>>,
           sync.num \in Nat, sync'.num \in Nat, sync'.num >= sync.num,
           opt.start # None => opt.start \in Nat, first # None => first \in Nat,
           ended \subseteq ended', state'.synced = state.synced,
           AppDone \in Int, AppDone' \in Int, AppDone <= AppDone',
           \A i \in 1..AppDone : blocks'[i].num = blocks[i].num
    PROVE  SyncInv'
<1>1. SyncRange' = SyncRange
  BY Zenon DEF SyncRange
<1>2. (first' # None /\ opt'.start # None) => sync'.num >= opt'.start
  <2>1. (first # None /\ opt.start # None) => sync.num >= opt.start
    BY Zenon DEF SyncInv
  <2> QED
    BY <2>1
<1>3. (first' # None /\ ~opt'.app) => "app" \in ended'
  BY DEF SyncInv
<1>4. state'.synced = TRUE =>
         /\ SyncRange' # {}
         /\ IF opt'.app THEN \E i \in 1..AppDone' : blocks'[i].num = head' ELSE sync'.num >= first'
  <2> SUFFICES ASSUME state'.synced = TRUE
               PROVE  /\ SyncRange' # {}
                      /\ IF opt'.app THEN \E i \in 1..AppDone' : blocks'[i].num = head'
                                     ELSE sync'.num >= first'
    BY Zenon
  <2>1. /\ SyncRange # {}
        /\ IF opt.app THEN \E i \in 1..AppDone : blocks[i].num = head ELSE sync.num >= first
    BY DEF SyncInv
  <2>2. \A i \in 1..AppDone : i \in 1..AppDone'
    OBVIOUS
  <2>3. first # None
    BY <2>1 DEF SyncRange
  <2> QED
    BY <1>1, <2>1, <2>2, <2>3
<1> QED
  BY <1>2, <1>3, <1>4 DEF SyncInv

\* The facts about types that SyncKept asks for.
LEMMA SyncKeptTypes ==
    ASSUME IInv
    PROVE  /\ sync.num \in Nat /\ head \in Nat
           /\ opt.start # None => opt.start \in Nat
           /\ first # None => first \in Nat /\ first = head + 1
           /\ AppDone \in Int /\ AppDone <= Len(blocks) /\ Len(blocks) \in Nat
<1> USE DEF IInv
<1>1. sync.num \in Nat /\ head \in Nat
  BY DEF TypeOK
<1>2. opt.start # None => opt.start \in Nat
  BY StartType
<1>3. first # None => first \in Nat /\ first = head + 1
  BY <1>1 DEF FeedInv
<1>4. AppDone \in Int /\ AppDone <= Len(blocks) /\ Len(blocks) \in Nat
  BY DEF AppDone, TypeOK, Receiver
<1> QED
  BY <1>1, <1>2, <1>3, <1>4

LEMMA SyncedByLight ==
    ASSUME IInv, SyncInv, LightStep
    PROVE  SyncInv'
<1>1. /\ UNCHANGED <<opt, first, head, sync>> /\ ended \subseteq ended'
  BY Zenon DEF LightStep, LightLags, LightReceives, LightIncomplete, LightSkips, LightSampled,
     LightAchieves, LightStores, FatStores, FatUploads, LightFails, LightSends, LightKeeps, Return
<1>2. state'.synced = state.synced
  <2>1. \/ state' = state
        \/ \E v : state' = [state EXCEPT !.confidence_achieved = v]
    BY Zenon DEF LightStep, LightLags, LightReceives, LightIncomplete, LightSkips, LightSampled,
       LightAchieves, LightStores, FatStores, FatUploads, LightFails, LightSends
  <2>2. DOMAIN state = DOMAIN InitialState
    BY DEF IInv, TypeOK
  <2> QED
    BY <2>1, <2>2 DEF InitialState
<1>3. AppDone' = AppDone
  <2>1. app' = app /\ pos'["app"] = pos["app"]
    BY Zenon DEF LightStep, LightLags, LightReceives, LightIncomplete, LightSkips, LightSampled,
       LightAchieves, LightStores, FatStores, FatUploads, LightFails, LightSends, LightKeeps, Take,
       IInv, TypeOK, Receiver
  <2> QED
    BY <2>1 DEF AppDone
<1>4. \A i \in 1..Len(blocks) : blocks'[i] = blocks[i]
  <2>1. blocks' = blocks \/ Send(light.num, light.confidence)
    BY Zenon DEF LightStep, LightLags, LightReceives, LightIncomplete, LightSkips, LightSampled,
       LightAchieves, LightStores, FatStores, FatUploads, LightFails, LightSends
  <2>2. light.num \in Block /\ light.confidence \in BOOLEAN /\ blocks \in Seq(Message)
    BY DEF IInv, TypeOK
  <2> QED
    BY <2>1, <2>2, SendAppends
<1>5. \A i \in 1..AppDone : blocks'[i].num = blocks[i].num
  BY <1>4, SyncKeptTypes
<1> QED
  BY <1>1, <1>2, <1>3, <1>5, SyncKeptTypes, SyncKept

\* The sync client sets synced only past its range, which starts at
\* sync_start_block.
LEMMA SyncedBySync ==
    ASSUME IInv, SyncInv, SyncStep
    PROVE  SyncInv'
<1>1. UNCHANGED <<opt, first, head, pos, app>> /\ ended \subseteq ended' /\ first # None
  BY Zenon
     DEF SyncStep, SyncChecks, SyncHeader, SyncUnsampled, SyncSampled, SyncSends, SyncAchieves,
     SyncEnds, SyncKeeps, Return, SyncAt, Running
<1>2. sync'.num \in Nat /\ sync'.num >= sync.num
  <2>1. sync'.num = sync.num \/ sync'.num = sync.num + 1
    BY SyncMoves DEF IInv, TypeOK
  <2> QED
    BY <2>1, SyncKeptTypes
<1>3. AppDone' = AppDone
  BY <1>1 DEF AppDone
<1>4. \A i \in 1..AppDone : blocks'[i].num = blocks[i].num
  <2>1. \A i \in 1..Len(blocks) : blocks'[i] = blocks[i]
    BY SyncSendAppends, ZenonT(30)
       DEF SyncStep, SyncChecks, SyncHeader, SyncUnsampled, SyncSampled, SyncAchieves,
       SyncEnds, IInv, TypeOK
  <2> QED
    BY <2>1, SyncKeptTypes
<1>5. CASE state'.synced = state.synced
  BY <1>1, <1>2, <1>3, <1>4, <1>5, SyncKeptTypes, SyncKept
<1>6. CASE state'.synced # state.synced
  <2>1. SyncEnds
    <3>1. DOMAIN state = DOMAIN InitialState
      BY DEF IInv, TypeOK
    <3> QED
      BY <1>6, <3>1, Zenon
         DEF SyncStep, SyncChecks, SyncHeader, SyncUnsampled, SyncSampled, SyncSends,
         SyncAchieves, InitialState
  <2>2. SyncRange # {} /\ ~opt.app /\ sync.num \notin SyncRange /\ sync' = sync
    <3>1. DOMAIN state = DOMAIN InitialState
      BY DEF IInv, TypeOK
    <3> QED
      BY <1>6, <2>1, <3>1, Zenon DEF SyncEnds, InitialState
  <2>3. opt.start # None /\ opt.start \in Block /\ sync.num >= opt.start
    <3>1. opt.start # None
      BY <2>2 DEF SyncRange
    <3>2. opt \in [app : BOOLEAN, fat : BOOLEAN, start : Block \cup {None}]
      BY ClientsAssumption DEF IInv, TypeOK
    <3> QED
      BY <1>1, <3>1, <3>2 DEF SyncInv
  <2>4. sync.num >= first
    <3>1. SyncRange = {n \in Block : opt.start <= n /\ n < first}
      BY <1>1, <2>3 DEF SyncRange
    <3>2. head <= MaxBlock /\ MaxBlock \in Nat
      BY StateAssumption DEF IInv, TypeOK
    <3>3. sync.num < first => sync.num \in Block
      BY <1>1, <2>3, <3>2, SyncKeptTypes DEF Block
    <3> QED
      BY <1>1, <2>2, <2>3, <3>1, <3>3, SyncKeptTypes
  <2>5. SyncRange' = SyncRange
    BY <1>1 DEF SyncRange
  <2> QED
    BY <1>1, <2>2, <2>3, <2>4, <2>5 DEF SyncInv
<1> QED
  BY <1>5, <1>6

\* synced after a block is marked: set only at the last block of the range.
LEMMA MarkedSynced ==
    ASSUME IInv, SyncInv, NEW i \in 1..Len(blocks),
           state' = set_data_verified_state(state, blocks[i].num),
           UNCHANGED <<opt, first, head, blocks, sync, ended>>, first # None, opt.app,
           AppDone <= i, AppDone' = i
    PROVE  SyncInv'
<1>1. \A j \in 1..AppDone : blocks'[j].num = blocks[j].num
  OBVIOUS
<1>2. i \in Int
  OBVIOUS
<1>3. DOMAIN state = DOMAIN InitialState
  BY DEF IInv, TypeOK
<1>4. CASE state'.synced = state.synced
  BY <1>1, <1>2, <1>4, SyncKeptTypes, SyncKept
<1>5. CASE state'.synced # state.synced
  <2>1. blocks[i].num \in SyncRange /\ blocks[i].num + 1 = first
    BY <1>3, <1>5, Zenon DEF set_data_verified_state, InitialState
  <2>2. blocks[i].num \in Nat
    <3>1. SyncRange \subseteq Nat
      BY DEF SyncRange, Block
    <3> QED
      BY <2>1, <3>1, Zenon
  <2>3. blocks[i].num = head
    <3>1. head \in Nat /\ first = head + 1
      BY SyncKeptTypes, Zenon
    <3> DEFINE m == blocks[i].num
    <3>2. m \in Nat /\ m + 1 = head + 1
      BY <2>1, <2>2, <3>1, Zenon
    <3> HIDE DEF m
    <3>3. m = head
      BY <3>1, <3>2
    <3> QED
      BY <3>3 DEF m
  <2>4. SyncRange' = SyncRange
    BY DEF SyncRange
  <2>5. \E j \in 1..AppDone' : blocks'[j].num = head'
    BY <1>2, <2>3
  <2> QED
    BY <2>1, <2>4, <2>5 DEF SyncInv
<1> QED
  BY <1>4, <1>5

LEMMA SyncedByApp ==
    ASSUME IInv, SyncInv, AppStep
    PROVE  SyncInv'
<1>1. /\ UNCHANGED <<opt, first, head, blocks, sync>> /\ ended \subseteq ended' /\ first # None
      /\ "app" \notin ended
  BY DEF AppStep, AppReceives, AppStores, AppMarks, AppSends, AppFails, AppKeeps, AppAt, Running,
     Return
<1>2. opt.app
  BY <1>1 DEF SyncInv
<1>3. pos \in [Receiver -> Nat] /\ "app" \in Receiver
  BY DEF IInv, TypeOK, Receiver
<1>4. CASE AppReceives
  <2> DEFINE i == pos["app"] + 1
  <2>1. /\ i \in 1..Len(blocks) /\ app.pc = "recv" /\ AppDone = i - 1 /\ pos'["app"] = i
        /\ i \in Nat /\ ended' = ended
    <3>1. /\ app.pc = "recv" /\ pos["app"] < Len(blocks) /\ ended' = ended
          /\ pos' = [pos EXCEPT !["app"] = pos["app"] + 1]
      BY <1>4 DEF AppReceives, AppAt, Ready, Take
    <3>2. AppDone = pos["app"]
      BY <3>1 DEF AppDone
    <3> QED
      BY <1>3, <3>1, <3>2, SyncKeptTypes
  <2>2. CASE HasData(blocks[i].num)
    <3>1. state' = state /\ app'.pc = "process"
      BY <1>4, <2>2 DEF AppReceives
    <3>2. AppDone' = AppDone
      BY <2>1, <3>1 DEF AppDone
    <3> QED
      BY <1>1, <3>1, <3>2, SyncKeptTypes, SyncKept
  <2>3. CASE ~HasData(blocks[i].num)
    <3>1. state' = set_data_verified_state(state, blocks[i].num) /\ app' = app
      BY <1>4, <2>3 DEF AppReceives
    <3>2. AppDone' = i
      BY <2>1, <3>1 DEF AppDone
    <3> HIDE DEF i
    <3>3. AppDone <= i
      BY <2>1
    <3> QED
      BY <1>1, <1>2, <2>1, <3>1, <3>2, <3>3, MarkedSynced
  <2> QED
    BY <2>2, <2>3
<1>5. CASE AppMarks
  <2> DEFINE i == pos["app"]
  <2>1. /\ i \in 1..Len(blocks) /\ AppDone = i /\ AppDone' = i /\ AppDone <= i /\ ended' = ended
        /\ state' = set_data_verified_state(state, blocks[i].num)
    <3>1. /\ app.pc = "mark" /\ pos' = pos /\ ended' = ended
          /\ state' = set_data_verified_state(state, app.num) /\ app'.pc = "send"
      BY <1>5, SMTT(30) DEF AppMarks, AppAt, IInv, TypeOK
    <3>2. pos["app"] > 0 /\ app.num = blocks[pos["app"]].num /\ pos["app"] <= Len(blocks)
      BY <3>1, SMTT(30) DEF IInv, FeedInv, TypeOK
    <3>3. AppDone = pos["app"] /\ AppDone' = pos["app"]
      BY <3>1 DEF AppDone
    <3> QED
      BY <1>3, <3>1, <3>2, <3>3, SyncKeptTypes
  <2> HIDE DEF i
  <2> QED
    BY <1>1, <1>2, <2>1, MarkedSynced
<1>6. CASE AppStores \/ AppSends \/ AppFails
  <2>1. state' = state /\ pos' = pos
    BY <1>6, Zenon DEF AppStores, AppSends, AppFails
  <2>2. app.pc = "process" \/ app'.pc # "process"
    BY <1>6, ZenonT(30) DEF AppStores, AppSends, AppFails, AppAt, IInv, TypeOK
  <2>3. AppDone <= AppDone' /\ AppDone' \in Int
    BY <1>3, <2>1, <2>2 DEF AppDone
  <2> QED
    BY <1>1, <2>1, <2>3, SyncKeptTypes, SyncKept
<1> QED
  BY <1>4, <1>5, <1>6 DEF AppStep

LEMMA SyncedByOthers ==
    ASSUME IInv, SyncInv, Publisher \/ NewHeader \/ Announce \/ UNCHANGED vars
    PROVE  SyncInv'
<1>1. UNCHANGED <<opt, first, head, blocks, sync, app>> /\ ended \subseteq ended'
  BY DEF Publisher, NewHeader, Announce, vars, channelVars, taskVars, Return
<1>2. state'.synced = state.synced
  <2>1. DOMAIN state = DOMAIN InitialState
    BY DEF IInv, TypeOK
  <2> QED
    BY <2>1, Zenon DEF Publisher, NewHeader, Announce, vars, InitialState
<1>3. pos'["app"] = pos["app"]
  <2>1. pos \in [Receiver -> Nat]
    BY DEF IInv, TypeOK
  <2> QED
    BY <2>1, Zenon DEF Publisher, NewHeader, Announce, vars, channelVars, Take, Receiver
<1>4. AppDone' = AppDone
  BY <1>1, <1>3 DEF AppDone
<1> QED
  BY <1>1, <1>2, <1>4, SyncKeptTypes, SyncKept

\* Nothing is synced when a session starts or its tasks are spawned.
LEMMA SyncedAtSpawn ==
    ASSUME IInv, Spawn
    PROVE  SyncInv'
<1>1. state'.synced = (IF opt.start = None THEN None ELSE FALSE)
  <2>1. DOMAIN state = DOMAIN InitialState
    BY DEF IInv, TypeOK
  <2> QED
    BY <2>1 DEF Spawn, InitialState
<1>2. state'.synced # TRUE
  BY <1>1, StateAssumption, Zenon
<1>3. opt' = opt /\ (opt.start # None => sync'.num = opt.start)
  BY DEF Spawn, IInv, TypeOK
<1>4. opt.start # None => opt.start \in Nat
  BY SyncKeptTypes
<1>5. ~opt.app => "app" \in ended'
  BY DEF Spawn
<1>6. (first' # None /\ opt'.start # None) => sync'.num >= opt'.start
  BY <1>3, <1>4
<1>7. (first' # None /\ ~opt'.app) => "app" \in ended'
  BY <1>3, <1>5
<1> QED
  BY <1>2, <1>6, <1>7, Zenon DEF SyncInv

LEMMA SyncedAtStart == Start => SyncInv
<1> SUFFICES ASSUME Start PROVE SyncInv
  OBVIOUS
<1>1. state.synced = None /\ first = None
  BY DEF Start, InitialState
<1>2. state.synced # TRUE
  BY <1>1, StateAssumption, Zenon
<1> QED
  BY <1>1, <1>2, Zenon DEF SyncInv

LEMMA SyncPreserved == IInv /\ SyncInv /\ [Next]_vars => SyncInv'
<1> SUFFICES ASSUME IInv, SyncInv, [Next]_vars PROVE SyncInv'
  OBVIOUS
<1>1. CASE Restart
  <2>1. Start'
    BY <1>1 DEF Start, Restart, IInv, TypeOK
  <2> QED
    BY <2>1, SyncedAtStart, PTL
<1>2. CASE ~Restart
  BY <1>2, SyncedByLight, SyncedBySync, SyncedByApp, SyncedByOthers, SyncedAtSpawn DEF Next
<1> QED
  BY <1>1, <1>2

\* synced means what the API reports with it: the sync client is past its range
\* and, with an application client, the data of all it sent is stored.
THEOREM SyncedIsDone == Spec => []SyncedMeansDone
<1>1. Init => SyncInv
  <2>1. Init => Start
    BY DEF Init, Start
  <2> QED
    BY <2>1, SyncedAtStart
<1>2. IInv /\ SyncInv => SyncedMeansDone
  <2> SUFFICES ASSUME IInv, SyncInv, state.synced = TRUE
               PROVE  /\ SyncRange # {} /\ sync.num + 1 >= first
                      /\ opt.app => \A j \in DOMAIN blocks :
                            (blocks[j].num \in SyncRange /\ HasData(blocks[j].num))
                                => blocks[j].num \in db.data
    BY Zenon DEF SyncedMeansDone
  <2>1. /\ SyncRange # {} /\ first # None
        /\ IF opt.app THEN \E i \in 1..AppDone : blocks[i].num = head ELSE sync.num >= first
    BY DEF SyncInv, SyncRange
  <2>2. CASE ~opt.app
    BY <2>1, <2>2, SyncKeptTypes
  <2>3. CASE opt.app
    <3>1. PICK i \in 1..AppDone : blocks[i].num = head
      BY <2>1, <2>3
    <3>2. i \in 1..Len(blocks)
      BY <3>1, SyncKeptTypes, SMTT(30)
    <3>3. head <= sync.num
      <4>1. blocks[i].num <= head => blocks[i].num <= sync.num
        BY <3>2, Zenon DEF IInv, MessagesInv
      <4> QED
        BY <3>1, <4>1, SyncKeptTypes
    <3>4. ASSUME NEW j \in DOMAIN blocks, blocks[j].num \in SyncRange, HasData(blocks[j].num)
          PROVE  blocks[j].num \in db.data
      <4>1. j \in 1..Len(blocks)
        BY DEF IInv, TypeOK
      <4>2. blocks[j].num \in Nat /\ blocks[j].num < first
        BY <3>4 DEF SyncRange, Block
      <4>3. blocks[j].num <= head
        BY <2>1, <4>2, SyncKeptTypes, SMTT(30)
      <4>4. i < j => blocks[i].num < blocks[j].num
        <5>1. (i < j /\ (blocks[i].num > head <=> blocks[j].num > head)) => blocks[i].num < blocks[j].num
          BY <3>2, <4>1, Zenon DEF IInv, MessagesInv
        <5> QED
          BY <3>1, <4>2, <4>3, <5>1, SyncKeptTypes
      <4>5. j \in 1..AppDone
        BY <3>1, <3>2, <4>1, <4>2, <4>3, <4>4, SyncKeptTypes
      <4> QED
        BY <3>4, <4>5 DEF IInv, DataInv
    <3> QED
      BY <2>1, <3>3, <3>4, SyncKeptTypes
  <2> QED
    BY <2>2, <2>3
<1> QED
  BY <1>1, <1>2, SyncPreserved, InductiveInvariant, PTL DEF Spec
-----------------------------------------------------------------------------
(* The ranges and the status of a block *)

\* A range stays, or is moved forward to a block that is not above top.
Moves(r, s, top) ==
    \/ s = r
    \/ \E m \in Block : m <= top /\ (r # None => r.last <= m) /\ s = RangeSet(r, m)

\* A range stays, or is moved forward to the block of a message that the
\* application client took.
MovesTo(r, s, Kind(_)) ==
    \/ s = r
    \/ \E i \in 1..pos'["app"] :
          LET m == blocks'[i].num
          IN  m \in Block /\ Kind(m) /\ (r # None => r.last <= m) /\ s = RangeSet(r, m)

Live(m) == m > head
Historical(m) == m <= head

\* A step of a session: its tasks go forward, and each range with its task.
RangeStep ==
    /\ UNCHANGED <<opt, chain, head, first, restarts>>
    /\ db.header \subseteq db'.header /\ db.cells \subseteq db'.cells
    /\ received' \in Nat /\ head + Len(events') <= received'
    /\ state'.latest \in Nat /\ state.latest <= state'.latest /\ state'.latest <= received'
    /\ Len(events) <= Len(events') /\ sync.num <= sync'.num
    /\ pos["light"] <= pos'["light"] /\ pos["app"] <= pos'["app"]
    /\ \A i \in 1..pos["app"] : blocks'[i].num = blocks[i].num
    /\ Moves(state.header_verified, state'.header_verified, head + Len(events'))
    /\ Moves(state.confidence_achieved, state'.confidence_achieved, head + pos'["light"])
    /\ Moves(state.sync_header_verified, state'.sync_header_verified, sync'.num)
    /\ Moves(state.sync_confidence_achieved, state'.sync_confidence_achieved, sync'.num)
    /\ MovesTo(state.data_verified, state'.data_verified, Live)
    /\ MovesTo(state.sync_data_verified, state'.sync_data_verified, Historical)
    /\ first = None => /\ state'.sync_header_verified = state.sync_header_verified
                       /\ state'.sync_confidence_achieved = state.sync_confidence_achieved

\* A range that moves forward covers what it covered.
LEMMA MovedRange ==
    ASSUME NEW r \in BlockRange \cup {None}, NEW m \in Block, r # None => r.last <= m
    PROVE  /\ RangeSet(r, m) \in BlockRange /\ RangeSet(r, m) # None
           /\ RangeSet(r, m).last = m
           /\ r # None => RangeSet(r, m).first = r.first
           /\ \A n \in Block : RangeContains(r, n) => RangeContains(RangeSet(r, m), n)
<1>1. RangeSet(r, m) \in BlockRange /\ RangeSet(r, m).last = m
  BY RangeMoves
<1>2. RangeSet(r, m) # None
  BY <1>1, StateAssumption
<1>3. r # None => RangeSet(r, m).first = r.first
  BY DEF RangeSet, BlockRange
<1>4. ASSUME NEW n \in Block, RangeContains(r, n)
      PROVE  RangeContains(RangeSet(r, m), n)
  <2>1. r # None /\ r \in BlockRange /\ r.first <= n /\ n <= r.last
    BY <1>4 DEF RangeContains
  <2>2. n \in Nat /\ m \in Nat /\ r.last \in Nat
    BY <2>1 DEF Block, BlockRange
  <2>3. n <= m
    BY <2>1, <2>2
  <2> QED
    BY <1>1, <1>2, <1>3, <2>1, <2>3 DEF RangeContains
<1> QED
  BY <1>1, <1>2, <1>3, <1>4

\* What a forward move keeps of a range.
Extends(r, s) ==
    /\ s \in BlockRange \cup {None}
    /\ r # None => s # None /\ s.first = r.first /\ r.last <= s.last
    /\ \A n \in Block : RangeContains(r, n) => RangeContains(s, n)

LEMMA MovesExtend ==
    ASSUME NEW r \in BlockRange \cup {None}, NEW s, NEW top, Moves(r, s, top)
    PROVE  /\ Extends(r, s)
           /\ s = r \/ (s # None /\ s.last <= top)
<1>1. CASE s = r
  <2>1. r # None => r.last \in Nat
    BY DEF BlockRange, Block
  <2> QED
    BY <1>1, <2>1 DEF Extends
<1>2. CASE s # r
  <2>1. PICK m \in Block : m <= top /\ (r # None => r.last <= m) /\ s = RangeSet(r, m)
    BY <1>2 DEF Moves
  <2> QED
    BY <2>1, MovedRange DEF Extends
<1> QED
  BY <1>1, <1>2

LEMMA MovesToExtend ==
    ASSUME NEW r \in BlockRange \cup {None}, NEW s,
           MovesTo(r, s, Live) \/ MovesTo(r, s, Historical)
    PROVE  Extends(r, s)
<1>1. CASE s = r
  <2>1. r # None => r.last \in Nat
    BY DEF BlockRange, Block
  <2> QED
    BY <1>1, <2>1 DEF Extends
<1>2. CASE s # r
  <2>1. PICK i : /\ blocks'[i].num \in Block
                 /\ (r # None => r.last <= blocks'[i].num) /\ s = RangeSet(r, blocks'[i].num)
    BY <1>2 DEF MovesTo
  <2> QED
    BY <2>1, MovedRange DEF Extends
<1> QED
  BY <1>1, <1>2

LEMMA RankValues ==
    /\ Rank(None) = 0
    /\ \A s \in {"unavailable", "pending", "verifying-header"} : Rank(s) = 1
    /\ Rank("verifying-confidence") = 2 /\ Rank("verifying-data") = 3
    /\ Rank("incomplete") = 4 /\ Rank("finished") = 4
<1>1. \A s \in BlockStatus : s # None
  BY StateAssumption
<1> QED
  BY <1>1 DEF Rank, BlockStatus

LEMMA ProgressAdvances ==
    ASSUME NEW n \in Block, NEW d, NEW c, NEW h, NEW l, NEW d2, NEW c2, NEW h2, NEW l2,
           Extends(d, d2), Extends(c, c2), Extends(h, h2)
    PROVE  Rank(Progress(n, d, c, h, l)) <= Rank(Progress(n, d2, c2, h2, l2))
<1>1. /\ RangeContains(d, n) => RangeContains(d2, n)
      /\ RangeContains(c, n) => RangeContains(c2, n)
      /\ RangeContains(h, n) => RangeContains(h2, n)
  BY DEF Extends
<1> QED
  BY <1>1, RankValues DEF Progress

\* In a step of a session the answers of the API only move forward.
LEMMA AnswersAdvance ==
    ASSUME IInv, RangesInv, RangeStep, state.header_verified # None, NEW n \in Block
    PROVE  /\ Rank(block(n)) <= Rank(block(n)')
           /\ confidence_found(n) => confidence_found(n)'
<1>1. /\ Extends(state.header_verified, state'.header_verified)
      /\ Extends(state.confidence_achieved, state'.confidence_achieved)
      /\ Extends(state.sync_header_verified, state'.sync_header_verified)
      /\ Extends(state.sync_confidence_achieved, state'.sync_confidence_achieved)
      /\ Extends(state.data_verified, state'.data_verified)
      /\ Extends(state.sync_data_verified, state'.sync_data_verified)
  BY MovesExtend, MovesToExtend, ZenonT(30) DEF RangeStep, RangesInv, IInv, TypeOK
<1>2. confidence_found(n) => confidence_found(n)'
  <2>1. n \in Nat /\ db.cells \subseteq db'.cells
    <3>1. n \in Nat
      BY DEF Block
    <3> QED
      BY <3>1, Zenon DEF RangeStep
  <2>2. CASE n \in db.cells
    BY <2>1, <2>2 DEF confidence_found
  <2>3. CASE latest_block # None /\ n <= latest_block
    <3>1. state.confidence_achieved # None /\ n <= state.confidence_achieved.last
      BY <2>3 DEF latest_block
    <3>2. /\ state'.confidence_achieved # None /\ state'.confidence_achieved \in BlockRange
          /\ state.confidence_achieved \in BlockRange
          /\ state.confidence_achieved.last <= state'.confidence_achieved.last
      BY <1>1, <3>1, Zenon DEF Extends, IInv, TypeOK
    <3>3. /\ state'.confidence_achieved.last \in Block
          /\ state.confidence_achieved.last \in Nat /\ state'.confidence_achieved.last \in Nat
      BY <3>2 DEF BlockRange, Block
    <3>4. n <= state'.confidence_achieved.last /\ state'.confidence_achieved.last # None
      BY <2>1, <3>1, <3>2, <3>3, StateAssumption
    <3> QED
      BY <3>2, <3>4 DEF confidence_found, latest_block
  <2> QED
    BY <2>2, <2>3 DEF confidence_found
<1>3. /\ FirstBlock' = FirstBlock /\ FirstSyncBlock' = FirstSyncBlock
      /\ extract_kate(n)' <=> extract_kate(n)
  <2>1. /\ state'.header_verified # None
        /\ state'.header_verified.first = state.header_verified.first
    BY <1>1, Zenon DEF Extends
  <2>2. FirstBlock' = FirstBlock
    BY <2>1 DEF FirstBlock
  <2> QED
    BY <2>2, Zenon DEF FirstSyncBlock, extract_kate, RangeStep
<1>4. /\ Rank(Progress(n, state.data_verified, state.confidence_achieved, state.header_verified,
                       state.latest))
           <= Rank(Progress(n, state.data_verified, state.confidence_achieved, state.header_verified,
                            state.latest)')
      /\ Rank(Progress(n, state.sync_data_verified, state.sync_confidence_achieved,
                       state.sync_header_verified, state.sync_latest))
           <= Rank(Progress(n, state.sync_data_verified, state.sync_confidence_achieved,
                            state.sync_header_verified, state.sync_latest)')
  BY <1>1, ProgressAdvances, Zenon
<1>5. n > state'.latest => n > state.latest
  <2>1. n \in Nat /\ state.latest \in Nat /\ state'.latest \in Nat /\ state.latest <= state'.latest
    <3>1. n \in Nat
      BY DEF Block
    <3> QED
      BY <3>1, Zenon DEF RangeStep, RangesInv
  <2> QED
    BY <2>1
<1>6. \A d, c, h, l : Rank(Progress(n, d, c, h, l)) \in 1..4
  BY RankValues DEF Progress
<1>7. db.header \subseteq db'.header
  BY DEF RangeStep
<1>8. Rank(block(n)) <= Rank(block(n)')
  <2>1. CASE block(n) = None
    <3>1. Rank(block(n)') \in 0..4
      BY <1>6, RankValues DEF block, block_status
    <3> QED
      BY <2>1, <3>1, RankValues
  <2>2. CASE block(n) # None
    <3>1. n \in db.header /\ n \in db'.header /\ ~(n > state.latest) /\ ~(n > state'.latest)
      BY <1>5, <1>7, <2>2 DEF block, block_status
    <3>2. /\ block(n) = block_status(n)
          /\ block(n)' = block_status(n)'
      BY <3>1 DEF block
    <3>3. CASE n < FirstSyncBlock
      <4>1. block_status(n) = "unavailable" /\ block_status(n)' = "unavailable"
        BY <1>3, <3>1, <3>3, Zenon DEF block_status
      <4> QED
        BY <3>2, <4>1, RankValues
    <3>4. CASE ~(n < FirstSyncBlock) /\ ~extract_kate(n)
      <4>1. block_status(n) = "incomplete" /\ block_status(n)' = "incomplete"
        BY <1>3, <3>1, <3>4, Zenon DEF block_status
      <4> QED
        BY <3>2, <4>1, RankValues
    <3>5. CASE ~(n < FirstSyncBlock) /\ extract_kate(n) /\ n < FirstBlock
      <4>1. /\ block_status(n) = Progress(n, state.sync_data_verified, state.sync_confidence_achieved,
                                          state.sync_header_verified, state.sync_latest)
            /\ block_status(n)' = Progress(n, state.sync_data_verified, state.sync_confidence_achieved,
                                           state.sync_header_verified, state.sync_latest)'
        BY <1>3, <3>1, <3>5, Zenon DEF block_status
      <4> QED
        BY <1>4, <3>2, <4>1, Zenon
    <3>6. CASE ~(n < FirstSyncBlock) /\ extract_kate(n) /\ ~(n < FirstBlock)
      <4>1. /\ block_status(n) = Progress(n, state.data_verified, state.confidence_achieved,
                                          state.header_verified, state.latest)
            /\ block_status(n)' = Progress(n, state.data_verified, state.confidence_achieved,
                                           state.header_verified, state.latest)'
        BY <1>3, <3>1, <3>6, Zenon DEF block_status
      <4> QED
        BY <1>4, <3>2, <4>1, Zenon
    <3> QED
      BY <3>3, <3>4, <3>5, <3>6, Zenon
  <2> QED
    BY <2>1, <2>2
<1> QED
  BY <1>2, <1>8

\* The types that the steps below use.
LEMMA RangeTypes ==
    ASSUME IInv, RangesInv
    PROVE  /\ head \in Nat /\ Len(events) \in Nat /\ Len(blocks) \in Nat /\ received \in Nat
           /\ pos \in [Receiver -> Nat] /\ pos["light"] \in Nat /\ pos["app"] \in Nat
           /\ pos["app"] <= Len(blocks) /\ sync.num \in Nat
           /\ DOMAIN state = DOMAIN InitialState
           /\ DOMAIN db = {"header", "cells", "data"}
           /\ state.latest \in Nat /\ state.latest <= received /\ head + Len(events) <= received
<1>1. /\ head \in Nat /\ events \in Seq(Block) /\ blocks \in Seq(Message)
      /\ pos \in [Receiver -> Nat] /\ pos["app"] <= Len(blocks)
      /\ sync \in [pc : {"check", "header", "sample", "send", "done"}, num : Nat]
      /\ DOMAIN state = DOMAIN InitialState /\ DOMAIN db = {"header", "cells", "data"}
  BY Zenon DEF IInv, TypeOK
<1>2. /\ received \in Nat
      /\ state.latest \in Nat /\ state.latest <= received /\ head + Len(events) <= received
  BY Zenon DEF RangesInv
<1>3. Len(events) \in Nat /\ Len(blocks) \in Nat
  BY <1>1
<1>4. pos["light"] \in Nat /\ pos["app"] \in Nat
  BY <1>1 DEF Receiver
<1>5. sync.num \in Nat
  BY <1>1
<1> QED
  BY <1>1, <1>2, <1>3, <1>4, <1>5, Zenon

\* What a step that leaves the feed alone says of it.
LEMMA FeedStands ==
    ASSUME IInv, RangesInv, UNCHANGED <<head, received, events>>, state'.latest = state.latest
    PROVE  /\ received' \in Nat /\ head + Len(events') <= received'
           /\ state'.latest \in Nat /\ state.latest <= state'.latest /\ state'.latest <= received'
           /\ Len(events) <= Len(events')
<1>1. /\ head \in Nat /\ Len(events) \in Nat /\ received \in Nat
      /\ state.latest \in Nat /\ state.latest <= received /\ head + Len(events) <= received
  BY RangeTypes, Zenon
<1> QED
  BY <1>1

LEMMA MovesBounded ==
    ASSUME NEW r \in BlockRange \cup {None}, NEW s, NEW t1 \in Nat, NEW t2 \in Nat, t1 <= t2,
           Moves(r, s, t2), r # None => r.last <= t1
    PROVE  s \in BlockRange \cup {None} /\ (s # None => s.last <= t2)
<1>1. s \in BlockRange \cup {None} /\ (s = r \/ s.last <= t2)
  BY MovesExtend DEF Extends
<1>2. s = r /\ r # None => r.last \in Nat
  BY DEF BlockRange, Block
<1> QED
  BY <1>1, <1>2

\* The ranges stay behind their tasks.
LEMMA RangesKept ==
    ASSUME IInv, RangesInv, RangeStep, IInv'
    PROVE  RangesInv'
<1>1. /\ state.header_verified \in BlockRange \cup {None}
      /\ state.confidence_achieved \in BlockRange \cup {None}
      /\ state.sync_header_verified \in BlockRange \cup {None}
      /\ state.sync_confidence_achieved \in BlockRange \cup {None}
  BY Zenon DEF RangesInv, IInv, TypeOK
<1>2. /\ Len(events') \in Nat /\ pos'["light"] \in Nat /\ pos'["app"] \in Nat /\ sync'.num \in Nat
      /\ head' = head /\ first' = first /\ restarts' = restarts /\ restarts \in Nat
  <2>1. /\ events' \in Seq(Block) /\ pos' \in [Receiver -> Nat]
        /\ sync' \in [pc : {"check", "header", "sample", "send", "done"}, num : Nat]
    BY Zenon DEF IInv, TypeOK
  <2>2. head' = head /\ first' = first /\ restarts' = restarts /\ restarts \in Nat
    BY Zenon DEF RangeStep, RangesInv
  <2>3. pos'["light"] \in Nat /\ pos'["app"] \in Nat
    BY <2>1 DEF Receiver
  <2>4. Len(events') \in Nat /\ sync'.num \in Nat
    BY <2>1
  <2> QED
    BY <2>2, <2>3, <2>4
<1>3. /\ Len(events) <= Len(events') /\ sync.num <= sync'.num
      /\ pos["light"] <= pos'["light"] /\ pos["app"] <= pos'["app"]
      /\ \A i \in 1..pos["app"] : blocks'[i].num = blocks[i].num
  BY Zenon DEF RangeStep
<1>5. /\ state'.header_verified \in BlockRange \cup {None}
      /\ state'.header_verified # None => state'.header_verified.last <= head' + Len(events')
  <2>1. head + Len(events) \in Nat /\ head + Len(events') \in Nat /\ head + Len(events) <= head + Len(events')
    <3>1. head \in Nat /\ Len(events) \in Nat
      BY RangeTypes, Zenon
    <3>2. Len(events') \in Nat /\ Len(events) <= Len(events')
      BY <1>2, <1>3, Zenon
    <3> QED
      BY <3>1, <3>2
  <2>2. /\ Moves(state.header_verified, state'.header_verified, head + Len(events'))
        /\ state.header_verified # None => state.header_verified.last <= head + Len(events)
    BY Zenon DEF RangeStep, RangesInv
  <2>3. state.header_verified \in BlockRange \cup {None}
    BY <1>1
  <2>4. /\ state'.header_verified \in BlockRange \cup {None}
        /\ state'.header_verified # None => state'.header_verified.last <= head + Len(events')
    <3> DEFINE r == state.header_verified s == state'.header_verified
               t1 == head + Len(events) t2 == head + Len(events')
    <3>1. /\ r \in BlockRange \cup {None} /\ t1 \in Nat /\ t2 \in Nat /\ t1 <= t2
          /\ Moves(r, s, t2) /\ (r # None => r.last <= t1)
      BY <2>1, <2>2, <2>3, Zenon
    <3> HIDE DEF r, s, t1, t2
    <3>2. s \in BlockRange \cup {None} /\ (s # None => s.last <= t2)
      BY <3>1, MovesBounded
    <3> QED
      BY <3>2, Zenon DEF s, t2
  <2> QED
    BY <1>2, <2>4, Zenon
<1>6. state'.confidence_achieved # None => state'.confidence_achieved.last <= head' + pos'["light"]
  <2>1. head + pos["light"] \in Nat /\ head + pos'["light"] \in Nat /\ head + pos["light"] <= head + pos'["light"]
    <3>1. head \in Nat /\ pos["light"] \in Nat
      BY RangeTypes
    <3>2. pos'["light"] \in Nat /\ pos["light"] <= pos'["light"]
      BY <1>2, <1>3
    <3> QED
      BY <3>1, <3>2
  <2>2. /\ Moves(state.confidence_achieved, state'.confidence_achieved, head + pos'["light"])
        /\ state.confidence_achieved # None => state.confidence_achieved.last <= head + pos["light"]
    BY Zenon DEF RangeStep, RangesInv
  <2> DEFINE r == state.confidence_achieved s == state'.confidence_achieved
             t1 == head + pos["light"] t2 == head + pos'["light"]
  <2>3. /\ r \in BlockRange \cup {None} /\ t1 \in Nat /\ t2 \in Nat /\ t1 <= t2
        /\ Moves(r, s, t2) /\ (r # None => r.last <= t1)
    BY <1>1, <2>1, <2>2, Zenon
  <2> HIDE DEF r, s, t1, t2
  <2>4. s \in BlockRange \cup {None} /\ (s # None => s.last <= t2)
    BY <2>3, MovesBounded
  <2> QED
    BY <1>2, <2>4, Zenon DEF s, t2
<1>7. /\ state'.sync_header_verified \in BlockRange \cup {None}
      /\ state'.sync_confidence_achieved \in BlockRange \cup {None}
      /\ state'.sync_header_verified # None => state'.sync_header_verified.last <= sync'.num
      /\ state'.sync_confidence_achieved # None => state'.sync_confidence_achieved.last <= sync'.num
  <2>1. sync.num \in Nat /\ sync'.num \in Nat /\ sync.num <= sync'.num
    BY <1>2, <1>3, RangeTypes, Zenon
  <2>2. /\ state'.sync_header_verified \in BlockRange \cup {None}
        /\ state'.sync_header_verified # None => state'.sync_header_verified.last <= sync'.num
    <3>1. /\ Moves(state.sync_header_verified, state'.sync_header_verified, sync'.num)
          /\ state.sync_header_verified # None => state.sync_header_verified.last <= sync.num
      BY Zenon DEF RangeStep, RangesInv
    <3>2. state.sync_header_verified \in BlockRange \cup {None}
      BY <1>1
    <3> DEFINE r == state.sync_header_verified s == state'.sync_header_verified t1 == sync.num t2 == sync'.num
    <3>3. /\ r \in BlockRange \cup {None} /\ t1 \in Nat /\ t2 \in Nat /\ t1 <= t2
          /\ Moves(r, s, t2) /\ (r # None => r.last <= t1)
      BY <2>1, <3>1, <3>2, Zenon
    <3> HIDE DEF r, s, t1, t2
    <3>4. s \in BlockRange \cup {None} /\ (s # None => s.last <= t2)
      BY <3>3, MovesBounded
    <3> QED
      BY <3>4, Zenon DEF s, t2
  <2>3. /\ state'.sync_confidence_achieved \in BlockRange \cup {None}
        /\ state'.sync_confidence_achieved # None => state'.sync_confidence_achieved.last <= sync'.num
    <3>1. /\ Moves(state.sync_confidence_achieved, state'.sync_confidence_achieved, sync'.num)
          /\ state.sync_confidence_achieved # None => state.sync_confidence_achieved.last <= sync.num
      BY Zenon DEF RangeStep, RangesInv
    <3>2. state.sync_confidence_achieved \in BlockRange \cup {None}
      BY <1>1
    <3> DEFINE r == state.sync_confidence_achieved s == state'.sync_confidence_achieved t1 == sync.num t2 == sync'.num
    <3>3. /\ r \in BlockRange \cup {None} /\ t1 \in Nat /\ t2 \in Nat /\ t1 <= t2
          /\ Moves(r, s, t2) /\ (r # None => r.last <= t1)
      BY <2>1, <3>1, <3>2, Zenon
    <3> HIDE DEF r, s, t1, t2
    <3>4. s \in BlockRange \cup {None} /\ (s # None => s.last <= t2)
      BY <3>3, MovesBounded
    <3> QED
      BY <3>4, Zenon DEF s, t2
  <2> QED
    BY <2>2, <2>3
<1>8. state'.data_verified # None =>
         \E i \in 1..pos'["app"] : blocks'[i].num > head' /\ state'.data_verified.last = blocks'[i].num
  <2>1. CASE state'.data_verified = state.data_verified
    <3>1. SUFFICES ASSUME state'.data_verified # None
                   PROVE  \E i \in 1..pos'["app"] :
                             blocks'[i].num > head' /\ state'.data_verified.last = blocks'[i].num
      OBVIOUS
    <3>2. PICK i \in 1..pos["app"] :
             blocks[i].num > head /\ state.data_verified.last = blocks[i].num
      BY <2>1, <3>1 DEF RangesInv
    <3>3. i \in 1..pos'["app"] /\ blocks'[i].num = blocks[i].num
      <4>1. pos["app"] \in Nat /\ pos'["app"] \in Nat /\ pos["app"] <= pos'["app"]
        BY <1>2, <1>3, RangeTypes, Zenon
      <4> QED
        BY <1>3, <4>1
    <3> QED
      BY <1>2, <2>1, <3>2, <3>3
  <2>2. CASE state'.data_verified # state.data_verified
    <3>1. PICK i \in 1..pos'["app"] :
             /\ blocks'[i].num \in Block /\ blocks'[i].num > head
             /\ state'.data_verified = RangeSet(state.data_verified, blocks'[i].num)
      BY <2>2, Zenon DEF RangeStep, MovesTo, Live
    <3>2. state.data_verified \in BlockRange \cup {None}
      BY DEF IInv, TypeOK
    <3> QED
      BY <1>2, <3>1, <3>2, RangeMoves
  <2> QED
    BY <2>1, <2>2
<1>9. state'.sync_data_verified # None =>
         \E i \in 1..pos'["app"] :
            blocks'[i].num <= head' /\ state'.sync_data_verified.last = blocks'[i].num
  <2>1. CASE state'.sync_data_verified = state.sync_data_verified
    <3>1. SUFFICES ASSUME state'.sync_data_verified # None
                   PROVE  \E i \in 1..pos'["app"] :
                             blocks'[i].num <= head' /\ state'.sync_data_verified.last = blocks'[i].num
      OBVIOUS
    <3>2. PICK i \in 1..pos["app"] :
             blocks[i].num <= head /\ state.sync_data_verified.last = blocks[i].num
      BY <2>1, <3>1 DEF RangesInv
    <3>3. i \in 1..pos'["app"] /\ blocks'[i].num = blocks[i].num
      <4>1. pos["app"] \in Nat /\ pos'["app"] \in Nat /\ pos["app"] <= pos'["app"]
        BY <1>2, <1>3, RangeTypes, Zenon
      <4> QED
        BY <1>3, <4>1
    <3> QED
      BY <1>2, <2>1, <3>2, <3>3
  <2>2. CASE state'.sync_data_verified # state.sync_data_verified
    <3>1. PICK i \in 1..pos'["app"] :
             /\ blocks'[i].num \in Block /\ blocks'[i].num <= head
             /\ state'.sync_data_verified = RangeSet(state.sync_data_verified, blocks'[i].num)
      BY <2>2, Zenon DEF RangeStep, MovesTo, Historical
    <3>2. state.sync_data_verified \in BlockRange \cup {None}
      BY DEF IInv, TypeOK
    <3> QED
      BY <1>2, <3>1, <3>2, RangeMoves
  <2> QED
    BY <2>1, <2>2
<1>10. /\ received' \in Nat /\ state'.latest \in Nat
       /\ head' + Len(events') <= received' /\ state'.latest <= received'
  BY <1>2 DEF RangeStep
<1>11. first' = None => state'.sync_header_verified = None /\ state'.sync_confidence_achieved = None
  BY <1>2, Zenon DEF RangeStep, RangesInv
<1> QED
  BY <1>2, <1>5, <1>6, <1>7, <1>8, <1>9, <1>10, <1>11, Zenon DEF RangesInv

\* The light client achieves the block it took last.
LEMMA LightRanges ==
    ASSUME IInv, RangesInv, LightStep
    PROVE  RangeStep
<1>1. /\ UNCHANGED <<opt, chain, head, received, events, first, sync, restarts>> /\ first # None
  BY Zenon DEF LightStep, LightLags, LightReceives, LightIncomplete, LightSkips, LightSampled,
     LightAchieves, LightStores, FatStores, FatUploads, LightFails, LightSends, LightKeeps, LightAt,
     Running
<1>2. /\ db.header \subseteq db'.header /\ db.cells \subseteq db'.cells
  <2>1. \/ db' = db
        \/ db' = [db EXCEPT !.cells = db.cells \cup {light.num}]
        \/ db' = [db EXCEPT !.header = db.header \cup {light.num}]
    BY Zenon DEF LightStep, LightLags, LightReceives, LightIncomplete, LightSkips, LightSampled,
       LightAchieves, LightStores, FatStores, FatUploads, LightFails, LightSends
  <2> QED
    BY <2>1, RangeTypes
<1>3. pos'["app"] = pos["app"] /\ pos["light"] <= pos'["light"] /\ (light.pc # "recv" => pos' = pos)
  <2>1. pos' = pos \/ (light.pc = "recv" /\ pos' = [pos EXCEPT !["light"] = pos["light"] + 1])
    BY Zenon DEF LightStep, LightLags, LightReceives, LightIncomplete, LightSkips, LightSampled,
       LightAchieves, LightStores, FatStores, FatUploads, LightFails, LightSends, LightAt, Take
  <2> QED
    BY <2>1, RangeTypes DEF Receiver
<1>4. \A i \in 1..pos["app"] : blocks'[i].num = blocks[i].num
  <2>1. blocks' = blocks \/ Send(light.num, light.confidence)
    BY Zenon DEF LightStep, LightLags, LightReceives, LightIncomplete, LightSkips, LightSampled,
       LightAchieves, LightStores, FatStores, FatUploads, LightFails, LightSends
  <2>2. light.num \in Block /\ light.confidence \in BOOLEAN /\ blocks \in Seq(Message)
    BY DEF IInv, TypeOK
  <2>3. \A i \in 1..Len(blocks) : blocks'[i] = blocks[i]
    BY <2>1, <2>2, SendAppends
  <2> QED
    BY <2>3, RangeTypes
<1>5. \/ state' = state
      \/ /\ light.pc # "recv"
         /\ state' = [state EXCEPT !.confidence_achieved = RangeSet(state.confidence_achieved, light.num)]
  BY Zenon DEF LightStep, LightLags, LightReceives, LightIncomplete, LightSkips, LightSampled,
     LightAchieves, LightStores, FatStores, FatUploads, LightFails, LightSends, LightAt
<1>6. /\ state'.latest = state.latest
      /\ state'.header_verified = state.header_verified
      /\ state'.sync_header_verified = state.sync_header_verified
      /\ state'.sync_confidence_achieved = state.sync_confidence_achieved
      /\ state'.data_verified = state.data_verified
      /\ state'.sync_data_verified = state.sync_data_verified
      /\ \/ state'.confidence_achieved = state.confidence_achieved
         \/ /\ light.pc # "recv"
            /\ state'.confidence_achieved = RangeSet(state.confidence_achieved, light.num)
  BY <1>5, RangeTypes DEF InitialState
<1>7. Moves(state.confidence_achieved, state'.confidence_achieved, head + pos'["light"])
  <2>1. CASE light.pc # "recv"
    <3>1. light.num = head + pos["light"] /\ light.num \in Block /\ pos' = pos
      BY <1>3, <2>1 DEF IInv, FeedInv, TypeOK
    <3>2. state.confidence_achieved # None => state.confidence_achieved.last <= light.num
      BY <3>1 DEF RangesInv
    <3>3. light.num <= head + pos'["light"]
      BY <3>1, RangeTypes
    <3> QED
      BY <1>6, <3>1, <3>2, <3>3 DEF Moves
  <2>2. CASE light.pc = "recv"
    BY <1>6, <2>2 DEF Moves
  <2> QED
    BY <2>1, <2>2
<1>8. /\ Moves(state.header_verified, state'.header_verified, head + Len(events'))
      /\ Moves(state.sync_header_verified, state'.sync_header_verified, sync'.num)
      /\ Moves(state.sync_confidence_achieved, state'.sync_confidence_achieved, sync'.num)
      /\ MovesTo(state.data_verified, state'.data_verified, Live)
      /\ MovesTo(state.sync_data_verified, state'.sync_data_verified, Historical)
  BY <1>6, Zenon DEF Moves, MovesTo
<1>9. /\ received' \in Nat /\ head + Len(events') <= received'
      /\ state'.latest \in Nat /\ state.latest <= state'.latest /\ state'.latest <= received'
      /\ Len(events) <= Len(events')
  BY <1>1, <1>6, FeedStands
<1>10. sync.num <= sync'.num /\ pos["app"] <= pos'["app"]
  <2>1. sync.num \in Nat /\ pos["app"] \in Nat
    BY RangeTypes, Zenon
  <2> QED
    BY <1>1, <1>3, <2>1
<1> QED
  BY <1>1, <1>2, <1>3, <1>4, <1>6, <1>7, <1>8, <1>9, <1>10, ZenonT(30) DEF RangeStep

\* The sync client moves its ranges to the block it is at.
LEMMA SyncRanges ==
    ASSUME IInv, RangesInv, SyncStep
    PROVE  RangeStep
<1>1. /\ UNCHANGED <<opt, chain, head, received, events, pos, first, restarts>> /\ first # None
  BY Zenon DEF SyncStep, SyncChecks, SyncHeader, SyncUnsampled, SyncSampled, SyncSends, SyncAchieves,
     SyncEnds, SyncKeeps, SyncAt, Running
<1>2. /\ db.header \subseteq db'.header /\ db.cells \subseteq db'.cells
  <2>1. \/ db' = db
        \/ db' = [db EXCEPT !.cells = db.cells \cup {sync.num}]
        \/ db' = [db EXCEPT !.header = db.header \cup {sync.num}]
    BY Zenon DEF SyncStep, SyncChecks, SyncHeader, SyncUnsampled, SyncSampled, SyncSends, SyncAchieves,
       SyncEnds
  <2> QED
    BY <2>1, RangeTypes
<1>3. sync.num <= sync'.num /\ sync'.num \in Nat
  <2>1. sync \in [pc : {"check", "header", "sample", "send", "done"}, num : Nat]
    BY DEF IInv, TypeOK
  <2> QED
    BY <2>1, SyncMoves
<1>4. \A i \in 1..pos["app"] : blocks'[i].num = blocks[i].num
  <2>1. blocks \in Seq(Message)
    BY DEF IInv, TypeOK
  <2>2. CASE SyncSends
    BY <2>1, <2>2, SyncSendAppends, RangeTypes
  <2>3. CASE ~SyncSends
    <3>1. blocks' = blocks
      BY <2>3, Zenon DEF SyncStep, SyncChecks, SyncHeader, SyncUnsampled, SyncSampled, SyncAchieves,
         SyncEnds
    <3> QED
      BY <3>1
  <2> QED
    BY <2>2, <2>3
<1>5. \/ state' = state
      \/ \E v : state' = [state EXCEPT !.synced = v]
      \/ /\ sync.num \in SyncRange
         /\ state' = [state EXCEPT !.sync_latest = sync.num,
                                   !.sync_header_verified = RangeSet(state.sync_header_verified, sync.num)]
      \/ /\ sync.num \in SyncRange
         /\ state' = [state EXCEPT !.sync_confidence_achieved =
                                      RangeSet(state.sync_confidence_achieved, sync.num)]
  BY Zenon DEF SyncStep, SyncChecks, SyncHeader, SyncUnsampled, SyncSampled, SyncSends, SyncAchieves,
     SyncEnds, SyncAt
<1>6. /\ state'.latest = state.latest
      /\ state'.header_verified = state.header_verified
      /\ state'.confidence_achieved = state.confidence_achieved
      /\ state'.data_verified = state.data_verified
      /\ state'.sync_data_verified = state.sync_data_verified
      /\ \/ state'.sync_header_verified = state.sync_header_verified
         \/ /\ sync.num \in SyncRange
            /\ state'.sync_header_verified = RangeSet(state.sync_header_verified, sync.num)
      /\ \/ state'.sync_confidence_achieved = state.sync_confidence_achieved
         \/ /\ sync.num \in SyncRange
            /\ state'.sync_confidence_achieved = RangeSet(state.sync_confidence_achieved, sync.num)
  <2>1. DOMAIN state = DOMAIN InitialState
    BY RangeTypes
  <2> QED
    BY <1>5, <2>1, Zenon DEF InitialState
<1>7. /\ Moves(state.sync_header_verified, state'.sync_header_verified, sync'.num)
      /\ Moves(state.sync_confidence_achieved, state'.sync_confidence_achieved, sync'.num)
  <2>1. sync.num \in SyncRange => sync.num \in Block
    BY DEF SyncRange
  <2>2. /\ state.sync_header_verified # None => state.sync_header_verified.last <= sync.num
        /\ state.sync_confidence_achieved # None => state.sync_confidence_achieved.last <= sync.num
    BY DEF RangesInv
  <2> QED
    BY <1>3, <1>6, <2>1, <2>2 DEF Moves
<1>8. /\ Moves(state.header_verified, state'.header_verified, head + Len(events'))
      /\ Moves(state.confidence_achieved, state'.confidence_achieved, head + pos'["light"])
      /\ MovesTo(state.data_verified, state'.data_verified, Live)
      /\ MovesTo(state.sync_data_verified, state'.sync_data_verified, Historical)
  BY <1>6, Zenon DEF Moves, MovesTo
<1>9. /\ received' \in Nat /\ head + Len(events') <= received'
      /\ state'.latest \in Nat /\ state.latest <= state'.latest /\ state'.latest <= received'
      /\ Len(events) <= Len(events')
  BY <1>1, <1>6, FeedStands
<1>10. pos["light"] <= pos'["light"] /\ pos["app"] <= pos'["app"]
  <2>1. pos["light"] \in Nat /\ pos["app"] \in Nat
    BY RangeTypes, Zenon
  <2> QED
    BY <1>1, <2>1
<1> QED
  BY <1>1, <1>2, <1>3, <1>4, <1>6, <1>7, <1>8, <1>9, <1>10, ZenonT(30) DEF RangeStep

\* set_data_verified_state moves the range of the message's kind, forward
\* because the messages of each kind are in order.
LEMMA MarkedRanges ==
    ASSUME IInv, RangesInv, first = head + 1, first # None, NEW i \in 1..Len(blocks),
           state' = set_data_verified_state(state, blocks[i].num),
           UNCHANGED blocks, i = pos'["app"], pos["app"] <= i
    PROVE  /\ MovesTo(state.data_verified, state'.data_verified, Live)
           /\ MovesTo(state.sync_data_verified, state'.sync_data_verified, Historical)
<1> DEFINE n == blocks[i].num
<1>1. n \in Block /\ n \in Nat /\ \A j \in 1..Len(blocks) : blocks[j].num \in Nat
  <2>1. blocks \in Seq(Message)
    BY DEF IInv, TypeOK
  <2>2. blocks[i] \in Message
    BY <2>1
  <2>3. n \in Block
    BY <2>2 DEF Message
  <2> QED
    BY <2>1, <2>3, MessageNumbers
<1>2. i \in 1..pos'["app"] /\ blocks'[i].num = n
  OBVIOUS
<1>3. ASSUME NEW j \in 1..pos["app"], blocks[j].num > head <=> n > head
      PROVE  blocks[j].num <= n
  <2>1. j \in 1..Len(blocks) /\ (j = i \/ j < i)
    <3>1. pos["app"] \in Nat /\ Len(blocks) \in Nat /\ pos["app"] <= Len(blocks)
      BY RangeTypes, Zenon
    <3> QED
      BY <3>1
  <2>2. CASE j = i
    BY <1>1, <2>2
  <2>3. CASE j < i
    <3>1. blocks[j].num < n
      BY <1>3, <2>1, <2>3 DEF IInv, MessagesInv
    <3>2. blocks[j].num \in Nat /\ n \in Nat
      BY <1>1, <2>1, Zenon
    <3> HIDE DEF n
    <3> QED
      BY <3>1, <3>2
  <2> QED
    BY <2>1, <2>2, <2>3
<1>4. n \in SyncRange => n <= head
  <2>1. n \in SyncRange => n < head + 1
    BY Zenon DEF SyncRange
  <2>2. head \in Nat
    BY RangeTypes, Zenon
  <2> HIDE DEF n
  <2> QED
    BY <1>1, <2>1, <2>2
<1>5. n \notin SyncRange => n > head
  <2>1. n <= head => n \in SyncRange
    BY Zenon DEF IInv, MessagesInv
  <2>2. head \in Nat
    BY RangeTypes, Zenon
  <2> HIDE DEF n
  <2> QED
    BY <1>1, <2>1, <2>2
<1>6. state' = set_data_verified_state(state, n) /\ TypeOK
  BY DEF IInv
<1> HIDE DEF n
<1>7. CASE n \in SyncRange
  <2>1. /\ state'.sync_data_verified = RangeSet(state.sync_data_verified, n)
        /\ state'.data_verified = state.data_verified
    BY <1>1, <1>6, <1>7, MarkedState, Zenon
  <2>2. n <= head /\ ~(n > head)
    BY <1>1, <1>4, <1>7, RangeTypes
  <2>3. state.sync_data_verified # None => state.sync_data_verified.last <= n
    <3>1. SUFFICES ASSUME state.sync_data_verified # None
                   PROVE  state.sync_data_verified.last <= n
      OBVIOUS
    <3>2. PICK j \in 1..pos["app"] : blocks[j].num <= head /\ state.sync_data_verified.last = blocks[j].num
      BY <3>1 DEF RangesInv
    <3>3. ~(blocks[j].num > head)
      <4>1. head \in Nat /\ pos["app"] \in Nat /\ Len(blocks) \in Nat /\ pos["app"] <= Len(blocks)
        BY RangeTypes, Zenon
      <4>2. j \in 1..Len(blocks)
        BY <4>1
      <4>3. blocks[j].num \in Nat
        BY <1>1, <4>2, Zenon
      <4> QED
        BY <3>2, <4>1, <4>3
    <3> QED
      BY <1>3, <2>2, <3>2, <3>3
  <2> QED
    BY <1>1, <1>2, <2>1, <2>2, <2>3 DEF MovesTo, Historical
<1>8. CASE n \notin SyncRange
  <2>1. /\ state'.data_verified = RangeSet(state.data_verified, n)
        /\ state'.sync_data_verified = state.sync_data_verified
    BY <1>1, <1>6, <1>8, MarkedState
  <2>2. n > head
    BY <1>5, <1>8
  <2>3. state.data_verified # None => state.data_verified.last <= n
    <3>1. SUFFICES ASSUME state.data_verified # None
                   PROVE  state.data_verified.last <= n
      OBVIOUS
    <3>2. PICK j \in 1..pos["app"] : blocks[j].num > head /\ state.data_verified.last = blocks[j].num
      BY <3>1 DEF RangesInv
    <3> QED
      BY <1>3, <2>2, <3>2
  <2> QED
    BY <1>1, <1>2, <2>1, <2>2, <2>3 DEF MovesTo, Live
<1> QED
  BY <1>7, <1>8

\* The application client moves a range to a message it has just taken, or to
\* the one it took last.
LEMMA AppRanges ==
    ASSUME IInv, RangesInv, AppStep
    PROVE  RangeStep
<1>1. /\ UNCHANGED <<opt, chain, head, received, events, blocks, first, sync, restarts>>
      /\ first # None
  BY Zenon
     DEF AppStep, AppReceives, AppStores, AppMarks, AppSends, AppFails, AppKeeps, AppAt, Running
<1>2. db'.header = db.header /\ db'.cells = db.cells
  <2>1. db' = db \/ db' = [db EXCEPT !.data = db.data \cup {app.num}]
    BY Zenon DEF AppStep, AppReceives, AppStores, AppMarks, AppSends, AppFails
  <2> QED
    BY <2>1, RangeTypes
<1>3. first = head + 1
  BY <1>1 DEF IInv, FeedInv
<1>4. /\ pos'["light"] = pos["light"] /\ pos'["app"] \in Nat /\ pos["app"] <= pos'["app"]
  <2>1. pos' = pos \/ pos' = [pos EXCEPT !["app"] = pos["app"] + 1]
    BY Zenon DEF AppStep, AppReceives, AppStores, AppMarks, AppSends, AppFails, Take
  <2> QED
    BY <2>1, RangeTypes DEF Receiver
<1>5. /\ MovesTo(state.data_verified, state'.data_verified, Live)
      /\ MovesTo(state.sync_data_verified, state'.sync_data_verified, Historical)
  <2>1. CASE state' = state
    BY <2>1, Zenon DEF MovesTo
  <2>2. CASE AppReceives /\ state' # state
    <3>1. /\ pos["app"] < Len(blocks) /\ pos' = [pos EXCEPT !["app"] = pos["app"] + 1]
          /\ state' = set_data_verified_state(state, blocks[pos["app"] + 1].num)
      BY <2>2 DEF AppReceives, Ready, Take
    <3>2. pos'["app"] = pos["app"] + 1
      BY <3>1, RangeTypes DEF Receiver
    <3>3. pos'["app"] \in 1..Len(blocks) /\ state' = set_data_verified_state(state, blocks[pos'["app"]].num)
      <4>1. pos["app"] \in Nat /\ Len(blocks) \in Nat /\ pos["app"] <= Len(blocks)
        BY RangeTypes, Zenon
      <4>2. pos'["app"] \in 1..Len(blocks)
        BY <3>1, <3>2, <4>1
      <4> QED
        BY <3>1, <3>2, <4>2, Zenon
    <3> QED
      BY <1>1, <1>3, <1>4, <3>3, MarkedRanges
  <2>3. CASE AppMarks
    <3>1. app.pc = "mark" /\ pos' = pos /\ state' = set_data_verified_state(state, app.num)
      BY <2>3 DEF AppMarks, AppAt
    <3>2. pos["app"] > 0 /\ app.num = blocks[pos["app"]].num
      BY <3>1 DEF IInv, FeedInv
    <3>3. pos'["app"] \in 1..Len(blocks) /\ state' = set_data_verified_state(state, blocks[pos'["app"]].num)
      <4>1. pos["app"] \in Nat /\ Len(blocks) \in Nat /\ pos["app"] <= Len(blocks)
        BY RangeTypes, Zenon
      <4>2. pos'["app"] \in 1..Len(blocks)
        BY <3>1, <3>2, <4>1
      <4> QED
        BY <3>1, <3>2, <4>2, Zenon
    <3> QED
      BY <1>1, <1>3, <1>4, <3>3, MarkedRanges
  <2> QED
    BY <2>1, <2>2, <2>3, Zenon DEF AppStep, AppStores, AppSends, AppFails
<1>6. /\ state'.latest = state.latest
      /\ state'.header_verified = state.header_verified
      /\ state'.confidence_achieved = state.confidence_achieved
      /\ state'.sync_header_verified = state.sync_header_verified
      /\ state'.sync_confidence_achieved = state.sync_confidence_achieved
  <2>1. state' = state \/ \E n : state' = set_data_verified_state(state, n)
    BY Zenon DEF AppStep, AppReceives, AppStores, AppMarks, AppSends, AppFails
  <2>2. DOMAIN state = DOMAIN InitialState
    BY RangeTypes
  <2>3. ASSUME NEW n, state' = set_data_verified_state(state, n)
        PROVE  /\ state'.latest = state.latest
               /\ state'.header_verified = state.header_verified
               /\ state'.confidence_achieved = state.confidence_achieved
               /\ state'.sync_header_verified = state.sync_header_verified
               /\ state'.sync_confidence_achieved = state.sync_confidence_achieved
    <3>1. CASE n \in SyncRange
      BY <2>2, <2>3, <3>1 DEF set_data_verified_state, InitialState
    <3>2. CASE n \notin SyncRange
      BY <2>2, <2>3, <3>2 DEF set_data_verified_state, InitialState
    <3> QED
      BY <3>1, <3>2
  <2> QED
    BY <2>1, <2>3
<1>7. /\ Moves(state.header_verified, state'.header_verified, head + Len(events'))
      /\ Moves(state.confidence_achieved, state'.confidence_achieved, head + pos'["light"])
      /\ Moves(state.sync_header_verified, state'.sync_header_verified, sync'.num)
      /\ Moves(state.sync_confidence_achieved, state'.sync_confidence_achieved, sync'.num)
  BY <1>6, Zenon DEF Moves
<1>8. /\ received' \in Nat /\ head + Len(events') <= received'
      /\ state'.latest \in Nat /\ state.latest <= state'.latest /\ state'.latest <= received'
      /\ Len(events) <= Len(events')
  BY <1>1, <1>6, FeedStands
<1>9. sync.num <= sync'.num /\ pos["light"] <= pos'["light"]
  <2>1. sync.num \in Nat /\ pos["light"] \in Nat
    BY RangeTypes, Zenon
  <2> QED
    BY <1>1, <1>4, <2>1
<1>10. /\ db.header \subseteq db'.header /\ db.cells \subseteq db'.cells
       /\ \A i \in 1..pos["app"] : blocks'[i].num = blocks[i].num
  BY <1>1, <1>2, Zenon
<1> QED
  BY <1>1, <1>4, <1>5, <1>6, <1>7, <1>8, <1>9, <1>10, ZenonT(30) DEF RangeStep

\* The feed announces the block after the tip, and verifies its header.
LEMMA FeedRanges ==
    ASSUME IInv, RangesInv, Announce
    PROVE  RangeStep
<1>1. PICK n \in Block :
         /\ n <= received /\ n = Tip + 1 /\ events' = Append(events, n)
         /\ \/ state' = [state EXCEPT !.header_verified = RangeSet(state.header_verified, n)]
            \/ state' = state
  BY Zenon DEF Announce
<1>2. UNCHANGED <<opt, chain, db, head, received, blocks, pos, first, sync, restarts>>
  BY DEF Announce, taskVars
<1>3. events \in Seq(Block) /\ Len(events') = Len(events) + 1
  BY <1>1 DEF IInv, TypeOK
<1>4. n = head + Len(events')
  <2>1. CASE events = <<>>
    BY <1>1, <1>3, <2>1, RangeTypes DEF Tip
  <2>2. CASE events # <<>>
    <3>1. Tip = events[Len(events)] /\ Len(events) \in 1..Len(events)
      BY <1>3, <2>2 DEF Tip
    <3>2. Tip = head + Len(events)
      BY <3>1 DEF IInv, FeedInv
    <3> QED
      BY <1>1, <1>3, <3>2, RangeTypes
  <2> QED
    BY <2>1, <2>2
<1>5. /\ state'.latest = state.latest
      /\ state'.confidence_achieved = state.confidence_achieved
      /\ state'.sync_header_verified = state.sync_header_verified
      /\ state'.sync_confidence_achieved = state.sync_confidence_achieved
      /\ state'.data_verified = state.data_verified
      /\ state'.sync_data_verified = state.sync_data_verified
      /\ \/ state'.header_verified = state.header_verified
         \/ state'.header_verified = RangeSet(state.header_verified, n)
  BY <1>1, RangeTypes DEF InitialState
<1>6. Moves(state.header_verified, state'.header_verified, head + Len(events'))
  <2>1. state.header_verified # None => state.header_verified.last <= n
    <3>1. SUFFICES ASSUME state.header_verified # None PROVE state.header_verified.last <= n
      OBVIOUS
    <3>2. state.header_verified \in BlockRange /\ state.header_verified.last <= head + Len(events)
      BY <3>1 DEF RangesInv
    <3>3. state.header_verified.last \in Nat
      BY <3>2 DEF BlockRange, Block
    <3> QED
      BY <1>3, <1>4, <3>2, <3>3, RangeTypes
  <2>2. n <= head + Len(events')
    BY <1>4 DEF Block
  <2> QED
    BY <1>5, <2>1, <2>2 DEF Moves
<1>7. /\ Moves(state.confidence_achieved, state'.confidence_achieved, head + pos'["light"])
      /\ Moves(state.sync_header_verified, state'.sync_header_verified, sync'.num)
      /\ Moves(state.sync_confidence_achieved, state'.sync_confidence_achieved, sync'.num)
      /\ MovesTo(state.data_verified, state'.data_verified, Live)
      /\ MovesTo(state.sync_data_verified, state'.sync_data_verified, Historical)
  BY <1>5, Zenon DEF Moves, MovesTo
<1>8. head + Len(events') <= received
  BY <1>1, <1>4
<1>9. /\ received' \in Nat /\ head + Len(events') <= received'
      /\ state'.latest \in Nat /\ state.latest <= state'.latest /\ state'.latest <= received'
      /\ Len(events) <= Len(events') /\ sync.num <= sync'.num
      /\ pos["light"] <= pos'["light"] /\ pos["app"] <= pos'["app"]
  <2>1. /\ received \in Nat /\ Len(events) \in Nat /\ sync.num \in Nat
        /\ state.latest \in Nat /\ state.latest <= received
        /\ pos["light"] \in Nat /\ pos["app"] \in Nat
    BY RangeTypes, Zenon
  <2>2. /\ received' = received /\ state'.latest = state.latest /\ sync'.num = sync.num
        /\ pos'["light"] = pos["light"] /\ pos'["app"] = pos["app"]
    BY <1>2, <1>5, Zenon
  <2>3. /\ received' \in Nat /\ head + Len(events') <= received'
        /\ state'.latest \in Nat /\ state'.latest <= received'
    BY <1>8, <2>1, <2>2, Zenon
  <2>4. /\ state.latest <= state'.latest /\ Len(events) <= Len(events')
    BY <1>3, <2>1, <2>2
  <2>5. sync.num <= sync'.num /\ pos["light"] <= pos'["light"] /\ pos["app"] <= pos'["app"]
    BY <2>1, <2>2
  <2> QED
    BY <2>3, <2>4, <2>5, Zenon
<1>10. /\ db.header \subseteq db'.header /\ db.cells \subseteq db'.cells
       /\ \A i \in 1..pos["app"] : blocks'[i].num = blocks[i].num
  BY <1>2, Zenon
<1> QED
  BY <1>2, <1>5, <1>6, <1>7, <1>9, <1>10, ZenonT(30) DEF RangeStep

LEMMA OtherRanges ==
    ASSUME IInv, RangesInv, NewHeader \/ Publisher \/ UNCHANGED vars
    PROVE  RangeStep
<1>1. UNCHANGED <<opt, chain, db, head, events, blocks, first, sync, restarts>>
  BY Zenon DEF NewHeader, Publisher, vars, channelVars, taskVars
<1>2. \/ received' = received + 1 /\ state' = [state EXCEPT !.latest = received + 1]
      \/ received' = received /\ state' = state
  BY Zenon DEF NewHeader, Publisher, vars, channelVars
<1>3. pos'["light"] = pos["light"] /\ pos'["app"] = pos["app"]
  <2>1. pos' = pos \/ pos' = [pos EXCEPT !["publisher"] = pos["publisher"] + 1]
    BY Zenon DEF Publisher, NewHeader, vars, channelVars, Take
  <2> QED
    BY <2>1, RangeTypes DEF Receiver
<1>4. /\ state'.header_verified = state.header_verified
      /\ state'.confidence_achieved = state.confidence_achieved
      /\ state'.sync_header_verified = state.sync_header_verified
      /\ state'.sync_confidence_achieved = state.sync_confidence_achieved
      /\ state'.data_verified = state.data_verified
      /\ state'.sync_data_verified = state.sync_data_verified
      /\ \/ received' = received + 1 /\ state'.latest = received + 1
         \/ received' = received /\ state'.latest = state.latest
  BY <1>2, RangeTypes DEF InitialState
<1>5. /\ Moves(state.header_verified, state'.header_verified, head + Len(events'))
      /\ Moves(state.confidence_achieved, state'.confidence_achieved, head + pos'["light"])
      /\ Moves(state.sync_header_verified, state'.sync_header_verified, sync'.num)
      /\ Moves(state.sync_confidence_achieved, state'.sync_confidence_achieved, sync'.num)
      /\ MovesTo(state.data_verified, state'.data_verified, Live)
      /\ MovesTo(state.sync_data_verified, state'.sync_data_verified, Historical)
  BY <1>4, Zenon DEF Moves, MovesTo
<1>6. /\ received' \in Nat /\ head + Len(events) <= received'
      /\ state'.latest \in Nat /\ state.latest <= state'.latest /\ state'.latest <= received'
  <2>1. /\ received \in Nat /\ head + Len(events) <= received /\ head \in Nat /\ Len(events) \in Nat
        /\ state.latest \in Nat /\ state.latest <= received
    BY RangeTypes, Zenon
  <2> QED
    BY <1>4, <2>1
<1>7. /\ Len(events) <= Len(events') /\ sync.num <= sync'.num
      /\ pos["light"] <= pos'["light"] /\ pos["app"] <= pos'["app"]
  <2>1. Len(events) \in Nat /\ sync.num \in Nat /\ pos["light"] \in Nat /\ pos["app"] \in Nat
    BY RangeTypes, Zenon
  <2> QED
    BY <1>1, <1>3, <2>1
<1>8. /\ head + Len(events') <= received'
      /\ db.header \subseteq db'.header /\ db.cells \subseteq db'.cells
      /\ \A i \in 1..pos["app"] : blocks'[i].num = blocks[i].num
  BY <1>1, <1>6, Zenon
<1> QED
  BY <1>1, <1>4, <1>5, <1>6, <1>7, <1>8, ZenonT(30) DEF RangeStep

\* A step of a session, once its tasks run.
LEMMA SessionSteps ==
    ASSUME IInv, RangesInv, [Next]_vars, ~Restart, ~Spawn
    PROVE  RangeStep
BY LightRanges, SyncRanges, AppRanges, FeedRanges, OtherRanges, Zenon DEF Next

\* The ranges are empty when a session starts, and run sets latest to a block
\* that was announced.
LEMMA RangesAtStart == (Start /\ received = head /\ restarts \in Nat) => RangesInv
<1> SUFFICES ASSUME Start, received = head, restarts \in Nat PROVE RangesInv
  OBVIOUS
<1>1. head \in Nat /\ Len(events) = 0
  <2>1. head \in Block /\ events = <<>>
    BY ClientsAssumption, Zenon DEF Start
  <2> QED
    BY <2>1 DEF Block
<1>2. /\ state.latest = 0 /\ state.header_verified = None /\ state.confidence_achieved = None
      /\ state.data_verified = None /\ state.sync_data_verified = None
      /\ state.sync_header_verified = None /\ state.sync_confidence_achieved = None
  BY DEF Start, InitialState
<1>3. /\ received \in Nat /\ head + Len(events) <= received
      /\ state.latest \in Nat /\ state.latest <= received
  BY <1>1, <1>2
<1> QED
  BY <1>2, <1>3, Zenon DEF RangesInv

LEMMA RangesAtSpawn ==
    ASSUME IInv, RangesInv, Spawn
    PROVE  RangesInv'
<1>1. /\ UNCHANGED <<head, received, events, blocks, pos, restarts>>
      /\ first = None /\ events # <<>>
      /\ state' = [state EXCEPT !.latest = events[1],
                                !.synced = IF opt.start = None THEN None ELSE FALSE]
  BY DEF Spawn, channelVars
<1>2. /\ state'.latest = events[1]
      /\ state'.header_verified = state.header_verified
      /\ state'.confidence_achieved = state.confidence_achieved
      /\ state'.sync_header_verified = state.sync_header_verified
      /\ state'.sync_confidence_achieved = state.sync_confidence_achieved
      /\ state'.data_verified = state.data_verified
      /\ state'.sync_data_verified = state.sync_data_verified
  <2>1. DOMAIN state = DOMAIN InitialState
    BY RangeTypes
  <2> QED
    BY <1>1, <2>1 DEF InitialState
<1>3. events[1] = head + 1 /\ Len(events) >= 1
  <2>1. events \in Seq(Block) /\ events # <<>>
    BY <1>1 DEF IInv, TypeOK
  <2>2. 1 \in 1..Len(events)
    BY <2>1
  <2> QED
    BY <2>2 DEF IInv, FeedInv
<1>4. state'.latest \in Nat /\ state'.latest <= received
  BY <1>2, <1>3, RangeTypes
<1>5. /\ state.sync_header_verified = None /\ state.sync_confidence_achieved = None
      /\ state.data_verified = None /\ state.sync_data_verified = None
  BY <1>1 DEF RangesInv, IInv, FeedInv
<1> QED
  BY <1>1, <1>2, <1>4, <1>5 DEF RangesInv

LEMMA RangesPreserved == IInv /\ RangesInv /\ [Next]_vars => RangesInv'
<1> SUFFICES ASSUME IInv, RangesInv, [Next]_vars PROVE RangesInv'
  OBVIOUS
<1>1. CASE Restart
  <2>1. (Start /\ received = head /\ restarts \in Nat)'
    <3>1. opt \in Options /\ DOMAIN db = {"header", "cells", "data"} /\ restarts \in Nat
      BY Zenon DEF IInv, TypeOK, RangesInv
    <3>2. restarts' = restarts + 1 /\ received' = head'
      BY <1>1, Zenon DEF Restart
    <3>3. restarts' \in Nat
      BY <3>1, <3>2
    <3>4. Start'
      BY <1>1, <3>1, ZenonT(30) DEF Start, Restart
    <3> QED
      BY <3>2, <3>3, <3>4, Zenon
  <2> QED
    BY <2>1, RangesAtStart, PTL
<1>2. CASE Spawn
  BY <1>2, RangesAtSpawn
<1>3. CASE ~Restart /\ ~Spawn
  BY <1>3, SessionSteps, Preserved, RangesKept
<1> QED
  BY <1>1, <1>2, <1>3

\* The status of a block never goes back and /v1/confidence keeps an answer it
\* has given: every range is moved by one task, which goes through its blocks in
\* order, so whatever the interleaving no range shrinks.
THEOREM AnswersOnlyAdvance == Spec => StatusAdvances
<1>1. Init => RangesInv
  <2>1. Init => received = head /\ restarts = 0 /\ Start
    BY Zenon DEF Init, Start
  <2>2. 0 \in Nat
    OBVIOUS
  <2> QED
    BY <2>1, <2>2, RangesAtStart, Zenon
<1>2. IInv /\ RangesInv /\ [Next]_vars
        => [(restarts' = restarts /\ first # None /\ state.header_verified # None) =>
              \A n \in Block : /\ Rank(block(n)) <= Rank(block(n)')
                               /\ confidence_found(n) => confidence_found(n)']_vars
  <2> SUFFICES ASSUME IInv, RangesInv, [Next]_vars, restarts' = restarts, first # None,
                      state.header_verified # None, NEW n \in Block
               PROVE  /\ Rank(block(n)) <= Rank(block(n)')
                      /\ confidence_found(n) => confidence_found(n)'
    OBVIOUS
  <2>1. ~Restart /\ ~Spawn
    <3>1. restarts \in Nat
      BY DEF RangesInv
    <3> QED
      BY <3>1 DEF Restart, Spawn
  <2> QED
    BY <2>1, SessionSteps, AnswersAdvance
<1> QED
  BY <1>1, <1>2, InductiveInvariant, RangesPreserved, PTL DEF Spec, StatusAdvances
-----------------------------------------------------------------------------
(* No task stops unnoticed *)

Stops == data \in Seq(Block) /\ StopsForAReason

\* A task that has returned stays where it is and its channels only grow; one
\* that returns has its reason.
LEMMA StopsKept ==
    ASSUME IInv, Stops, first # None, UNCHANGED <<opt, first>>, shutdown => shutdown',
           pos' \in [Receiver -> Nat], data' \in Seq(Block), events' \in Seq(Block),
           Len(events) <= Len(events'), Len(data) <= Len(data'),
           state.synced = TRUE => state'.synced = TRUE,
           \A r \in {"light", "publisher"} : r \in ended' => pos'[r] = pos[r],
           "light" \in ended' => "light" \in ended \/ Lagged("light", events, RpcCapacity) \/ shutdown',
           "app" \in ended' => "app" \in ended \/ shutdown',
           "publisher" \in ended' => "publisher" \in ended \/ Lagged("publisher", data, BlockCapacity),
           "sync" \in ended' => "sync" \in ended \/ (~opt.app /\ SyncRange # {} => state'.synced = TRUE)
    PROVE  Stops'
<1>1. /\ events \in Seq(Block) /\ data \in Seq(Block) /\ pos \in [Receiver -> Nat]
      /\ RpcCapacity \in Nat /\ BlockCapacity \in Nat
  BY ClientsAssumption DEF IInv, TypeOK, Stops
<1>2. Len(events) \in Nat /\ Len(events') \in Nat /\ Len(data) \in Nat /\ Len(data') \in Nat
  BY <1>1
<1>3. pos["light"] \in Nat /\ pos["publisher"] \in Nat /\ pos'["light"] \in Nat /\ pos'["publisher"] \in Nat
  BY <1>1, Zenon DEF Receiver
<1>4. ASSUME "light" \in ended', Lagged("light", events, RpcCapacity)
      PROVE  Lagged("light", events, RpcCapacity)'
  BY <1>1, <1>2, <1>3, <1>4 DEF Lagged
<1>5. ASSUME "publisher" \in ended', Lagged("publisher", data, BlockCapacity)
      PROVE  Lagged("publisher", data, BlockCapacity)'
  BY <1>1, <1>2, <1>3, <1>5 DEF Lagged
<1>6. SyncRange' = SyncRange
  BY DEF SyncRange
<1>. QED
  BY <1>4, <1>5, <1>6, Zenon DEF Stops, StopsForAReason

\* What a step does to one receiver's position.
LEMMA Taken ==
    ASSUME TypeOK, NEW r \in Receiver, Take(r)
    PROVE  pos' \in [Receiver -> Nat] /\ \A q \in Receiver \ {r} : pos'[q] = pos[q]
BY DEF TypeOK, Take

LEMMA LightStops ==
    ASSUME IInv, Stops, LightStep
    PROVE  Stops'
<1>1. TypeOK /\ events \in Seq(Block) /\ data \in Seq(Block) /\ pos \in [Receiver -> Nat]
  BY Zenon DEF IInv, TypeOK, Stops
<1>2. first # None /\ "light" \notin ended /\ UNCHANGED <<opt, first, events, data>>
  BY Zenon DEF LightStep, LightLags, LightReceives, LightIncomplete, LightSkips, LightSampled,
     LightAchieves, LightStores, FatStores, FatUploads, LightFails, LightSends, LightAt, Running, LightKeeps
<1>3. /\ Len(events) <= Len(events') /\ Len(data) <= Len(data')
      /\ events' \in Seq(Block) /\ data' \in Seq(Block)
  BY <1>1, <1>2
<1>4. state.synced = TRUE => state'.synced = TRUE
  <2>1. \/ UNCHANGED state
        \/ state' = [state EXCEPT !.confidence_achieved = RangeSet(@, light.num)]
    BY Zenon DEF LightStep, LightLags, LightReceives, LightIncomplete, LightSkips, LightSampled,
       LightAchieves, LightStores, FatStores, FatUploads, LightFails, LightSends
  <2>2. DOMAIN state = DOMAIN InitialState
    BY <1>1, Zenon DEF TypeOK
  <2>. QED
    BY <2>1, <2>2 DEF InitialState
<1>5. CASE LightReceives
  <2>1. Take("light") /\ UNCHANGED <<ended, shutdown>> /\ "light" \in Receiver /\ "publisher" \in Receiver
    BY <1>5, Zenon DEF LightReceives, Receiver
  <2>2. pos' \in [Receiver -> Nat] /\ pos'["publisher"] = pos["publisher"]
    BY <1>1, <2>1, Taken
  <2>3. \A r \in {"light", "publisher"} : r \in ended' => pos'[r] = pos[r]
    BY <1>2, <2>1, <2>2
  <2>. QED
    BY <1>2, <1>3, <1>4, <2>1, <2>2, <2>3, StopsKept, Zenon
<1>6. CASE LightLags \/ LightFails
  <2>1. /\ ended' = ended \cup {"light"} /\ UNCHANGED pos
        /\ shutdown => shutdown'
        /\ Lagged("light", events, RpcCapacity) \/ shutdown'
    BY <1>6, Zenon DEF LightLags, LightFails, Return
  <2>2. /\ "app" \in ended' => "app" \in ended
        /\ "publisher" \in ended' => "publisher" \in ended
        /\ "sync" \in ended' => "sync" \in ended
    BY <2>1
  <2>. QED
    BY <1>1, <1>2, <1>3, <1>4, <2>1, <2>2, StopsKept, Zenon
<1>7. CASE ~ LightReceives /\ ~ LightLags /\ ~ LightFails
  <2>1. UNCHANGED <<pos, ended, shutdown>>
    BY <1>7, Zenon DEF LightStep, LightIncomplete, LightSkips, LightSampled,
       LightAchieves, LightStores, FatStores, FatUploads, LightSends
  <2>. QED
    BY <1>1, <1>2, <1>3, <1>4, <2>1, StopsKept, Zenon
<1>. QED
  BY <1>5, <1>6, <1>7

LEMMA SyncStops ==
    ASSUME IInv, Stops, SyncStep
    PROVE  Stops'
<1>1. /\ TypeOK /\ events \in Seq(Block) /\ data \in Seq(Block) /\ pos \in [Receiver -> Nat]
      /\ DOMAIN state = DOMAIN InitialState
  BY Zenon DEF IInv, TypeOK, Stops
<1>2. first # None /\ "sync" \notin ended /\ UNCHANGED <<opt, first, events, data, pos>>
  BY Zenon DEF SyncStep, SyncChecks, SyncHeader, SyncUnsampled, SyncSampled, SyncSends, SyncAchieves,
     SyncEnds, SyncAt, Running, SyncKeeps
<1>3. /\ Len(events) <= Len(events') /\ Len(data) <= Len(data')
      /\ events' \in Seq(Block) /\ data' \in Seq(Block) /\ pos' \in [Receiver -> Nat]
  BY <1>1, <1>2
<1>4. CASE SyncEnds
  <2>1. /\ ended' = ended \cup {"sync"}
        /\ shutdown => shutdown'
        /\ state' = [state EXCEPT !.synced = IF SyncRange # {} /\ ~opt.app THEN TRUE ELSE @]
    BY <1>4, Zenon DEF SyncEnds, Return
  <2>2. state'.synced = IF SyncRange # {} /\ ~opt.app THEN TRUE ELSE state.synced
    BY <1>1, <2>1 DEF InitialState
  <2>3. /\ "app" \in ended' => "app" \in ended
        /\ "publisher" \in ended' => "publisher" \in ended
        /\ "light" \in ended' => "light" \in ended
    BY <2>1
  <2>4. shutdown => shutdown'
    BY <2>1
  <2>5. /\ state.synced = TRUE => state'.synced = TRUE
        /\ (~opt.app /\ SyncRange # {}) => state'.synced = TRUE
    BY <2>2
  <2>. QED
    BY <1>2, <1>3, <2>3, <2>4, <2>5, StopsKept, Zenon
<1>5. CASE ~ SyncEnds
  <2>1. UNCHANGED <<ended, shutdown>>
    BY <1>5, Zenon DEF SyncStep, SyncChecks, SyncHeader, SyncUnsampled, SyncSampled, SyncSends, SyncAchieves
  <2>2. \/ UNCHANGED state
        \/ state' = [state EXCEPT !.sync_latest = sync.num,
                                  !.sync_header_verified = RangeSet(@, sync.num)]
        \/ state' = [state EXCEPT !.sync_confidence_achieved = RangeSet(@, sync.num)]
    BY <1>5, Zenon DEF SyncStep, SyncChecks, SyncHeader, SyncUnsampled, SyncSampled, SyncSends, SyncAchieves
  <2>3. state.synced = TRUE => state'.synced = TRUE
    BY <1>1, <2>2, Zenon DEF InitialState
  <2>. QED
    BY <1>2, <1>3, <2>1, <2>3, StopsKept, Zenon
<1>. QED
  BY <1>4, <1>5

LEMMA AppStops ==
    ASSUME IInv, Stops, AppStep
    PROVE  Stops'
<1>1. /\ TypeOK /\ events \in Seq(Block) /\ data \in Seq(Block) /\ pos \in [Receiver -> Nat]
      /\ DOMAIN state = DOMAIN InitialState /\ app.num \in Block
  BY Zenon DEF IInv, TypeOK, Stops
<1>2. first # None /\ "app" \notin ended /\ UNCHANGED <<opt, first, events>>
  BY Zenon DEF AppStep, AppReceives, AppStores, AppMarks, AppSends, AppFails, AppAt, Running, AppKeeps
<1>3. data' = data \/ data' = Append(data, app.num)
  BY Zenon DEF AppStep, AppReceives, AppStores, AppMarks, AppSends, AppFails
<1>4. /\ Len(events) <= Len(events') /\ Len(data) <= Len(data')
      /\ events' \in Seq(Block) /\ data' \in Seq(Block)
  <2>1. CASE data' = data
    BY <1>1, <1>2, <2>1
  <2>2. CASE data' = Append(data, app.num)
    <3>1. data' \in Seq(Block) /\ Len(data') = Len(data) + 1 /\ Len(data) \in Nat
      BY <1>1, <2>2
    <3>. QED
      BY <1>1, <1>2, <3>1
  <2>. QED
    BY <1>3, <2>1, <2>2, Zenon
<1>5. UNCHANGED state \/ \E n : state' = set_data_verified_state(state, n)
  BY Zenon DEF AppStep, AppReceives, AppStores, AppMarks, AppSends, AppFails
<1>6. ASSUME NEW n, state' = set_data_verified_state(state, n)
      PROVE  state.synced = TRUE => state'.synced = TRUE
  BY <1>1, <1>6 DEF set_data_verified_state, InitialState
<1>7. state.synced = TRUE => state'.synced = TRUE
  BY <1>5, <1>6, Zenon
<1>8. pos' \in [Receiver -> Nat] /\ \A r \in {"light", "publisher"} : pos'[r] = pos[r]
  <2>1. UNCHANGED pos \/ Take("app")
    BY Zenon DEF AppStep, AppReceives, AppStores, AppMarks, AppSends, AppFails
  <2>2. "app" \in Receiver /\ {"light", "publisher"} \subseteq Receiver \ {"app"}
    BY DEF Receiver
  <2>. QED
    BY <1>1, <2>1, <2>2, Taken
<1>9. UNCHANGED <<ended, shutdown>> \/ (ended' = ended \cup {"app"} /\ shutdown')
  BY Zenon DEF AppStep, AppReceives, AppStores, AppMarks, AppSends, AppFails, Return
<1>10. /\ "light" \in ended' => "light" \in ended
       /\ "publisher" \in ended' => "publisher" \in ended
       /\ "sync" \in ended' => "sync" \in ended
       /\ "app" \in ended' => "app" \in ended \/ shutdown'
       /\ shutdown => shutdown'
  BY <1>9
<1>. QED
  BY <1>2, <1>4, <1>7, <1>8, <1>10, StopsKept, Zenon

LEMMA PublisherStops ==
    ASSUME IInv, Stops, Publisher
    PROVE  Stops'
<1>1. TypeOK /\ events \in Seq(Block) /\ data \in Seq(Block) /\ pos \in [Receiver -> Nat]
  BY Zenon DEF IInv, TypeOK, Stops
<1>2. first # None /\ "publisher" \notin ended /\ UNCHANGED <<opt, first, events, data, state>>
  BY Zenon DEF Publisher, Running
<1>3. /\ Len(events) <= Len(events') /\ Len(data) <= Len(data')
      /\ events' \in Seq(Block) /\ data' \in Seq(Block)
  BY <1>1, <1>2
<1>4. CASE Take("publisher") /\ UNCHANGED <<ended, shutdown>>
  <2>1. "publisher" \in Receiver /\ "light" \in Receiver \ {"publisher"}
    BY DEF Receiver
  <2>2. pos' \in [Receiver -> Nat] /\ pos'["light"] = pos["light"]
    BY <1>1, <1>4, <2>1, Taken
  <2>3. \A r \in {"light", "publisher"} : r \in ended' => pos'[r] = pos[r]
    BY <1>2, <1>4, <2>2
  <2>. QED
    BY <1>2, <1>3, <1>4, <2>2, <2>3, StopsKept, Zenon
<1>5. CASE Lagged("publisher", data, BlockCapacity) /\ Return("publisher", FALSE) /\ UNCHANGED pos
  <2>1. ended' = ended \cup {"publisher"} /\ (shutdown => shutdown')
    BY <1>5, Zenon DEF Return
  <2>2. /\ "app" \in ended' => "app" \in ended
        /\ "light" \in ended' => "light" \in ended
        /\ "sync" \in ended' => "sync" \in ended
    BY <2>1
  <2>. QED
    BY <1>1, <1>2, <1>3, <1>5, <2>1, <2>2, StopsKept, Zenon
<1>. QED
  BY <1>4, <1>5, Zenon DEF Publisher

\* The subscription loop, the first block and a new process.
LEMMA FeedStops ==
    ASSUME IInv, Stops, NewHeader \/ Announce \/ Spawn \/ Restart
    PROVE  Stops'
<1>1. /\ TypeOK /\ events \in Seq(Block) /\ data \in Seq(Block) /\ pos \in [Receiver -> Nat]
      /\ DOMAIN state = DOMAIN InitialState
  BY Zenon DEF IInv, TypeOK, Stops
<1>2. CASE NewHeader \/ Announce
  <2>1. UNCHANGED <<opt, first, data, pos, ended, shutdown>>
    BY <1>2, Zenon DEF NewHeader, Announce, taskVars
  <2>2. UNCHANGED events \/ \E n \in Block : events' = Append(events, n)
    BY <1>2, Zenon DEF NewHeader, Announce
  <2>3. Len(events) <= Len(events') /\ events' \in Seq(Block) /\ Len(data) <= Len(data')
    BY <1>1, <2>1, <2>2
  <2>4. state.synced = TRUE => state'.synced = TRUE
    <3>1. \/ UNCHANGED state
          \/ state' = [state EXCEPT !.latest = received + 1]
          \/ \E n : state' = [state EXCEPT !.header_verified = RangeSet(@, n)]
      BY <1>2, Zenon DEF NewHeader, Announce
    <3>. QED
      BY <1>1, <3>1 DEF InitialState
  <2>5. CASE first = None
    BY <1>1, <2>1, <2>5, Zenon DEF Stops, StopsForAReason
  <2>6. CASE first # None
    BY <1>1, <2>1, <2>3, <2>4, <2>6, StopsKept, Zenon
  <2>. QED
    BY <2>5, <2>6
<1>3. CASE Spawn
  <2>1. /\ UNCHANGED <<opt, data>>
        /\ ended' = (IF opt.start = None THEN {"sync"} ELSE {})
                    \cup (IF opt.app THEN {} ELSE {"app", "publisher"})
    BY <1>3, Zenon DEF Spawn, channelVars
  <2>2. /\ "light" \notin ended'
        /\ "app" \in ended' => ~opt.app'
        /\ "publisher" \in ended' => ~opt.app'
        /\ "sync" \in ended' => opt'.start = None
    BY <2>1
  <2>3. opt'.start = None => SyncRange' = {}
    BY DEF SyncRange
  <2>. QED
    BY <1>1, <2>1, <2>2, <2>3 DEF Stops, StopsForAReason
<1>4. CASE Restart
  <2>1. first' = None /\ data' = <<>>
    BY <1>4, Zenon DEF Restart
  <2>. QED
    BY <2>1 DEF Stops, StopsForAReason
<1>. QED
  BY <1>2, <1>3, <1>4

\* The tasks that avail-light.rs spawns return only for the reasons their code
\* gives, in any session, for any capacities and whatever the others do: a task
\* that is behind its channel, a shutdown, or the end of its work.
THEOREM TasksStopForAReason == Spec => []StopsForAReason
<1>1. Init => Stops
  <2>1. Init => data = <<>> /\ first = None
    BY Zenon DEF Init
  <2>. QED
    BY <2>1 DEF Stops, StopsForAReason
<1>2. IInv /\ Stops /\ [Next]_vars => Stops'
  <2>. SUFFICES ASSUME IInv, Stops, [Next]_vars
                PROVE  Stops'
    OBVIOUS
  <2>1. CASE UNCHANGED vars
    <3>1. UNCHANGED <<opt, state, events, data, pos, first, ended, shutdown>>
      BY <2>1, Zenon DEF vars, channelVars, taskVars
    <3>. QED
      BY <3>1, Zenon DEF Stops, StopsForAReason, SyncRange, Lagged
  <2>. QED
    BY <2>1, LightStops, SyncStops, AppStops, PublisherStops, FeedStops DEF Next
<1>3. Stops => StopsForAReason
  BY Zenon DEF Stops, StopsForAReason
<1>. QED
  BY <1>1, <1>2, <1>3, InductiveInvariant, PTL DEF Spec
=============================================================================
