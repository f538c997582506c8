---------------------------- MODULE Subscriptions ---------------------------
(***************************************************************************)
(* The subscription loop of src/network/rpc/subscriptions.rs together with *)
(* the node stream that feeds it (subscription_stream of rpc/client.rs).   *)
(*                                                                         *)
(* pc is the place of the loop task:                                       *)
(*   "recv"    awaiting the next item of the stream                        *)
(*   "verify"  at the head of the loop in verify_and_output_block_headers  *)
(*   "output"  sending the skipped blocks bl_num .. header-1, then header  *)
(*   "finality_failed", "fetch_failed", "stopped"  the task has ended      *)
(***************************************************************************)
EXTENDS Chain, Functions

CONSTANT
    StartHead,           \* finalized head when SubscriptionLoop::new ran
    MaxResubscriptions,  \* bound: how often the stream is created anew
    MaxMissed            \* bound: headers missed or repeated on such an occasion

Header == [number : Block, valset : Valset]

ASSUME BoundsAssumption ==
    /\ StartHead \in Block
    /\ MaxResubscriptions \in Nat
    /\ MaxMissed \in Nat

VARIABLE
    pc,
    justifications,      \* stack of justification targets, not yet matched
    unverified_headers,  \* headers with the set that was current on arrival
    current_valset,
    next_valset,
    last_finalized_block_header,
    header,              \* the verified header being sent
    bl_num,              \* the next skipped block to send
    latest,              \* State.latest
    header_verified,     \* State.header_verified
    finality_synced,     \* State.finality_synced
    checkpoint,          \* Key::FinalitySyncCheckpoint in the database
    events,              \* everything sent on the event channel
    stream,              \* [next: next header, just: last justification] of the node stream
    resubscriptions,
    tracked,             \* no authority set change was missed or repeated
    rewound              \* a new stream went back behind the old one

blockData == <<justifications, unverified_headers, current_valset, next_valset,
               last_finalized_block_header>>
loopVars == <<pc, header, bl_num>>
stateVars == <<latest, header_verified, finality_synced, checkpoint>>
streamVars == <<stream, resubscriptions, tracked, rewound>>
vars == <<blockData, loopVars, stateVars, events, streamVars>>
-----------------------------------------------------------------------------
(* Helpers *)

\* Vec::pop: the element that it takes, and what it leaves.
Last(s) == s[Len(s)]
Front(s) == SubSeq(s, 1, Len(s) - 1)

\* Vec::swap_remove: the last element takes the place of the removed one.
SwapRemove(s, pos) ==
    [i \in 1..(Len(s) - 1) |-> IF i = pos THEN s[Len(s)] ELSE s[i]]

\* Positions of the headers with a given number; the code takes the first.
MutPositionsAtOrAbove(n) ==
    {i \in DOMAIN unverified_headers : unverified_headers[i].number >= n}
Positions(n) == {i \in DOMAIN unverified_headers : unverified_headers[i].number = n}

IsFirst(pos, S) == pos \in S /\ \A i \in S : pos <= i

\* The set for the header that arrives: an announced change takes effect.
MutChangeIgnored == current_valset
ActiveValset == IF next_valset # None THEN next_valset ELSE current_valset

\* The range of skipped blocks, (last_header.number + 1)..header.number
FirstSkipped == last_finalized_block_header + 1

MutSkippedInclusive == bl_num <= header
SkippedLeft == bl_num < header

\* What is stored for finality sync when block n is verified.
MutCheckpointNext(n) == [number |-> n + 1, valset |-> current_valset]
MutCheckpointBase(n) == [number |-> last_finalized_block_header, valset |-> current_valset]
CheckpointAt(n) == [number |-> n, valset |-> current_valset]

\* OptionBlockRange::set
MutRangeOnce(range, n) ==
    IF range = None THEN [first |-> n, last |-> n] ELSE range
RangeSet(range, n) ==
    IF range = None THEN [first |-> n, last |-> n] ELSE [range EXCEPT !.last = n]

\* Headers that a stream starting at head h misses or repeats, when the
\* next header of the chain would have been n.
Disturbed(h, n) == IF h < n THEN h..(n - 1) ELSE n..(h - 1)

(***************************************************************************)
(* A new stream delivers the finalized head h of its node first.  The      *)
(* justifications are subscribed to after the headers, so the first ones   *)
(* after h may be missed.                                                  *)
(***************************************************************************)
StreamFrom(h) == {[next |-> h, just |-> j] : j \in h..MaxBlock}
-----------------------------------------------------------------------------
\* SubscriptionLoop::new, and the creation of the first stream in run.
Init ==
    /\ pc = "recv"
    /\ justifications = <<>>
    /\ unverified_headers = <<>>
    /\ current_valset = ValsetAt(StartHead + 1)
    /\ next_valset = None
    /\ last_finalized_block_header = StartHead
    /\ header = StartHead
    /\ bl_num = StartHead
    /\ latest = 0
    /\ header_verified = None
    /\ finality_synced = FALSE
    /\ checkpoint = None
    /\ events = <<>>
    /\ \E h \in Block :
          /\ StartHead <= h /\ h <= StartHead + MaxMissed
          /\ stream \in StreamFrom(h)
          /\ tracked = (AuthChange \cap Disturbed(h, StartHead + 1) = {})
    /\ resubscriptions = 0
    /\ rewound = FALSE

\* handle_new_subscription, Subscription::Header
HandleHeader ==
    LET n == stream.next
        valset == ActiveValset
    IN  /\ pc = "recv"
        /\ n <= MaxBlock
        /\ latest' = n
        /\ current_valset' = valset
        /\ unverified_headers' =
              Append(unverified_headers, [number |-> n, valset |-> valset])
        /\ next_valset' = IF n \in AuthChange
                          THEN [set_id |-> valset.set_id + 1,
                                validator_set |-> Authorities[SetId[n + 1]]]
                          ELSE None
        /\ pc' = "verify"
        /\ stream' = [stream EXCEPT !.next = n + 1]
        /\ UNCHANGED <<justifications, last_finalized_block_header, header, bl_num,
                       header_verified, finality_synced, checkpoint, events,
                       resubscriptions, tracked, rewound>>

(***************************************************************************)
(* handle_new_subscription, Subscription::Justification.  Not every block  *)
(* gets a justification; one that changes the authority set always does.   *)
(***************************************************************************)
HandleJustification ==
    /\ pc = "recv"
    /\ \E t \in (stream.just + 1)..MaxBlock :
          /\ \A c \in AuthChange : c > stream.just => t <= c
          /\ justifications' = Append(justifications, t)
          /\ stream' = [stream EXCEPT !.just = t]
    /\ pc' = "verify"
    /\ UNCHANGED <<unverified_headers, current_valset, next_valset,
                   last_finalized_block_header, header, bl_num, stateVars, events,
                   resubscriptions, tracked, rewound>>
-----------------------------------------------------------------------------
(* verify_and_output_block_headers *)

\* The last justification is popped and put back: no header matches it yet.
MutJustificationDropped ==
    /\ pc = "verify"
    /\ justifications # <<>> => Positions(Last(justifications)) = {}
    /\ pc' = "recv"
    /\ justifications' = IF justifications = <<>> THEN <<>> ELSE Front(justifications)
    /\ UNCHANGED <<unverified_headers, current_valset, next_valset,
                   last_finalized_block_header, header, bl_num, stateVars, events, streamVars>>
MutMatchLater ==
    /\ pc = "verify"
    /\ pc' = "recv"
    /\ UNCHANGED <<blockData, header, bl_num, stateVars, events, streamVars>>
NoMatch ==
    /\ pc = "verify"
    /\ justifications # <<>> => Positions(Last(justifications)) = {}
    /\ pc' = "recv"
    /\ UNCHANGED <<blockData, header, bl_num, stateVars, events, streamVars>>

(***************************************************************************)
(* The last justification is popped and its header is taken out of         *)
(* unverified_headers.  A failed check panics.  The checkpoint pairs the   *)
(* header with the set that is current now.                                *)
(***************************************************************************)
Match ==
    /\ pc = "verify"
    /\ justifications # <<>>
    /\ \E pos \in Positions(Last(justifications)) :
          LET found == unverified_headers[pos]
              is_final == check_finality(found.valset, Justification[Last(justifications)])
          IN  /\ IsFirst(pos, Positions(Last(justifications)))
              /\ unverified_headers' = SwapRemove(unverified_headers, pos)
              /\ header' = found.number
              /\ bl_num' = FirstSkipped
              /\ pc' = IF is_final THEN "output" ELSE "finality_failed"
              /\ checkpoint' = IF is_final /\ finality_synced
                               THEN CheckpointAt(found.number)
                               ELSE checkpoint
    /\ justifications' = Front(justifications)
    /\ UNCHANGED <<current_valset, next_valset, last_finalized_block_header, latest,
                   header_verified, finality_synced, events, streamVars>>

\* A skipped block is sent: a stored header of that number if there is one,
\* otherwise the header the node returns.
SendSkipped ==
    /\ pc = "output"
    /\ SkippedLeft
    /\ \/ \E pos \in Positions(bl_num) :
             /\ IsFirst(pos, Positions(bl_num))
             /\ unverified_headers' = SwapRemove(unverified_headers, pos)
       \/ /\ Positions(bl_num) = {}
          /\ UNCHANGED unverified_headers
    /\ events' = Append(events, bl_num)
    /\ bl_num' = bl_num + 1
    /\ UNCHANGED <<pc, justifications, current_valset, next_valset,
                   last_finalized_block_header, header, stateVars, streamVars>>

\* get_header_by_block_number(bl_num).await.unwrap() on an error
FetchFails ==
    /\ pc = "output"
    /\ SkippedLeft
    /\ Positions(bl_num) = {}
    /\ pc' = "fetch_failed"
    /\ UNCHANGED <<blockData, header, bl_num, stateVars, events, streamVars>>

SendFinalized ==
    /\ pc = "output"
    /\ ~SkippedLeft
    /\ last_finalized_block_header' = header
    /\ header_verified' = RangeSet(header_verified, header)
    /\ events' = Append(events, header)
    /\ pc' = "verify"
    /\ UNCHANGED <<justifications, unverified_headers, current_valset, next_valset,
                   header, bl_num, latest, finality_synced, checkpoint, streamVars>>
-----------------------------------------------------------------------------
\* Another task, started once the first event was received: sync_finality
\* ends, or run finds that finality sync is off.
FinalitySynced ==
    /\ ~finality_synced
    /\ events # <<>>
    /\ finality_synced' = TRUE
    /\ UNCHANGED <<blockData, loopVars, latest, header_verified, checkpoint, events,
                   streamVars>>

\* subscription_stream: the stream ended or failed and a new one, possibly
\* of another node, is created.
Resubscribe ==
    /\ pc = "recv"
    /\ resubscriptions < MaxResubscriptions
    /\ resubscriptions' = resubscriptions + 1
    /\ \E h \in Block :
          /\ h <= stream.next + MaxMissed /\ stream.next <= h + MaxMissed
          /\ stream' \in StreamFrom(h)
          /\ tracked' = (tracked /\ AuthChange \cap Disturbed(h, stream.next) = {})
          /\ rewound' = (rewound \/ h < stream.next \/ stream'.just < stream.just)
    /\ UNCHANGED <<blockData, loopVars, stateVars, events>>

\* subscription_stream: no node accepts a subscription, run returns Err.
StreamFails ==
    /\ pc = "recv"
    /\ pc' = "stopped"
    /\ UNCHANGED <<blockData, header, bl_num, stateVars, events, streamVars>>

Next ==
    \/ HandleHeader \/ HandleJustification
    \/ NoMatch \/ Match \/ SendSkipped \/ FetchFails \/ SendFinalized
    \/ FinalitySynced \/ Resubscribe \/ StreamFails

Spec == Init /\ [][Next]_vars

(***************************************************************************)
(* Fairness.  The tokio task of the loop runs until it awaits the stream;  *)
(* a connected node keeps delivering what it has finalized.                *)
(***************************************************************************)
LoopStep == NoMatch \/ Match \/ SendSkipped \/ SendFinalized

FairSpec == Spec /\ WF_vars(LoopStep) /\ WF_vars(HandleHeader) /\ WF_vars(HandleJustification)
-----------------------------------------------------------------------------
(* Properties *)

\* Type correctness of the loop's state, the shared State and the database.
TypeOK ==
    /\ pc \in {"recv", "verify", "output", "finality_failed", "fetch_failed", "stopped"}
    /\ justifications \in Seq(Block)
    /\ unverified_headers \in Seq(Header)
    /\ current_valset \in Valset
    /\ next_valset \in Valset \cup {None}
    /\ last_finalized_block_header \in Block
    /\ header \in Block
    /\ bl_num \in 0..(MaxBlock + 1)
    /\ latest \in Block
    /\ header_verified \in [first : Block, last : Block] \cup {None}
    /\ finality_synced \in BOOLEAN
    /\ checkpoint \in [number : Block, valset : Valset] \cup {None}
    /\ events \in Seq(Block)
    /\ stream \in [next : 0..(MaxBlock + 1), just : Block]
    /\ resubscriptions \in 0..MaxResubscriptions
    /\ tracked \in BOOLEAN
    /\ rewound \in BOOLEAN

Feed == INSTANCE BlockFeed

\* The loop implements the feed its receivers rely on: the blocks it sends
\* (the skipped ones and the justified one) leave no gap, and none is sent
\* twice unless a new stream of the node went back behind the old one.
FeedRefinement == Feed!FeedSpec

\* expect("Finality check failed") panics only after a new stream missed or
\* repeated a header with an authority set change: the set stored with each
\* unverified header is otherwise the one that signed its justification.
FailsOnlyOnLostSetChange == pc = "finality_failed" => ~tracked

\* A block is announced only when the node has delivered a justification at
\* or above it and a header at or above it.
AnnouncedAreFinal ==
    ~rewound => \A i \in DOMAIN events :
                    events[i] <= stream.just /\ events[i] < stream.next

\* Whenever the loop awaits the stream, State.header_verified ends at the
\* block announced last, which is also the base for the next skipped block.
HeaderVerifiedIsTip ==
    pc \in {"recv", "verify"} =>
        /\ last_finalized_block_header = Feed!Tip
        /\ IF events = <<>> THEN header_verified = None
                            ELSE header_verified.last = Feed!Tip

\* A justified block is not withheld.  Whenever the loop awaits the stream, a
\* block whose justification it keeps was announced, unless the header of the
\* newest justification is still to come: only the top of the stack is looked
\* at, so that one holds back those below it, their headers there or not.
NothingWithheld ==
    (pc = "recv" /\ resubscriptions = 0) =>
        \A i \in DOMAIN justifications :
            justifications[i] <= Feed!Tip \/ stream.next <= Last(justifications)

\* The checkpoint that finality sync resumes from moves forward only, and
\* never names a block without a verified justification.
CheckpointAdvances ==
    [][ (checkpoint' # checkpoint /\ ~rewound) =>
            /\ checkpoint # None => checkpoint'.number > checkpoint.number
            /\ checkpoint'.number > last_finalized_block_header
            /\ checkpoint'.number <= stream.just ]_vars

\* The set in the checkpoint is never older than its block: it is the set in
\* force at the block or at a later block whose header has arrived.
CheckpointSetNotStale ==
    (tracked /\ ~rewound /\ checkpoint # None) =>
        \E m \in Block : /\ checkpoint.number <= m
                        /\ m < stream.next
                        /\ checkpoint.valset = ValsetAt(m)

\* A block whose justification has arrived is announced, although its header
\* may come later and newer justifications are stacked above its own (or the
\* loop ends, or the subscription is replaced and the header may be lost).
JustifiedIsAnnounced ==
    \A n \in Block :
        n \in Range(justifications)
            ~> (n \in Range(events) \/ pc \in {"fetch_failed", "finality_failed", "stopped"}
                \/ resubscriptions > 0)

\* Finality sync, resumed from the checkpoint after a restart, gets through its
\* check (context "Finality sync check failed", sync_finality.rs:309) at the first
\* set change it meets: the node's justification of that block is accepted by the
\* set the checkpoint holds.
CheckpointResumes ==
    (tracked /\ ~rewound /\ checkpoint # None) =>
        \A c \in AuthChange :
            (checkpoint.number <= c /\ AuthChange \cap (checkpoint.number..(c - 1)) = {})
                => check_finality(checkpoint.valset, Justification[c])
-----------------------------------------------------------------------------
(* The inductive invariant behind the properties above *)

\* The block after the last one announced.
Floor == IF pc = "output" THEN bl_num ELSE last_finalized_block_header + 1

\* Where the feed stands while the loop sends.
TipInv ==
    /\ HeaderVerifiedIsTip
    /\ pc = "output" =>
          /\ Feed!Tip = bl_num - 1
          /\ last_finalized_block_header < bl_num
          /\ bl_num <= header \/ bl_num = last_finalized_block_header + 1

\* Justifications are of blocks after the start, and have been delivered.
StackInv ==
    /\ StartHead <= stream.just
    /\ \A i \in DOMAIN justifications :
          StartHead < justifications[i] /\ justifications[i] <= stream.just

\* Headers are kept once, and only until they are announced; the start head,
\* which the first stream may repeat, stays.
QueueInv ==
    /\ \A i \in DOMAIN unverified_headers :
          LET n == unverified_headers[i].number
          IN  /\ n < stream.next
              /\ n = StartHead \/ Floor <= n
              /\ pc = "output" => n # header
    /\ \A i, j \in DOMAIN unverified_headers :
          i # j => unverified_headers[i].number # unverified_headers[j].number

OrderInv ==
    /\ StartHead <= last_finalized_block_header
    /\ \/ last_finalized_block_header < stream.next
       \/ last_finalized_block_header = StartHead /\ stream.next = StartHead
    /\ pc = "output" => /\ last_finalized_block_header < header
                        /\ header <= stream.just
                        /\ header < stream.next
    /\ checkpoint # None => checkpoint.number <=
          IF pc \in {"output", "fetch_failed"} THEN header ELSE last_finalized_block_header

\* As long as every authority set change was seen once, each header carries
\* the set in force at its block and the next header will, too.
SetInv ==
    /\ \A i \in DOMAIN unverified_headers :
          unverified_headers[i].valset = ValsetAt(unverified_headers[i].number)
    /\ ActiveValset = ValsetAt(stream.next)

\* What the checkpoint is written from.
CurrentInv ==
    unverified_headers # <<>> =>
        /\ current_valset = ValsetAt(latest)
        /\ latest < stream.next
        /\ \A i \in DOMAIN unverified_headers : unverified_headers[i].number <= latest

\* NothingWithheld, relative to IInv: justifications come in block order, and the
\* header of one that is kept, or that may still come, stays in the queue from its
\* arrival until it is announced.
Ascending ==
    \A i, j \in DOMAIN justifications : i < j => justifications[i] < justifications[j]

HeadersKept ==
    \A n \in Block :
        /\ Floor <= n /\ n < stream.next
        /\ stream.just < n \/ \E i \in DOMAIN justifications : justifications[i] = n
        => Positions(n) # {}

WithheldInv ==
    resubscriptions = 0 =>
        /\ ~rewound
        /\ Ascending
        /\ pc \in {"recv", "verify", "output"} => HeadersKept
        /\ NothingWithheld

\* All of it: without a rewound stream the order of the feed, without a lost
\* set change the right sets, and with both the checkpoint's set.
IInv ==
    /\ TypeOK
    /\ TipInv
    /\ ~rewound => StackInv /\ QueueInv /\ OrderInv /\ AnnouncedAreFinal
    /\ tracked => SetInv
    /\ tracked /\ ~rewound => CurrentInv
    /\ CheckpointSetNotStale
    /\ FailsOnlyOnLostSetChange
=============================================================================
