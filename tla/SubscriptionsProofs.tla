------------------------- MODULE SubscriptionsProofs ------------------------
(***************************************************************************)
(* Proofs about Subscriptions for every chain, every schedule of authority *)
(* set changes and every number of new streams.                            *)
(***************************************************************************)
EXTENDS Subscriptions, SequenceTheorems, TLAPS

\* Abbreviations of one expression of the code; no step needs them folded.
USE DEF ActiveValset, FirstSkipped, SkippedLeft, CheckpointAt

LEMMA IntervalEnd ==
    ASSUME NEW a \in Nat, NEW b \in Nat, 1..a = 1..b
    PROVE  a = b
<1>1. a <= b
  <2>1. a = 0 \/ a \in 1..a
    OBVIOUS
  <2>. QED
    BY <2>1
<1>2. b <= a
  <2>1. b = 0 \/ b \in 1..b
    OBVIOUS
  <2>. QED
    BY <2>1
<1>. QED
  BY <1>1, <1>2

\* A justification that comes after the last one is of a block of the chain.
LEMMA LaterBlocks == \A n \in Block : \A t \in (n + 1)..MaxBlock : t \in Block /\ n < t
BY ChainAssumption DEF Block

LEMMA StreamType ==
    ASSUME TypeOK
    PROVE  stream.next \in 0..(MaxBlock + 1) /\ stream.just \in Block
<1>1. stream \in [next : 0..(MaxBlock + 1), just : Block]
  BY Zenon DEF TypeOK
<1>. QED
  BY <1>1

\* swap_remove yields a sequence of the same elements, one shorter.
LEMMA SwapRemoveProperties ==
    ASSUME NEW S, NEW s \in Seq(S), NEW pos \in DOMAIN s
    PROVE  /\ SwapRemove(s, pos) \in Seq(S)
           /\ Len(SwapRemove(s, pos)) = Len(s) - 1
           /\ DOMAIN SwapRemove(s, pos) = 1..(Len(s) - 1)
<1>. DEFINE t == SwapRemove(s, pos)
<1>1. /\ Len(s) \in Nat /\ DOMAIN s = 1..Len(s) /\ s \in [1..Len(s) -> S]
      /\ Len(s) - 1 \in Nat
  BY LenProperties
<1>2. t \in [1..(Len(s) - 1) -> S]
  BY <1>1 DEF SwapRemove
<1>3. t \in Seq(S)
  BY <1>1, <1>2, SeqDef
<1>4. DOMAIN t = 1..(Len(s) - 1) /\ Len(t) = Len(s) - 1
  <2>1. DOMAIN t = 1..(Len(s) - 1)
    BY <1>2
  <2>2. Len(t) \in Nat /\ DOMAIN t = 1..Len(t)
    BY <1>3, LenProperties
  <2>. HIDE DEF t
  <2>. QED
    BY <1>1, <2>1, <2>2, IntervalEnd, Zenon
<1>. QED
  BY <1>3, <1>4

\* Popping the stack of justifications.
LEMMA FrontLastProperties ==
    ASSUME NEW S, NEW s \in Seq(S), s # <<>>
    PROVE  /\ Last(s) = s[Len(s)] /\ Last(s) \in S
           /\ Len(s) \in DOMAIN s
           /\ Front(s) \in Seq(S)
           /\ \A i \in DOMAIN Front(s) : i \in DOMAIN s /\ Front(s)[i] = s[i]
<1>1. /\ Len(s) \in Nat \ {0} /\ DOMAIN s = 1..Len(s) /\ s \in [1..Len(s) -> S]
  BY LenProperties, EmptySeq
<1>2. /\ SubSeq(s, 1, Len(s) - 1) \in Seq(S)
      /\ Len(SubSeq(s, 1, Len(s) - 1)) = Len(s) - 1
      /\ \A i \in 1..(Len(s) - 1) : SubSeq(s, 1, Len(s) - 1)[i] = s[i]
  BY <1>1, SubSeqProperties, SMT
<1>3. DOMAIN SubSeq(s, 1, Len(s) - 1) = 1..(Len(s) - 1)
  BY <1>2, LenProperties
<1>. QED
  BY <1>1, <1>2, <1>3 DEF Front, Last

\* A sequence of events after one more is sent.
LEMMA AppendFacts ==
    ASSUME NEW S, NEW s \in Seq(S), NEW e \in S
    PROVE  /\ Append(s, e) \in Seq(S) /\ Append(s, e) # <<>>
           /\ DOMAIN s = 1..Len(s) /\ Len(s) \in Nat
           /\ Len(Append(s, e)) = Len(s) + 1
           /\ DOMAIN Append(s, e) = 1..(Len(s) + 1)
           /\ \A i \in DOMAIN Append(s, e) :
                 /\ i \in DOMAIN s => Append(s, e)[i] = s[i]
                 /\ i \notin DOMAIN s => i = Len(s) + 1 /\ Append(s, e)[i] = e
           /\ Append(s, e)[Len(Append(s, e))] = e
<1>1. Append(s, e) \in Seq(S) /\ Append(s, e) # <<>> /\ Len(Append(s, e)) = Len(s) + 1
      /\ (\A i \in 1..Len(s) : Append(s, e)[i] = s[i]) /\ Append(s, e)[Len(s) + 1] = e
  BY AppendProperties
<1>2. DOMAIN s = 1..Len(s) /\ Len(s) \in Nat
      /\ DOMAIN Append(s, e) = 1..(Len(s) + 1)
  BY <1>1, LenProperties
<1>. QED
  BY <1>1, <1>2

LEMMA ValsetAtType ==
    ASSUME NEW n \in 0..(MaxBlock + 1)
    PROVE  ValsetAt(n) \in Valset /\ ValsetAt(n) # None
BY SetIdAssumption, NoneAssumption DEF ValsetAt, Valset

\* A stream that misses or repeats no authority set change leaves the set in
\* force at its next header as it was.
LEMMA UndisturbedSet ==
    ASSUME NEW h \in 0..(MaxBlock + 1), NEW n \in 0..(MaxBlock + 1),
           AuthChange \cap Disturbed(h, n) = {}
    PROVE  ValsetAt(h) = ValsetAt(n)
<1>. SUFFICES SetId[h] = SetId[n]
  BY DEF ValsetAt
<1>1. CASE h < n
  BY <1>1, SetIdAssumption DEF Disturbed
<1>2. CASE ~(h < n)
  <2>1. n <= h /\ AuthChange \cap (n..(h - 1)) = {}
    BY <1>2, ChainAssumption, BoundsAssumption DEF Disturbed
  <2>. QED
    BY <2>1, SetIdAssumption
<1>. QED
  BY <1>1, <1>2
-----------------------------------------------------------------------------
(* Type correctness *)

LEMMA TypeInit == Init => TypeOK
<1>. SUFFICES ASSUME Init PROVE TypeOK
  OBVIOUS
<1>1. StartHead + 1 \in 0..(MaxBlock + 1)
  BY ChainAssumption, BoundsAssumption DEF Block
<1>2. current_valset \in Valset
  BY <1>1, ValsetAtType DEF Init
<1>3. stream \in [next : 0..(MaxBlock + 1), just : Block]
  BY ChainAssumption, BoundsAssumption DEF Init, StreamFrom, Block
<1>4. /\ justifications \in Seq(Block) /\ unverified_headers \in Seq(Header)
      /\ events \in Seq(Block)
  BY EmptySeq DEF Init
<1>5. tracked \in BOOLEAN
  BY DEF Init
<1>6. /\ last_finalized_block_header \in Block /\ header \in Block /\ latest \in Block
      /\ bl_num \in 0..(MaxBlock + 1) /\ resubscriptions \in 0..MaxResubscriptions
  BY ChainAssumption, BoundsAssumption DEF Init, Block
<1>7. /\ next_valset = None /\ header_verified = None /\ checkpoint = None
      /\ finality_synced = FALSE /\ rewound = FALSE /\ pc = "recv"
  BY DEF Init
<1>. QED
  BY <1>2, <1>3, <1>4, <1>5, <1>6, <1>7, Zenon DEF TypeOK

LEMMA TypeStep == TypeOK /\ [Next]_vars => TypeOK'
<1>. SUFFICES ASSUME TypeOK, [Next]_vars PROVE TypeOK'
  OBVIOUS
<1>. USE DEF TypeOK
<1>1. CASE HandleHeader
  <2>. DEFINE valset == IF next_valset # None THEN next_valset ELSE current_valset
  <2>1. stream.next \in Block /\ valset \in Valset
    BY <1>1, ChainAssumption, BoundsAssumption DEF HandleHeader, Block
  <2>2. [number |-> stream.next, valset |-> valset] \in Header
    BY <2>1 DEF Header
  <2>3. unverified_headers' \in Seq(Header)
    BY <1>1, <2>2, AppendFacts DEF HandleHeader
  <2>4. next_valset' \in Valset \cup {None}
    <3>1. stream.next + 1 \in 0..(MaxBlock + 1)
      BY <2>1, ChainAssumption, BoundsAssumption DEF Block
    <3>2. Authorities[SetId[stream.next + 1]] \in {Authorities[i] : i \in DOMAIN Authorities}
      BY <3>1, SetIdAssumption
    <3>3. valset.set_id + 1 \in Nat
      BY <2>1 DEF Valset
    <3>4. [set_id |-> valset.set_id + 1,
           validator_set |-> Authorities[SetId[stream.next + 1]]] \in Valset
      BY <3>2, <3>3 DEF Valset
    <3>. QED
      BY <1>1, <3>4 DEF HandleHeader
  <2>5. stream' \in [next : 0..(MaxBlock + 1), just : Block]
    <3>1. stream.next + 1 \in 0..(MaxBlock + 1)
      BY <2>1, ChainAssumption, BoundsAssumption DEF Block
    <3>2. stream' = [stream EXCEPT !.next = stream.next + 1]
      BY <1>1 DEF HandleHeader
    <3>. QED
      BY <3>1, <3>2
  <2>. QED
    BY <1>1, <2>1, <2>3, <2>4, <2>5 DEF HandleHeader
<1>2. CASE HandleJustification
  <2>1. PICK t \in (stream.just + 1)..MaxBlock :
            /\ justifications' = Append(justifications, t)
            /\ stream' = [stream EXCEPT !.just = t]
    BY <1>2, Zenon DEF HandleJustification
  <2>2. t \in Block
    BY StreamType, LaterBlocks, Zenon
  <2>3. justifications' \in Seq(Block)
    BY <2>1, <2>2, AppendFacts
  <2>4. stream' \in [next : 0..(MaxBlock + 1), just : Block]
    BY <2>1, <2>2
  <2>. QED
    BY <1>2, <2>3, <2>4 DEF HandleJustification, stateVars
<1>3. CASE NoMatch
  BY <1>3 DEF NoMatch, blockData, stateVars, streamVars
<1>4. CASE Match
  <2>1. PICK pos \in Positions(Last(justifications)) :
            /\ unverified_headers' = SwapRemove(unverified_headers, pos)
            /\ header' = unverified_headers[pos].number
            /\ bl_num' = last_finalized_block_header + 1
            /\ pc' \in {"output", "finality_failed"}
            /\ checkpoint' \in {checkpoint, [number |-> unverified_headers[pos].number,
                                             valset |-> current_valset]}
    BY <1>4 DEF Match
  <2>2. unverified_headers[pos] \in Header /\ pos \in DOMAIN unverified_headers
    BY <2>1, LenProperties, ElementOfSeq DEF Positions
  <2>3. unverified_headers' \in Seq(Header)
    BY <2>1, <2>2, SwapRemoveProperties
  <2>4. justifications' \in Seq(Block)
    BY <1>4, FrontLastProperties, ZenonT(30) DEF Match
  <2>5. header' \in Block /\ bl_num' \in 0..(MaxBlock + 1)
    BY <2>1, <2>2, ChainAssumption, BoundsAssumption DEF Header, Block
  <2>6. checkpoint' \in [number : Block, valset : Valset] \cup {None}
    BY <2>1, <2>2 DEF Header
  <2>. QED
    BY <1>4, <2>1, <2>3, <2>4, <2>5, <2>6 DEF Match, streamVars
<1>5. CASE SendSkipped
  <2>1. unverified_headers' \in Seq(Header)
    <3>1. CASE UNCHANGED unverified_headers
      BY <3>1
    <3>2. CASE ~ UNCHANGED unverified_headers
      <4>1. PICK pos \in Positions(bl_num) :
                unverified_headers' = SwapRemove(unverified_headers, pos)
        BY <1>5, <3>2 DEF SendSkipped
      <4>. QED
        BY <4>1, SwapRemoveProperties DEF Positions
    <3>. QED
      BY <3>1, <3>2
  <2>2. bl_num \in Block /\ bl_num' \in 0..(MaxBlock + 1)
    BY <1>5, ChainAssumption, BoundsAssumption DEF SendSkipped, Block
  <2>3. events' \in Seq(Block)
    BY <1>5, <2>2, AppendFacts DEF SendSkipped
  <2>. QED
    BY <1>5, <2>1, <2>2, <2>3 DEF SendSkipped, stateVars, streamVars
<1>6. CASE FetchFails
  BY <1>6 DEF FetchFails, blockData, stateVars, streamVars
<1>7. CASE SendFinalized
  <2>1. events' \in Seq(Block)
    BY <1>7, AppendFacts DEF SendFinalized
  <2>2. header_verified' \in [first : Block, last : Block] \cup {None}
    BY <1>7 DEF SendFinalized, RangeSet
  <2>. QED
    BY <1>7, <2>1, <2>2 DEF SendFinalized, streamVars
<1>8. CASE FinalitySynced
  BY <1>8 DEF FinalitySynced, blockData, loopVars, streamVars
<1>9. CASE Resubscribe
  <2>1. stream' \in [next : 0..(MaxBlock + 1), just : Block]
    BY <1>9, ChainAssumption, BoundsAssumption, SMTT(60) DEF Resubscribe, StreamFrom, Block
  <2>2. tracked' \in BOOLEAN /\ rewound' \in BOOLEAN
    BY <1>9 DEF Resubscribe
  <2>3. resubscriptions' \in 0..MaxResubscriptions
    BY <1>9, ChainAssumption, BoundsAssumption DEF Resubscribe
  <2>. QED
    BY <1>9, <2>1, <2>2, <2>3 DEF Resubscribe, blockData, loopVars, stateVars
<1>10. CASE StreamFails
  BY <1>10 DEF StreamFails, blockData, stateVars, streamVars
<1>11. CASE UNCHANGED vars
  BY <1>11 DEF vars, blockData, loopVars, stateVars, streamVars
<1>. QED
  BY <1>1, <1>2, <1>3, <1>4, <1>5, <1>6, <1>7, <1>8, <1>9, <1>10, <1>11 DEF Next

\* The state of the subscription loop keeps its types, whatever the stream
\* delivers and however often it is created anew.
THEOREM TypeCorrect == Spec => []TypeOK
<1>1. Init => TypeOK
  BY TypeInit
<1>2. TypeOK /\ [Next]_vars => TypeOK'
  BY TypeStep
<1>. QED
  BY <1>1, <1>2, PTL DEF Spec
-----------------------------------------------------------------------------
(* The feed: where it stands *)

\* Sending block n makes n the tip of the feed.
LEMMA TipAfterSend ==
    ASSUME TypeOK, NEW n \in Block, events' = Append(events, n)
    PROVE  Feed!Tip' = n /\ events' # <<>>
<1>1. events' # <<>> /\ events'[Len(events')] = n
  BY AppendFacts DEF TypeOK
<1>. QED
  BY <1>1 DEF Feed!Tip

LEMMA TipInit == Init => TipInv
BY ChainAssumption, BoundsAssumption DEF Init, TipInv, HeaderVerifiedIsTip, Feed!Tip

LEMMA TipStep == TypeOK /\ TipInv /\ [Next]_vars => TipInv'
<1>. SUFFICES ASSUME TypeOK, TipInv, [Next]_vars PROVE TipInv'
  OBVIOUS
<1>. USE DEF TipInv, HeaderVerifiedIsTip
<1>1. CASE HandleHeader
  BY <1>1 DEF HandleHeader, Feed!Tip
<1>2. CASE HandleJustification
  BY <1>2 DEF HandleJustification, stateVars, Feed!Tip
<1>3. CASE NoMatch
  BY <1>3 DEF NoMatch, blockData, stateVars, Feed!Tip
<1>4. CASE Match
  <2>1. /\ bl_num' = last_finalized_block_header + 1
        /\ pc' \in {"output", "finality_failed"}
        /\ pc = "verify" /\ UNCHANGED <<events, last_finalized_block_header>>
    BY <1>4 DEF Match
  <2>2. Feed!Tip' = last_finalized_block_header
    BY <2>1 DEF Feed!Tip
  <2>. QED
    BY <2>1, <2>2 DEF TypeOK, Block
<1>5. CASE SendSkipped
  <2>1. bl_num \in Block /\ bl_num < header /\ events' = Append(events, bl_num)
        /\ bl_num' = bl_num + 1 /\ pc = "output"
        /\ UNCHANGED <<pc, header, last_finalized_block_header>>
    BY <1>5, ChainAssumption, BoundsAssumption DEF SendSkipped, TypeOK, Block
  <2>2. Feed!Tip' = bl_num
    BY <2>1, TipAfterSend
  <2>. QED
    BY <2>1, <2>2 DEF TypeOK, Block
<1>6. CASE FetchFails
  BY <1>6 DEF FetchFails
<1>7. CASE SendFinalized
  <2>1. events' = Append(events, header) /\ pc' = "verify"
        /\ last_finalized_block_header' = header
        /\ header_verified' = RangeSet(header_verified, header)
    BY <1>7 DEF SendFinalized
  <2>2. Feed!Tip' = header /\ events' # <<>>
    BY <2>1, TipAfterSend DEF TypeOK
  <2>3. header_verified'.last = header
    BY <2>1 DEF RangeSet, TypeOK
  <2>. QED
    BY <2>1, <2>2, <2>3
<1>8. CASE FinalitySynced
  BY <1>8 DEF FinalitySynced, blockData, loopVars, Feed!Tip
<1>9. CASE Resubscribe
  BY <1>9 DEF Resubscribe, blockData, loopVars, stateVars, Feed!Tip
<1>10. CASE StreamFails
  BY <1>10 DEF StreamFails
<1>11. CASE UNCHANGED vars
  BY <1>11 DEF vars, blockData, loopVars, stateVars, Feed!Tip
<1>. QED
  BY <1>1, <1>2, <1>3, <1>4, <1>5, <1>6, <1>7, <1>8, <1>9, <1>10, <1>11 DEF Next
-----------------------------------------------------------------------------
(* The feed: its order while no stream went back *)

Ordered == StackInv /\ QueueInv /\ OrderInv /\ AnnouncedAreFinal

\* Every header left after a removal was there before, under another position,
\* and two different ones come from two different positions.
LEMMA RemovedFromQueue ==
    ASSUME TypeOK, NEW pos \in DOMAIN unverified_headers,
           unverified_headers' = SwapRemove(unverified_headers, pos)
    PROVE  \E src \in [DOMAIN unverified_headers' -> DOMAIN unverified_headers] :
              /\ \A i \in DOMAIN unverified_headers' :
                    src[i] # pos /\ unverified_headers'[i] = unverified_headers[src[i]]
              /\ \A i, j \in DOMAIN unverified_headers' : i # j => src[i] # src[j]
<1>. DEFINE s == unverified_headers
            t == SwapRemove(s, pos)
            src == [i \in DOMAIN t |-> IF i = pos THEN Len(s) ELSE i]
<1>1. s \in Seq(Header) /\ Len(s) \in Nat /\ DOMAIN s = 1..Len(s)
  BY LenProperties DEF TypeOK
<1>2. DOMAIN t = 1..(Len(s) - 1)
  BY <1>1, SwapRemoveProperties
<1>3. \A i \in DOMAIN t : LET k == IF i = pos THEN Len(s) ELSE i
                          IN  k \in DOMAIN s /\ k # pos /\ t[i] = s[k]
  BY <1>1, <1>2 DEF SwapRemove
<1>. HIDE DEF t
<1>4. \A i \in DOMAIN t : src[i] \in DOMAIN s /\ src[i] # pos /\ t[i] = s[src[i]]
  BY <1>3
<1>5. \A i, j \in DOMAIN t : i # j => src[i] # src[j]
  BY <1>1, <1>2
<1>6. src \in [DOMAIN t -> DOMAIN s]
  BY <1>4
<1>7. unverified_headers' = t
  BY DEF t
<1>. HIDE DEF src
<1>. QED
  BY <1>4, <1>5, <1>6, <1>7

LEMMA OrderedInit == Init => Ordered
<1>. SUFFICES ASSUME Init PROVE Ordered
  OBVIOUS
<1>1. PICK h \in Block : StartHead <= h /\ stream \in StreamFrom(h)
  BY DEF Init
<1>2. stream.next = h /\ stream.just >= h /\ stream.just \in Int
  BY <1>1, ChainAssumption, BoundsAssumption DEF StreamFrom, Block
<1>3. justifications = <<>> /\ unverified_headers = <<>> /\ events = <<>>
      /\ pc = "recv" /\ last_finalized_block_header = StartHead /\ checkpoint = None
  BY DEF Init
<1>4. DOMAIN justifications = {} /\ DOMAIN unverified_headers = {} /\ DOMAIN events = {}
  BY <1>3
<1>. QED
  BY <1>1, <1>2, <1>3, <1>4, ChainAssumption, BoundsAssumption
     DEF Ordered, StackInv, QueueInv, OrderInv, AnnouncedAreFinal, Block

\* Facts about numbers that the steps below use.
LEMMA Numbers ==
    ASSUME TypeOK
    PROVE  /\ StartHead \in Nat /\ MaxBlock \in Nat
           /\ stream.next \in Nat /\ stream.just \in Nat
           /\ last_finalized_block_header \in Nat /\ header \in Nat /\ bl_num \in Nat
           /\ \A i \in DOMAIN justifications : justifications[i] \in Nat
           /\ \A i \in DOMAIN unverified_headers : unverified_headers[i].number \in Nat
           /\ \A i \in DOMAIN events : events[i] \in Nat
           /\ checkpoint # None => checkpoint.number \in Nat
<1>1. \A i \in DOMAIN justifications : justifications[i] \in Block
  BY LenProperties, ElementOfSeq DEF TypeOK
<1>2. \A i \in DOMAIN events : events[i] \in Block
  BY LenProperties, ElementOfSeq DEF TypeOK
<1>3. \A i \in DOMAIN unverified_headers : unverified_headers[i] \in Header
  BY LenProperties, ElementOfSeq DEF TypeOK
<1>4. \A i \in DOMAIN unverified_headers : unverified_headers[i].number \in Block
  BY <1>3 DEF Header
<1>5. Block \subseteq Nat /\ MaxBlock \in Nat /\ StartHead \in Block
  BY ChainAssumption, BoundsAssumption DEF Block
<1>6. /\ stream \in [next : 0..(MaxBlock + 1), just : Block] /\ bl_num \in 0..(MaxBlock + 1)
      /\ last_finalized_block_header \in Block /\ header \in Block
      /\ checkpoint \in [number : Block, valset : Valset] \cup {None}
  BY Zenon DEF TypeOK
<1>7. stream.next \in Nat /\ bl_num \in Nat
  BY <1>5, <1>6
<1>8. stream.just \in Block /\ (checkpoint # None => checkpoint.number \in Block)
  BY <1>6
<1>. QED
  BY <1>1, <1>2, <1>4, <1>5, <1>6, <1>7, <1>8, Zenon

\* A header that arrives in order is new, and above everything announced.
LEMMA OrderedHandleHeader ==
    ASSUME TypeOK, ~rewound, Ordered, HandleHeader
    PROVE  Ordered'
<1>. DEFINE n == stream.next
            valset == IF next_valset # None THEN next_valset ELSE current_valset
            new == [number |-> n, valset |-> valset]
<1>1. /\ pc = "recv" /\ pc' = "verify" /\ stream'.next = n + 1 /\ stream'.just = stream.just
      /\ unverified_headers' = Append(unverified_headers, new)
      /\ UNCHANGED <<justifications, last_finalized_block_header, header, bl_num,
                     checkpoint, events, rewound>>
  BY DEF HandleHeader, TypeOK
<1>2. n \in Block /\ new \in Header
  BY ChainAssumption, BoundsAssumption DEF HandleHeader, TypeOK, Block, Header
<1>3. /\ DOMAIN unverified_headers' = 1..(Len(unverified_headers) + 1)
      /\ DOMAIN unverified_headers = 1..Len(unverified_headers)
      /\ Len(unverified_headers) \in Nat
      /\ \A i \in DOMAIN unverified_headers' :
            /\ i \in DOMAIN unverified_headers => unverified_headers'[i] = unverified_headers[i]
            /\ i \notin DOMAIN unverified_headers =>
                  i = Len(unverified_headers) + 1 /\ unverified_headers'[i].number = n
  BY <1>1, <1>2, AppendFacts, SMTT(30) DEF TypeOK
<1>. HIDE DEF n, new, valset
<1>4. n = stream.next
  BY DEF n
<1>. USE Numbers DEF Ordered
<1>5. StackInv'
  BY <1>1 DEF StackInv
<1>6. OrderInv'
  BY <1>1, <1>4 DEF OrderInv
<1>7. AnnouncedAreFinal'
  BY <1>1, <1>4, SMTT(30) DEF AnnouncedAreFinal
<1>8. QueueInv'
  <2>1. \A i \in DOMAIN unverified_headers' :
           LET m == unverified_headers'[i].number
           IN  m < stream'.next /\ (m = StartHead \/ last_finalized_block_header + 1 <= m)
    BY <1>1, <1>3, <1>4, SMTT(30) DEF QueueInv, OrderInv, Floor
  <2>2. \A i, j \in DOMAIN unverified_headers' :
           i # j => unverified_headers'[i].number # unverified_headers'[j].number
    BY <1>1, <1>3, <1>4, SMTT(30) DEF QueueInv
  <2>. QED
    BY <1>1, <2>1, <2>2 DEF QueueInv, Floor
<1>. QED
  BY <1>5, <1>6, <1>7, <1>8

LEMMA OrderedHandleJustification ==
    ASSUME TypeOK, ~rewound, Ordered, HandleJustification
    PROVE  Ordered'
<1>1. PICK t \in (stream.just + 1)..MaxBlock :
          /\ justifications' = Append(justifications, t)
          /\ stream' = [stream EXCEPT !.just = t]
  BY DEF HandleJustification
<1>2. /\ stream'.just = t /\ stream'.next = stream.next /\ t \in Block /\ stream.just < t
  <2>1. stream \in [next : 0..(MaxBlock + 1), just : Block]
    BY Zenon DEF TypeOK
  <2>2. stream'.just = t /\ stream'.next = stream.next
    BY <1>1, <2>1
  <2>. QED
    BY <2>2, StreamType, LaterBlocks, Zenon
<1>3. /\ pc = "recv" /\ pc' = "verify"
      /\ UNCHANGED <<unverified_headers, last_finalized_block_header, header, bl_num,
                     checkpoint, events, rewound>>
  BY DEF HandleJustification, stateVars
<1>4. \A i \in DOMAIN justifications' :
         IF i \in DOMAIN justifications THEN justifications'[i] = justifications[i]
                                        ELSE justifications'[i] = t
  BY <1>1, <1>2, AppendFacts DEF TypeOK
<1>. USE Numbers DEF Ordered
<1>5. StackInv'
  <2>1. /\ StartHead <= stream.just
        /\ \A i \in DOMAIN justifications :
              StartHead < justifications[i] /\ justifications[i] <= stream.just
    BY Zenon DEF StackInv
  <2>2. t \in Nat
    BY <1>2, ChainAssumption DEF Block
  <2>3. ASSUME NEW i \in DOMAIN justifications'
        PROVE  StartHead < justifications'[i] /\ justifications'[i] <= t
    BY <1>2, <1>4, <2>1, <2>2
  <2>. QED
    BY <1>2, <2>1, <2>2, <2>3 DEF StackInv
<1>6. OrderInv'
  BY <1>2, <1>3, SMTT(30) DEF OrderInv
<1>7. AnnouncedAreFinal'
  BY <1>2, <1>3 DEF AnnouncedAreFinal
<1>8. QueueInv'
  BY <1>2, <1>3 DEF QueueInv, Floor
<1>. QED
  BY <1>5, <1>6, <1>7, <1>8

\* The header that matches is above everything announced, because the start
\* head has no justification in the stack; it was stored once.
LEMMA OrderedMatch ==
    ASSUME TypeOK, ~rewound, Ordered, Match
    PROVE  Ordered'
<1>. DEFINE top == Last(justifications)
<1>1. PICK pos \in Positions(top) :
          /\ unverified_headers' = SwapRemove(unverified_headers, pos)
          /\ header' = unverified_headers[pos].number
          /\ bl_num' = last_finalized_block_header + 1
          /\ pc' \in {"output", "finality_failed"}
          /\ \/ checkpoint' = checkpoint
             \/ pc' = "output" /\ checkpoint'.number = unverified_headers[pos].number
  BY DEF Match
<1>2. /\ pc = "verify" /\ justifications # <<>> /\ justifications' = Front(justifications)
      /\ UNCHANGED <<last_finalized_block_header, events, stream, rewound>>
  BY DEF Match, streamVars
<1>3. /\ top = justifications[Len(justifications)]
      /\ Len(justifications) \in DOMAIN justifications
      /\ \A i \in DOMAIN justifications' :
            i \in DOMAIN justifications /\ justifications'[i] = justifications[i]
  <2>1. justifications \in Seq(Block)
    BY DEF TypeOK
  <2>2. /\ Last(justifications) = justifications[Len(justifications)]
        /\ Len(justifications) \in DOMAIN justifications
        /\ \A i \in DOMAIN Front(justifications) :
              i \in DOMAIN justifications /\ Front(justifications)[i] = justifications[i]
    BY <1>2, <2>1, FrontLastProperties
  <2>. QED
    BY <1>2, <2>2
<1>4. pos \in DOMAIN unverified_headers /\ unverified_headers[pos].number = top
  BY DEF Positions
<1>. HIDE DEF top
<1>5. PICK src \in [DOMAIN unverified_headers' -> DOMAIN unverified_headers] :
          /\ \A i \in DOMAIN unverified_headers' :
                src[i] # pos /\ unverified_headers'[i] = unverified_headers[src[i]]
          /\ \A i, j \in DOMAIN unverified_headers' : i # j => src[i] # src[j]
  BY <1>1, <1>4, RemovedFromQueue
<1>. USE Numbers DEF Ordered
<1>6. StackInv'
  BY <1>2, <1>3 DEF StackInv
<1>7. last_finalized_block_header < header' /\ header' <= stream.just /\ header' < stream.next
  BY <1>1, <1>2, <1>3, <1>4, SMTT(30) DEF StackInv, QueueInv, Floor
<1>8. OrderInv'
  BY <1>1, <1>2, <1>4, <1>7 DEF OrderInv
<1>9. AnnouncedAreFinal'
  BY <1>2 DEF AnnouncedAreFinal
<1>10. QueueInv'
  <2>1. \A i \in DOMAIN unverified_headers' :
           LET m == unverified_headers'[i].number
           IN  /\ m < stream'.next
               /\ m = StartHead \/ last_finalized_block_header + 1 <= m
               /\ m # header'
    BY <1>1, <1>2, <1>4, <1>5, SMTT(30) DEF QueueInv, Floor
  <2>2. \A i, j \in DOMAIN unverified_headers' :
           i # j => unverified_headers'[i].number # unverified_headers'[j].number
    BY <1>5, SMTT(30) DEF QueueInv
  <2>. QED
    BY <1>1, <1>2, <2>1, <2>2 DEF QueueInv, Floor
<1>. QED
  BY <1>6, <1>8, <1>9, <1>10

\* Sending bl_num takes its stored header away, if there is one, so that
\* every header left is above it.
LEMMA OrderedSendSkipped ==
    ASSUME TypeOK, TipInv, ~rewound, Ordered, SendSkipped
    PROVE  Ordered'
<1>1. /\ pc = "output" /\ bl_num < header /\ bl_num' = bl_num + 1
      /\ events' = Append(events, bl_num)
      /\ UNCHANGED <<pc, justifications, last_finalized_block_header, header,
                     checkpoint, stream, rewound>>
  BY DEF SendSkipped, stateVars, streamVars
<1>. USE Numbers DEF Ordered
<1>2. bl_num \in Block
  BY <1>1 DEF TypeOK, Block
<1>3. \A i \in DOMAIN events' :
         IF i \in DOMAIN events THEN events'[i] = events[i] ELSE events'[i] = bl_num
  BY <1>1, <1>2, AppendFacts, SMTT(30) DEF TypeOK
<1>4. StackInv'
  BY <1>1 DEF StackInv
<1>5. OrderInv'
  BY <1>1 DEF OrderInv
<1>6. AnnouncedAreFinal'
  BY <1>1, <1>3 DEF AnnouncedAreFinal, OrderInv
<1>7. QueueInv'
  <2>1. CASE UNCHANGED unverified_headers /\ Positions(bl_num) = {}
    <3>1. \A i \in DOMAIN unverified_headers : unverified_headers[i].number # bl_num
      BY <2>1 DEF Positions
    <3>. QED
      BY <1>1, <2>1, <3>1, SMTT(30) DEF QueueInv, Floor
  <2>2. ASSUME NEW pos \in Positions(bl_num),
               unverified_headers' = SwapRemove(unverified_headers, pos)
        PROVE  QueueInv'
    <3>1. pos \in DOMAIN unverified_headers /\ unverified_headers[pos].number = bl_num
      BY DEF Positions
    <3>2. PICK src \in [DOMAIN unverified_headers' -> DOMAIN unverified_headers] :
              /\ \A i \in DOMAIN unverified_headers' :
                    src[i] # pos /\ unverified_headers'[i] = unverified_headers[src[i]]
              /\ \A i, j \in DOMAIN unverified_headers' : i # j => src[i] # src[j]
      BY <2>2, <3>1, RemovedFromQueue
    <3>3. \A i \in DOMAIN unverified_headers' :
             LET m == unverified_headers'[i].number
             IN  /\ m < stream'.next
                 /\ m = StartHead \/ bl_num + 1 <= m
                 /\ m # header'
      <4>1. \A k \in DOMAIN unverified_headers :
               LET m == unverified_headers[k].number
               IN  /\ m < stream.next
                   /\ m = StartHead \/ bl_num <= m
                   /\ m # header
                   /\ k # pos => m # bl_num
        BY <1>1, <3>1, Zenon DEF QueueInv, Floor
      <4>2. ASSUME NEW i \in DOMAIN unverified_headers'
            PROVE  LET m == unverified_headers[src[i]].number
                   IN  /\ m < stream.next
                       /\ m = StartHead \/ bl_num + 1 <= m
                       /\ m # header
        <5>1. src[i] \in DOMAIN unverified_headers /\ src[i] # pos
          BY <3>2
        <5>. QED
          BY <4>1, <5>1, SMTT(30)
      <4>. QED
        BY <1>1, <3>2, <4>2, Zenon
    <3>4. \A i, j \in DOMAIN unverified_headers' :
             i # j => unverified_headers'[i].number # unverified_headers'[j].number
      BY <3>2 DEF QueueInv
    <3>. QED
      BY <1>1, <3>3, <3>4 DEF QueueInv, Floor
  <2>. QED
    BY <2>1, <2>2 DEF SendSkipped
<1>. QED
  BY <1>4, <1>5, <1>6, <1>7

LEMMA OrderedSendFinalized ==
    ASSUME TypeOK, TipInv, ~rewound, Ordered, SendFinalized
    PROVE  Ordered'
<1>1. /\ pc = "output" /\ ~(bl_num < header) /\ pc' = "verify"
      /\ last_finalized_block_header' = header
      /\ events' = Append(events, header)
      /\ UNCHANGED <<justifications, unverified_headers, header, bl_num,
                     checkpoint, stream, rewound>>
  BY DEF SendFinalized, streamVars
<1>. USE Numbers DEF Ordered
<1>2. \A i \in DOMAIN events' :
         IF i \in DOMAIN events THEN events'[i] = events[i] ELSE events'[i] = header
  BY <1>1, AppendFacts, SMTT(30) DEF TypeOK
<1>3. StackInv'
  BY <1>1 DEF StackInv
<1>4. OrderInv'
  BY <1>1 DEF OrderInv
<1>5. AnnouncedAreFinal'
  BY <1>1, <1>2 DEF AnnouncedAreFinal, OrderInv
<1>6. QueueInv'
  <2>1. bl_num = header
    BY <1>1 DEF TipInv, OrderInv
  <2>. QED
    BY <1>1, <2>1, SMTT(30) DEF QueueInv, Floor
<1>. QED
  BY <1>3, <1>4, <1>5, <1>6

\* Without a rewind, a new stream starts at or after the old one.
LEMMA StreamGoesOn ==
    ASSUME TypeOK, ~rewound', Resubscribe
    PROVE  /\ ~rewound /\ stream.next <= stream'.next /\ stream.just <= stream'.just
           /\ stream'.next \in Nat /\ stream'.just \in Nat
<1>1. PICK h \in Block : /\ stream' \in StreamFrom(h)
                         /\ rewound' = (rewound \/ h < stream.next \/ stream'.just < stream.just)
  BY DEF Resubscribe
<1>2. stream'.next = h /\ stream'.next \in Nat /\ stream'.just \in Nat
  BY <1>1, ChainAssumption, BoundsAssumption DEF StreamFrom, Block
<1>3. ~rewound /\ ~(h < stream.next) /\ ~(stream'.just < stream.just)
  BY <1>1, Zenon
<1>. QED
  BY <1>2, <1>3, Numbers

\* A new stream that does not go back leaves the order as it is.
LEMMA OrderedResubscribe ==
    ASSUME TypeOK, ~rewound', ~rewound => Ordered, Resubscribe
    PROVE  Ordered'
<1>1. ~rewound /\ stream.next <= stream'.next /\ stream.just <= stream'.just
  BY StreamGoesOn
<1>2. /\ pc = "recv"
      /\ UNCHANGED <<pc, justifications, unverified_headers, last_finalized_block_header,
                     header, bl_num, checkpoint, events>>
  BY DEF Resubscribe, blockData, loopVars, stateVars
<1>3. stream'.next \in Nat /\ stream'.just \in Nat
  BY StreamGoesOn
<1>. USE Numbers DEF Ordered
<1>4. StackInv'
  BY <1>1, <1>2, <1>3 DEF StackInv
<1>5. OrderInv'
  BY <1>1, <1>2, <1>3 DEF OrderInv
<1>6. AnnouncedAreFinal'
  BY <1>1, <1>2, <1>3 DEF AnnouncedAreFinal
<1>7. QueueInv'
  BY <1>1, <1>2, <1>3, SMTT(30) DEF QueueInv, Floor
<1>. QED
  BY <1>4, <1>5, <1>6, <1>7

LEMMA OrderedStep ==
    TypeOK /\ TipInv /\ (~rewound => Ordered) /\ [Next]_vars => (~rewound' => Ordered')
<1>. SUFFICES ASSUME TypeOK, TipInv, ~rewound => Ordered, [Next]_vars, ~rewound'
              PROVE  Ordered'
  OBVIOUS
<1>. DEFINE kept == UNCHANGED <<justifications, unverified_headers, header, bl_num,
                                last_finalized_block_header, checkpoint, events, stream, rewound>>
<1>1. CASE HandleHeader
  BY <1>1, OrderedHandleHeader DEF HandleHeader
<1>2. CASE HandleJustification
  BY <1>2, OrderedHandleJustification DEF HandleJustification
<1>3. CASE Match
  BY <1>3, OrderedMatch DEF Match, streamVars
<1>4. CASE SendSkipped
  BY <1>4, OrderedSendSkipped DEF SendSkipped, streamVars
<1>5. CASE SendFinalized
  BY <1>5, OrderedSendFinalized DEF SendFinalized, streamVars
<1>6. CASE Resubscribe
  BY <1>6, OrderedResubscribe
<1>7. CASE FetchFails
  <2>1. kept /\ pc = "output" /\ pc' = "fetch_failed"
    BY <1>7 DEF FetchFails, blockData, stateVars, streamVars
  <2>2. last_finalized_block_header + 1 <= bl_num
    <3>1. last_finalized_block_header < bl_num
      BY <2>1, Zenon DEF TipInv
    <3>. QED
      BY <3>1, Numbers
  <2>3. StackInv' /\ AnnouncedAreFinal'
    BY <2>1 DEF Ordered, StackInv, AnnouncedAreFinal
  <2>4. OrderInv'
    BY <2>1, SMTT(60) DEF Ordered, OrderInv
  <2>5. QueueInv'
    BY <2>1, <2>2, Numbers, SMTT(60) DEF Ordered, QueueInv, Floor
  <2>. QED
    BY <2>3, <2>4, <2>5 DEF Ordered
<1>8. CASE NoMatch \/ StreamFails
  <2>1. kept /\ pc \in {"recv", "verify"} /\ pc' \in {"recv", "stopped"}
    BY <1>8 DEF NoMatch, StreamFails, blockData, stateVars, streamVars
  <2>. QED
    BY <2>1 DEF Ordered, StackInv, QueueInv, OrderInv, AnnouncedAreFinal, Floor
<1>9. CASE FinalitySynced \/ UNCHANGED vars
  <2>1. kept /\ UNCHANGED pc
    BY <1>9 DEF FinalitySynced, vars, blockData, loopVars, stateVars, streamVars
  <2>. QED
    BY <2>1 DEF Ordered, StackInv, QueueInv, OrderInv, AnnouncedAreFinal, Floor
<1>. QED
  BY <1>1, <1>2, <1>3, <1>4, <1>5, <1>6, <1>7, <1>8, <1>9 DEF Next
-----------------------------------------------------------------------------
(* The authority sets while no change was missed or repeated *)

LEMMA SetInit == Init => (tracked => SetInv)
<1>. SUFFICES ASSUME Init, tracked PROVE SetInv
  OBVIOUS
<1>1. PICK h \in Block : /\ stream \in StreamFrom(h)
                         /\ tracked = (AuthChange \cap Disturbed(h, StartHead + 1) = {})
  BY DEF Init
<1>2. stream.next = h /\ h \in 0..(MaxBlock + 1) /\ StartHead + 1 \in 0..(MaxBlock + 1)
  BY <1>1, ChainAssumption, BoundsAssumption DEF StreamFrom, Block
<1>3. ValsetAt(stream.next) = ValsetAt(StartHead + 1)
  BY <1>1, <1>2, UndisturbedSet, Zenon
<1>4. DOMAIN unverified_headers = {} /\ next_valset = None
      /\ current_valset = ValsetAt(StartHead + 1)
  BY DEF Init
<1>. QED
  BY <1>3, <1>4 DEF SetInv

\* The set a header is stored with, and the one its log announces.
LEMMA SetHandleHeader ==
    ASSUME TypeOK, SetInv, HandleHeader
    PROVE  SetInv' /\ current_valset' = ValsetAt(latest')
<1>. DEFINE n == stream.next
            valset == IF next_valset # None THEN next_valset ELSE current_valset
            new == [number |-> n, valset |-> valset]
<1>1. /\ unverified_headers' = Append(unverified_headers, new)
      /\ stream'.next = n + 1 /\ current_valset' = valset /\ latest' = n
      /\ next_valset' = IF n \in AuthChange
                        THEN [set_id |-> valset.set_id + 1,
                              validator_set |-> Authorities[SetId[n + 1]]]
                        ELSE None
  BY DEF HandleHeader, TypeOK
<1>2. n \in Block /\ n \in 0..(MaxBlock + 1) /\ n + 1 \in 0..(MaxBlock + 1) /\ n \in Nat
  <2>1. stream.next <= MaxBlock
    BY DEF HandleHeader
  <2>. QED
    BY <2>1, StreamType, ChainAssumption DEF Block
<1>3. valset = ValsetAt(n)
  BY DEF SetInv
<1>4. new \in Header
  BY <1>2, <1>3, ValsetAtType DEF Header
<1>5. \A i \in DOMAIN unverified_headers' :
         \/ i \in DOMAIN unverified_headers /\ unverified_headers'[i] = unverified_headers[i]
         \/ unverified_headers'[i] = new
  <2>1. unverified_headers \in Seq(Header)
    BY Zenon DEF TypeOK
  <2>2. unverified_headers' = Append(unverified_headers, new)
    BY <1>1, Zenon
  <2>. HIDE DEF new
  <2>3. \A i \in DOMAIN Append(unverified_headers, new) :
           /\ i \in DOMAIN unverified_headers => Append(unverified_headers, new)[i] = unverified_headers[i]
           /\ i \notin DOMAIN unverified_headers => Append(unverified_headers, new)[i] = new
    BY <1>4, <2>1, AppendFacts
  <2>. QED
    BY <2>2, <2>3, Zenon
<1>. HIDE DEF n, valset
<1>6. \A i \in DOMAIN unverified_headers' :
         unverified_headers'[i].valset = ValsetAt(unverified_headers'[i].number)
  BY <1>3, <1>5 DEF SetInv
<1>7. CASE n \in AuthChange
  <2>1. next_valset' = ValsetAt(n + 1)
    BY <1>1, <1>3, <1>7, SetIdAssumption DEF ValsetAt
  <2>2. next_valset' # None
    BY <1>2, <2>1, ValsetAtType
  <2>. QED
    BY <1>1, <1>3, <1>6, <2>1, <2>2 DEF SetInv
<1>8. CASE n \notin AuthChange
  <2>1. AuthChange \cap Disturbed(n, n + 1) = {}
    BY <1>2, <1>8 DEF Disturbed
  <2>2. ValsetAt(n) = ValsetAt(n + 1)
    BY <1>2, <2>1, UndisturbedSet
  <2>. QED
    BY <1>1, <1>3, <1>6, <1>8, <2>2 DEF SetInv
<1>. QED
  BY <1>7, <1>8

\* Taking a header out leaves the sets of the others.
LEMMA SetRemoval ==
    ASSUME TypeOK, SetInv, NEW pos \in DOMAIN unverified_headers,
           unverified_headers' = SwapRemove(unverified_headers, pos),
           UNCHANGED <<current_valset, next_valset, stream>>
    PROVE  SetInv'
<1>1. \A i \in DOMAIN unverified_headers' :
         \E k \in DOMAIN unverified_headers : unverified_headers'[i] = unverified_headers[k]
  BY RemovedFromQueue
<1>. QED
  BY <1>1 DEF SetInv

LEMMA SetResubscribe ==
    ASSUME TypeOK, tracked', tracked => SetInv, Resubscribe
    PROVE  tracked /\ SetInv'
<1>1. PICK h \in Block :
          /\ stream' \in StreamFrom(h)
          /\ tracked' = (tracked /\ AuthChange \cap Disturbed(h, stream.next) = {})
  BY Zenon DEF Resubscribe
<1>2. tracked /\ AuthChange \cap Disturbed(h, stream.next) = {}
  BY <1>1, Zenon
<1>3. stream'.next = h /\ h \in 0..(MaxBlock + 1) /\ stream.next \in 0..(MaxBlock + 1)
  BY <1>1, ChainAssumption, BoundsAssumption, SMTT(30) DEF StreamFrom, Block, TypeOK
<1>4. ValsetAt(stream'.next) = ValsetAt(stream.next)
  BY <1>2, <1>3, UndisturbedSet
<1>5. UNCHANGED <<unverified_headers, current_valset, next_valset>>
  BY DEF Resubscribe, blockData
<1>. QED
  BY <1>2, <1>4, <1>5 DEF SetInv

LEMMA SetStep ==
    TypeOK /\ (tracked => SetInv) /\ [Next]_vars => (tracked' => SetInv')
<1>. SUFFICES ASSUME TypeOK, tracked => SetInv, [Next]_vars, tracked' PROVE SetInv'
  OBVIOUS
<1>1. CASE HandleHeader
  BY <1>1, SetHandleHeader, ZenonT(30) DEF HandleHeader
<1>2. CASE HandleJustification
  <2>1. stream'.next = stream.next
    BY <1>2 DEF HandleJustification, TypeOK
  <2>. QED
    BY <1>2, <2>1 DEF HandleJustification, SetInv
<1>3. CASE Match
  <2>1. PICK pos \in DOMAIN unverified_headers :
            unverified_headers' = SwapRemove(unverified_headers, pos)
    BY <1>3 DEF Match, Positions
  <2>. QED
    BY <1>3, <2>1, SetRemoval DEF Match, streamVars
<1>4. CASE SendSkipped
  <2>1. UNCHANGED <<current_valset, next_valset, stream, tracked>>
    BY <1>4, Zenon DEF SendSkipped, streamVars
  <2>2. CASE UNCHANGED unverified_headers
    BY <2>1, <2>2 DEF SetInv
  <2>3. CASE \E pos \in DOMAIN unverified_headers :
                unverified_headers' = SwapRemove(unverified_headers, pos)
    BY <2>1, <2>3, SetRemoval
  <2>. QED
    BY <1>4, <2>2, <2>3, Zenon DEF SendSkipped, Positions
<1>5. CASE Resubscribe
  BY <1>5, SetResubscribe
<1>6. CASE NoMatch \/ FetchFails \/ SendFinalized \/ FinalitySynced \/ StreamFails
           \/ UNCHANGED vars
  <2>1. UNCHANGED <<unverified_headers, current_valset, next_valset, stream, tracked>>
    BY <1>6, ZenonT(30) DEF NoMatch, FetchFails, SendFinalized, FinalitySynced, StreamFails, vars,
                blockData, streamVars
  <2>. QED
    BY <2>1 DEF SetInv
<1>. QED
  BY <1>1, <1>2, <1>3, <1>4, <1>5, <1>6 DEF Next
-----------------------------------------------------------------------------
(* The set the checkpoint is written from *)

LEMMA CurrentRemoval ==
    ASSUME TypeOK, CurrentInv, NEW pos \in DOMAIN unverified_headers,
           unverified_headers' = SwapRemove(unverified_headers, pos),
           UNCHANGED <<current_valset, latest, stream>>
    PROVE  CurrentInv'
<1>1. \A i \in DOMAIN unverified_headers' :
         \E k \in DOMAIN unverified_headers : unverified_headers'[i] = unverified_headers[k]
  BY RemovedFromQueue
<1>2. unverified_headers # <<>>
  BY DEF TypeOK
<1>. QED
  BY <1>1, <1>2 DEF CurrentInv

LEMMA CurrentStep ==
    ASSUME TypeOK, ~rewound => Ordered, tracked => SetInv,
           tracked /\ ~rewound => CurrentInv, [Next]_vars, tracked', ~rewound'
    PROVE  CurrentInv'
<1>1. CASE HandleHeader
  <2>. DEFINE n == stream.next
              valset == IF next_valset # None THEN next_valset ELSE current_valset
              new == [number |-> n, valset |-> valset]
  <2>1. tracked /\ ~rewound
    BY <1>1 DEF HandleHeader
  <2>2. current_valset' = ValsetAt(latest')
    BY <1>1, <2>1, SetHandleHeader
  <2>3. n \in Nat /\ latest' = n /\ stream'.next = n + 1
        /\ unverified_headers' = Append(unverified_headers, new)
    BY <1>1 DEF HandleHeader, TypeOK
  <2>4. new \in Header
    BY <1>1, ChainAssumption, BoundsAssumption DEF HandleHeader, TypeOK, Block, Header
  <2>5. \A i \in DOMAIN unverified_headers' :
           \/ i \in DOMAIN unverified_headers /\ unverified_headers'[i] = unverified_headers[i]
           \/ unverified_headers'[i] = new
    <3>1. unverified_headers \in Seq(Header)
      BY Zenon DEF TypeOK
    <3>. QED
      BY <2>3, <2>4, <3>1, AppendFacts, SMTT(30)
  <2>6. \A i \in DOMAIN unverified_headers' : unverified_headers'[i].number <= n
    <3>1. \A i \in DOMAIN unverified_headers : unverified_headers[i].number < n
      <4>1. Ordered
        BY <2>1, ZenonT(30)
      <4>. QED
        BY <4>1, Zenon DEF Ordered, QueueInv
    <3>. QED
      <4>1. \A i \in DOMAIN unverified_headers : unverified_headers[i].number \in Nat
        BY Numbers, Zenon
      <4>2. new.number = n
        OBVIOUS
      <4>. QED
        BY <2>3, <2>5, <3>1, <4>1, <4>2, SMTT(30)
  <2>. QED
    BY <2>2, <2>3, <2>6, SMTT(30) DEF CurrentInv
<1>2. CASE HandleJustification
  <2>1. stream'.next = stream.next
    BY <1>2 DEF HandleJustification, TypeOK
  <2>. QED
    BY <1>2, <2>1 DEF HandleJustification, stateVars, CurrentInv
<1>3. CASE Match
  <2>1. PICK pos \in DOMAIN unverified_headers :
            unverified_headers' = SwapRemove(unverified_headers, pos)
    BY <1>3, Zenon DEF Match, Positions
  <2>. QED
    BY <1>3, <2>1, CurrentRemoval DEF Match, streamVars
<1>4. CASE SendSkipped
  <2>1. UNCHANGED <<current_valset, latest, stream, tracked, rewound>>
    BY <1>4, ZenonT(30) DEF SendSkipped, stateVars, streamVars
  <2>2. CASE UNCHANGED unverified_headers
    BY <2>1, <2>2 DEF CurrentInv
  <2>3. CASE \E pos \in DOMAIN unverified_headers :
                unverified_headers' = SwapRemove(unverified_headers, pos)
    BY <2>1, <2>3, CurrentRemoval
  <2>. QED
    BY <1>4, <2>2, <2>3, Zenon DEF SendSkipped, Positions
<1>5. CASE Resubscribe
  <2>1. tracked
    BY <1>5, SetResubscribe
  <2>2. ~rewound /\ stream.next <= stream'.next /\ stream'.next \in Nat
    BY <1>5, StreamGoesOn
  <2>3. UNCHANGED <<unverified_headers, current_valset, latest>>
    BY <1>5 DEF Resubscribe, blockData, stateVars
  <2>. QED
    BY <2>1, <2>2, <2>3, Numbers, ChainAssumption, BoundsAssumption, SMTT(30) DEF CurrentInv, TypeOK, Block
<1>6. CASE NoMatch \/ FetchFails \/ SendFinalized \/ FinalitySynced \/ StreamFails
           \/ UNCHANGED vars
  <2>1. UNCHANGED <<unverified_headers, current_valset, latest, stream, tracked, rewound>>
    BY <1>6, ZenonT(30) DEF NoMatch, FetchFails, SendFinalized, FinalitySynced, StreamFails, vars,
                blockData, stateVars, streamVars
  <2>. QED
    BY <2>1 DEF CurrentInv
<1>. QED
  BY <1>1, <1>2, <1>3, <1>4, <1>5, <1>6 DEF Next

\* The checkpoint is written with the set of the header delivered last, which
\* is at or above the header that was matched.
LEMMA CheckpointStep ==
    ASSUME TypeOK, CheckpointSetNotStale, tracked /\ ~rewound => CurrentInv, [Next]_vars
    PROVE  CheckpointSetNotStale'
<1>. SUFFICES ASSUME tracked', ~rewound', checkpoint' # None
              PROVE  \E m \in Block : /\ checkpoint'.number <= m
                                     /\ m < stream'.next
                                     /\ checkpoint'.valset = ValsetAt(m)
  BY DEF CheckpointSetNotStale
<1>1. CASE Match
  <2>1. PICK pos \in DOMAIN unverified_headers :
            \/ checkpoint' = checkpoint
            \/ checkpoint' = [number |-> unverified_headers[pos].number,
                              valset |-> current_valset]
    BY <1>1 DEF Match, Positions
  <2>2. tracked /\ ~rewound /\ UNCHANGED stream
    BY <1>1 DEF Match, streamVars
  <2>3. CASE checkpoint' = checkpoint
    BY <2>2, <2>3 DEF CheckpointSetNotStale
  <2>4. CASE checkpoint' = [number |-> unverified_headers[pos].number,
                            valset |-> current_valset]
    <3>1. unverified_headers # <<>>
      <4>1. DOMAIN <<>> = {}
        OBVIOUS
      <4>. QED
        BY <2>1, <4>1, Zenon
    <3>2. /\ current_valset = ValsetAt(latest) /\ latest < stream.next /\ latest \in Block
          /\ unverified_headers[pos].number <= latest
      BY <2>1, <2>2, <3>1 DEF CurrentInv, TypeOK
    <3>. QED
      BY <2>2, <2>4, <3>2, Zenon
  <2>. QED
    BY <2>1, <2>3, <2>4
<1>2. CASE ~Match
  <2>0. stream.next \in Nat
    BY Numbers
  <2>1. /\ UNCHANGED checkpoint /\ tracked /\ ~rewound
        /\ stream'.next \in Nat /\ stream.next <= stream'.next
    <3>1. CASE Resubscribe
      <4>1. ~rewound /\ stream.next <= stream'.next /\ stream'.next \in Nat
        BY <3>1, StreamGoesOn
      <4>2. UNCHANGED checkpoint
        BY <3>1 DEF Resubscribe, stateVars
      <4>3. tracked
        <5>1. \E h \in Block :
                 tracked' = (tracked /\ AuthChange \cap Disturbed(h, stream.next) = {})
          BY <3>1, Zenon DEF Resubscribe
        <5>. QED
          BY <5>1, Zenon
      <4>. QED
        BY <4>1, <4>2, <4>3
    <3>2. CASE ~Resubscribe
      <4>1. UNCHANGED <<checkpoint, tracked, rewound>>
        BY <1>2, <3>2, Zenon DEF Next, HandleHeader, HandleJustification, NoMatch, SendSkipped,
           FetchFails, SendFinalized, FinalitySynced, StreamFails, vars, stateVars, streamVars
      <4>2. stream'.next \in {stream.next, stream.next + 1}
        BY <1>2, <3>2, ZenonT(30) DEF Next, HandleHeader, HandleJustification, NoMatch, SendSkipped,
           FetchFails, SendFinalized, FinalitySynced, StreamFails, vars, streamVars, TypeOK
      <4>3. stream'.next \in Nat /\ stream.next <= stream'.next
        BY <2>0, <4>2
      <4>. QED
        BY <4>1, <4>3, Zenon
    <3>. QED
      BY <3>1, <3>2
  <2>2. PICK m \in Block : /\ checkpoint.number <= m
                           /\ m < stream.next
                           /\ checkpoint.valset = ValsetAt(m)
    BY <2>1 DEF CheckpointSetNotStale
  <2>3. m \in Nat
    BY ChainAssumption, BoundsAssumption DEF Block
  <2>. QED
    BY <2>0, <2>1, <2>2, <2>3
<1>. QED
  BY <1>1, <1>2

\* A matched header carries the set that signed its justification, so the
\* check passes.
LEMMA FinalityStep ==
    ASSUME TypeOK, FailsOnlyOnLostSetChange, tracked => SetInv, [Next]_vars
    PROVE  FailsOnlyOnLostSetChange'
<1>. SUFFICES ASSUME pc' = "finality_failed", tracked' PROVE FALSE
  BY DEF FailsOnlyOnLostSetChange
<1>1. CASE Match
  <2>1. tracked
    BY <1>1 DEF Match, streamVars
  <2>2. PICK pos \in Positions(Last(justifications)) :
            ~check_finality(unverified_headers[pos].valset,
                            Justification[Last(justifications)])
    BY <1>1 DEF Match
  <2>3. Last(justifications) \in Block
    BY <1>1, FrontLastProperties, Zenon DEF Match, TypeOK
  <2>4. unverified_headers[pos].valset = ValsetAt(Last(justifications))
    BY <2>1 DEF Positions, SetInv
  <2>. QED
    BY <2>2, <2>3, <2>4, JustificationAssumption
<1>2. CASE UNCHANGED vars
  BY <1>2 DEF vars, loopVars, streamVars, FailsOnlyOnLostSetChange
<1>3. CASE FinalitySynced
  BY <1>3 DEF FinalitySynced, loopVars, streamVars, FailsOnlyOnLostSetChange
<1>4. CASE HandleHeader \/ HandleJustification \/ NoMatch \/ SendSkipped \/ FetchFails
           \/ SendFinalized \/ Resubscribe \/ StreamFails
  <2>1. pc' # "finality_failed"
    BY <1>4, ZenonT(30) DEF HandleHeader, HandleJustification, NoMatch, SendSkipped, FetchFails,
                SendFinalized, Resubscribe, StreamFails, loopVars
  <2>. QED
    BY <2>1
<1>. QED
  BY <1>1, <1>2, <1>3, <1>4 DEF Next
-----------------------------------------------------------------------------
(* The theorems *)

\* The inductive invariant of the subscription loop holds in every state.
THEOREM InductiveInvariant == Spec => []IInv
<1>1. Init => IInv
  <2>. SUFFICES ASSUME Init PROVE IInv
    OBVIOUS
  <2>1. unverified_headers = <<>> /\ checkpoint = None /\ pc = "recv"
    BY DEF Init
  <2>2. CurrentInv /\ CheckpointSetNotStale /\ FailsOnlyOnLostSetChange
    BY <2>1 DEF CurrentInv, CheckpointSetNotStale, FailsOnlyOnLostSetChange
  <2>. QED
    BY <2>2, TypeInit, TipInit, OrderedInit, SetInit DEF IInv, Ordered
<1>2. IInv /\ [Next]_vars => IInv'
  <2>. SUFFICES ASSUME IInv, [Next]_vars PROVE IInv'
    OBVIOUS
  <2>1. /\ TypeOK /\ TipInv /\ (~rewound => Ordered) /\ (tracked => SetInv)
        /\ (tracked /\ ~rewound => CurrentInv) /\ CheckpointSetNotStale
        /\ FailsOnlyOnLostSetChange
    BY DEF IInv, Ordered
  <2>2. TypeOK' /\ TipInv'
    BY <2>1, TypeStep, TipStep
  <2>3. ~rewound' => Ordered'
    BY <2>1, OrderedStep
  <2>4. tracked' => SetInv'
    BY <2>1, SetStep
  <2>5. tracked' /\ ~rewound' => CurrentInv'
    BY <2>1, CurrentStep
  <2>6. CheckpointSetNotStale'
    BY <2>1, CheckpointStep
  <2>7. FailsOnlyOnLostSetChange'
    BY <2>1, FinalityStep
  <2>. QED
    BY <2>2, <2>3, <2>4, <2>5, <2>6, <2>7 DEF IInv, Ordered
<1>. QED
  BY <1>1, <1>2, PTL DEF Spec

\* The panic of expect("Finality check failed") is reached only after a new
\* stream missed or repeated a header with an authority set change.
THEOREM FinalityHolds == Spec => []FailsOnlyOnLostSetChange
<1>1. IInv => FailsOnlyOnLostSetChange
  BY DEF IInv
<1>. QED
  BY <1>1, InductiveInvariant, PTL

\* Nothing is announced that the node has not delivered a justification for.
THEOREM AnnouncedFinal == Spec => []AnnouncedAreFinal
<1>1. IInv => AnnouncedAreFinal
  BY DEF IInv, AnnouncedAreFinal
<1>. QED
  BY <1>1, InductiveInvariant, PTL

\* State.header_verified ends at the block announced last.
THEOREM HeaderVerified == Spec => []HeaderVerifiedIsTip
<1>1. IInv => HeaderVerifiedIsTip
  BY DEF IInv, TipInv
<1>. QED
  BY <1>1, InductiveInvariant, PTL

\* The checkpoint never pairs its block with an older set.
THEOREM CheckpointSet == Spec => []CheckpointSetNotStale
<1>1. IInv => CheckpointSetNotStale
  BY DEF IInv
<1>. QED
  BY <1>1, InductiveInvariant, PTL

\* A new checkpoint is above the previous one and above every block verified
\* before it.
THEOREM CheckpointProgress == Spec => CheckpointAdvances
<1>. DEFINE Advance == (checkpoint' # checkpoint /\ ~rewound) =>
                          /\ checkpoint # None => checkpoint'.number > checkpoint.number
                          /\ checkpoint'.number > last_finalized_block_header
                          /\ checkpoint'.number <= stream.just
<1>1. IInv /\ [Next]_vars => [Advance]_vars
  <2>. SUFFICES ASSUME IInv, Next, checkpoint' # checkpoint, ~rewound
                PROVE  /\ checkpoint # None => checkpoint'.number > checkpoint.number
                       /\ checkpoint'.number > last_finalized_block_header
                       /\ checkpoint'.number <= stream.just
    OBVIOUS
  <2>1. Match
    BY DEF Next, HandleHeader, HandleJustification, NoMatch, SendSkipped, FetchFails,
           SendFinalized, FinalitySynced, Resubscribe, StreamFails, stateVars
  <2>2. PICK pos \in Positions(Last(justifications)) :
            checkpoint'.number = unverified_headers[pos].number
    BY <2>1, SMTT(30) DEF Match
  <2>3. TypeOK /\ StackInv /\ QueueInv /\ OrderInv
    BY DEF IInv
  <2>4. /\ pos \in DOMAIN unverified_headers
        /\ unverified_headers[pos].number = Last(justifications)
    BY DEF Positions
  <2>5. /\ Last(justifications) = justifications[Len(justifications)]
        /\ Len(justifications) \in DOMAIN justifications
    BY <2>1, <2>3, FrontLastProperties, ZenonT(30) DEF Match, TypeOK
  <2>6. pc = "verify"
    BY <2>1 DEF Match
  <2>7. /\ last_finalized_block_header < checkpoint'.number
        /\ checkpoint'.number <= stream.just /\ checkpoint'.number \in Nat
    <3>1. StartHead < checkpoint'.number /\ checkpoint'.number <= stream.just
      BY <2>2, <2>3, <2>4, <2>5 DEF StackInv
    <3>2. checkpoint'.number = StartHead \/ last_finalized_block_header + 1 <= checkpoint'.number
      BY <2>2, <2>3, <2>4, <2>6 DEF QueueInv, Floor
    <3>3. checkpoint'.number \in Nat /\ StartHead \in Nat /\ last_finalized_block_header \in Nat
      BY <2>2, <2>3, <2>4, Numbers
    <3>. QED
      BY <3>1, <3>2, <3>3
  <2>. QED
    BY <2>3, <2>6, <2>7, Numbers, SMTT(30) DEF OrderInv
<1>2. Spec => [][Advance]_vars
  BY <1>1, InductiveInvariant, PTL DEF Spec
<1>. QED
  BY <1>2 DEF CheckpointAdvances

\* The subscription loop implements the feed: every block it sends is the
\* next one, or one announced before and then only after a rewound stream.
THEOREM ImplementsFeed == Spec => FeedRefinement
<1>1. Init => Feed!FeedInit
  BY DEF Init, Feed!FeedInit
<1>2. IInv /\ [Next]_vars => [Feed!FeedNext]_(Feed!feedVars)
  <2>. SUFFICES ASSUME IInv, [Next]_vars, ~ UNCHANGED <<events, rewound>>
                PROVE  Feed!FeedNext
    BY DEF Feed!feedVars
  <2>. USE DEF Feed!FeedNext
  <2>0. TypeOK /\ TipInv
    BY DEF IInv
  <2>1. CASE SendSkipped
    <3>1. /\ events' = Append(events, bl_num) /\ UNCHANGED rewound
          /\ bl_num < header /\ pc = "output"
      BY <2>1 DEF SendSkipped, streamVars
    <3>2. bl_num \in 0..MaxBlock /\ bl_num = Feed!Tip + 1
      <4>1. Feed!Tip = bl_num - 1
        BY <2>0, <3>1, Zenon DEF TipInv
      <4>2. header \in Block
        BY <2>0, Zenon DEF TypeOK
      <4>3. header <= MaxBlock /\ MaxBlock \in Nat /\ bl_num \in Nat /\ header \in Nat
        BY <2>0, <4>2, Numbers, ChainAssumption DEF Block
      <4>. HIDE DEF Feed!Tip
      <4>. QED
        BY <3>1, <4>1, <4>3
    <3>. QED
      BY <3>1, <3>2, SMTT(30) DEF Feed!Announce
  <2>2. CASE SendFinalized
    <3>1. /\ events' = Append(events, header) /\ UNCHANGED rewound
          /\ ~(bl_num < header) /\ pc = "output"
      BY <2>2 DEF SendFinalized, streamVars
    <3>2. header \in 0..MaxBlock /\ header \in Nat
      BY <2>0, Numbers DEF TypeOK, Block
    <3>3. header = Feed!Tip + 1 \/ (rewound /\ header <= Feed!Tip)
      <4>1. bl_num \in Nat /\ last_finalized_block_header \in Nat
            /\ Feed!Tip = bl_num - 1 /\ last_finalized_block_header < bl_num
            /\ (bl_num <= header \/ bl_num = last_finalized_block_header + 1)
        BY <2>0, <3>1, Numbers DEF TipInv
      <4>2. CASE rewound
        BY <3>1, <3>2, <4>1, <4>2
      <4>3. CASE ~rewound
        <5>1. last_finalized_block_header < header
          BY <3>1, <4>3 DEF IInv, OrderInv
        <5>. QED
          BY <3>1, <3>2, <4>1, <5>1
      <4>. QED
        BY <4>2, <4>3
    <3>. QED
      BY <3>1, <3>2, <3>3 DEF Feed!Announce
  <2>3. CASE Resubscribe
    <3>1. UNCHANGED events /\ rewound' \in BOOLEAN /\ rewound \in BOOLEAN
          /\ (rewound => rewound')
      BY <2>0, <2>3 DEF Resubscribe, TypeOK
    <3>2. rewound' = TRUE
      BY <3>1
    <3>. QED
      BY <3>1, <3>2 DEF Feed!Rewind
  <2>. QED
    BY <2>1, <2>2, <2>3 DEF Next, HandleHeader, HandleJustification, NoMatch, Match,
       FetchFails, FinalitySynced, StreamFails, streamVars, vars
<1>3. Spec => Feed!FeedInit /\ [][Feed!FeedNext]_(Feed!feedVars)
  BY <1>1, <1>2, InductiveInvariant, PTL DEF Spec
<1>. QED
  BY <1>3 DEF FeedRefinement, Feed!FeedSpec
-----------------------------------------------------------------------------
(* Nothing is withheld *)

\* A removal leaves every header of another number in the queue.
LEMMA OthersStay ==
    ASSUME TypeOK, NEW pos \in DOMAIN unverified_headers,
           unverified_headers' = SwapRemove(unverified_headers, pos),
           NEW n, n # unverified_headers[pos].number, Positions(n) # {}
    PROVE  Positions(n)' # {}
<1>. DEFINE s == unverified_headers
            t == SwapRemove(s, pos)
<1>1. s \in Seq(Header) /\ Len(s) \in Nat /\ DOMAIN s = 1..Len(s)
  BY LenProperties DEF TypeOK
<1>2. DOMAIN t = 1..(Len(s) - 1)
  BY <1>1, SwapRemoveProperties
<1>3. PICK k \in DOMAIN s : s[k].number = n
  BY DEF Positions
<1>4. k # pos
  BY <1>3
<1>5. PICK i \in DOMAIN t : t[i] = s[k]
  <2>1. CASE k = Len(s)
    <3>1. pos \in DOMAIN t /\ t[pos] = s[k]
      BY <1>1, <1>2, <1>4, <2>1 DEF SwapRemove
    <3>. QED
      BY <3>1
  <2>2. CASE k # Len(s)
    <3>1. k \in DOMAIN t /\ t[k] = s[k]
      BY <1>1, <1>2, <1>4, <2>2 DEF SwapRemove
    <3>. QED
      BY <3>1
  <2>. QED
    BY <2>1, <2>2
<1>. HIDE DEF t
<1>6. unverified_headers' = t
  BY DEF t
<1>. QED
  BY <1>3, <1>5, <1>6 DEF Positions

LEMMA WithheldInit == Init => WithheldInv
<1>. SUFFICES ASSUME Init PROVE WithheldInv
  OBVIOUS
<1>1. PICK h \in Block : stream \in StreamFrom(h)
  BY DEF Init
<1>2. stream.next = h /\ stream.just >= h /\ stream.just \in Nat /\ h \in Nat
  BY <1>1, ChainAssumption DEF StreamFrom, Block
<1>3. justifications = <<>> /\ ~rewound
  BY DEF Init
<1>4. DOMAIN justifications = {}
  BY <1>3
<1>5. HeadersKept
  <2>. SUFFICES ASSUME NEW n \in Block, n < stream.next, stream.just < n PROVE FALSE
    BY <1>4, Zenon DEF HeadersKept
  <2>. QED
    BY <1>2, ChainAssumption DEF Block
<1>. QED
  BY <1>3, <1>4, <1>5, Zenon DEF WithheldInv, Ascending, NothingWithheld

\* A header arrives: it is the one of its block.
LEMMA WithheldHandleHeader ==
    ASSUME TypeOK, HeadersKept, HandleHeader
    PROVE  HeadersKept'
<1>1. /\ pc = "recv" /\ pc' = "verify" /\ stream.next <= MaxBlock
      /\ unverified_headers' = Append(unverified_headers, [number |-> stream.next, valset |-> ActiveValset])
      /\ stream' = [stream EXCEPT !.next = stream.next + 1]
      /\ UNCHANGED <<justifications, last_finalized_block_header, bl_num>>
  BY Zenon DEF HandleHeader
<1>2. stream.next \in 0..(MaxBlock + 1) /\ stream.just \in Block
  BY StreamType
<1>3. stream'.next = stream.next + 1 /\ stream'.just = stream.just
  BY <1>1 DEF TypeOK
<1>4. [number |-> stream.next, valset |-> ActiveValset] \in Header
  BY <1>1, <1>2, ChainAssumption DEF TypeOK, Header, Block
<1>. DEFINE s == unverified_headers
            e == [number |-> stream.next, valset |-> ActiveValset]
<1>5. /\ \A i \in DOMAIN s : i \in DOMAIN s' /\ s'[i] = s[i]
      /\ \E i \in DOMAIN s' : s'[i].number = stream.next
  <2>1. s \in Seq(Header) /\ e \in Header /\ s' = Append(s, e) /\ e.number = stream.next
    BY <1>1, <1>4 DEF TypeOK
  <2>. HIDE DEF s, e
  <2>2. /\ DOMAIN s = 1..Len(s) /\ Len(s) \in Nat /\ DOMAIN s' = 1..(Len(s) + 1)
        /\ \A i \in DOMAIN s' : /\ i \in DOMAIN s => s'[i] = s[i]
                                /\ i \notin DOMAIN s => s'[i] = e
    BY <2>1, AppendFacts
  <2>3. Len(s) + 1 \in DOMAIN s' /\ Len(s) + 1 \notin DOMAIN s /\ \A i \in DOMAIN s : i \in DOMAIN s'
    BY <2>2
  <2>. QED
    BY <2>1, <2>2, <2>3, Zenon
<1>. HIDE DEF e
<1>. SUFFICES ASSUME NEW n \in Block, Floor' <= n, n < stream'.next,
                     stream'.just < n \/ \E i \in DOMAIN justifications' : justifications'[i] = n
              PROVE  Positions(n)' # {}
  BY Zenon DEF HeadersKept
<1>6. CASE n = stream.next
  BY <1>5, <1>6 DEF Positions
<1>7. CASE n # stream.next
  <2>1. n < stream.next
    BY <1>2, <1>3, <1>7, ChainAssumption DEF Block
  <2>2. Floor' = Floor
    BY <1>1 DEF Floor
  <2>3. Positions(n) # {}
    BY <1>1, <1>3, <2>1, <2>2, Zenon DEF HeadersKept
  <2>. QED
    BY <1>5, <2>3 DEF Positions
<1>. QED
  BY <1>6, <1>7

\* A justification arrives: it is above all others.
LEMMA WithheldHandleJustification ==
    ASSUME TypeOK, StackInv, Ascending, HeadersKept, HandleJustification
    PROVE  HeadersKept' /\ Ascending'
<1>1. PICK t \in (stream.just + 1)..MaxBlock :
          /\ justifications' = Append(justifications, t)
          /\ stream' = [stream EXCEPT !.just = t]
  BY DEF HandleJustification
<1>2. stream'.just = t /\ stream'.next = stream.next /\ t \in Block /\ stream.just < t
  <2>1. stream \in [next : 0..(MaxBlock + 1), just : Block]
    BY Zenon DEF TypeOK
  <2>2. stream'.just = t /\ stream'.next = stream.next
    BY <1>1, <2>1
  <2>. QED
    BY <2>2, StreamType, LaterBlocks, Zenon
<1>3. /\ pc = "recv" /\ pc' = "verify"
      /\ UNCHANGED <<unverified_headers, last_finalized_block_header, bl_num>>
  BY DEF HandleJustification
<1>4. /\ DOMAIN justifications = 1..Len(justifications) /\ Len(justifications) \in Nat
      /\ DOMAIN justifications' = 1..(Len(justifications) + 1)
      /\ \A i \in DOMAIN justifications' :
            /\ i \in DOMAIN justifications => justifications'[i] = justifications[i]
            /\ i \notin DOMAIN justifications =>
                  i = Len(justifications) + 1 /\ justifications'[i] = t
  BY <1>1, <1>2, AppendFacts DEF TypeOK
<1>5. t \in Nat /\ stream.just \in Nat /\ stream.next \in Nat
  BY <1>2, Numbers, ChainAssumption DEF Block
<1>6. \A i \in DOMAIN justifications : justifications[i] \in Nat /\ justifications[i] <= stream.just
  BY Numbers, Zenon DEF StackInv
<1>7. Ascending'
  <2>. SUFFICES ASSUME NEW i \in DOMAIN justifications', NEW j \in DOMAIN justifications', i < j
                PROVE  justifications'[i] < justifications'[j]
    BY Zenon DEF Ascending
  <2>1. i \in DOMAIN justifications /\ i \in Nat /\ j \in Nat
    BY <1>4
  <2>2. CASE j \in DOMAIN justifications
    BY <1>4, <2>1, <2>2, Zenon DEF Ascending
  <2>3. CASE j \notin DOMAIN justifications
    <3>1. justifications'[i] = justifications[i] /\ justifications'[j] = t
      BY <1>4, <2>1, <2>3, Zenon
    <3>. QED
      BY <1>2, <1>5, <1>6, <2>1, <3>1
  <2>. QED
    BY <2>2, <2>3
<1>8. HeadersKept'
  <2>. SUFFICES ASSUME NEW n \in Block, Floor' <= n, n < stream'.next,
                       stream'.just < n \/ \E i \in DOMAIN justifications' : justifications'[i] = n
                PROVE  Positions(n)' # {}
    BY Zenon DEF HeadersKept
  <2>1. Floor' = Floor /\ Positions(n)' = Positions(n)
    BY <1>3 DEF Floor, Positions
  <2>2. stream.just < n \/ \E i \in DOMAIN justifications : justifications[i] = n
    <3>1. CASE stream'.just < n
      BY <1>2, <1>5, <3>1, ChainAssumption DEF Block
    <3>2. ASSUME NEW i \in DOMAIN justifications', justifications'[i] = n
          PROVE  stream.just < n \/ \E k \in DOMAIN justifications : justifications[k] = n
      BY <1>2, <1>4, <3>2, Zenon
    <3>. QED
      BY <3>1, <3>2
  <2>. QED
    BY <1>2, <2>1, <2>2, Zenon DEF HeadersKept
<1>. QED
  BY <1>7, <1>8

\* The header that matches is taken out with its justification, which has no
\* second entry.
LEMMA WithheldMatch ==
    ASSUME TypeOK, StackInv, Ascending, HeadersKept, Match
    PROVE  HeadersKept' /\ Ascending'
<1>. DEFINE top == Last(justifications)
<1>1. PICK pos \in Positions(top) :
          /\ unverified_headers' = SwapRemove(unverified_headers, pos)
          /\ bl_num' = last_finalized_block_header + 1
  BY DEF Match
<1>2. /\ pc = "verify" /\ justifications # <<>> /\ justifications' = Front(justifications)
      /\ pc' \in {"output", "finality_failed"}
      /\ UNCHANGED <<last_finalized_block_header, stream>>
  BY DEF Match, streamVars
<1>3. justifications \in Seq(Block) /\ Len(justifications) \in Nat /\ DOMAIN justifications = 1..Len(justifications)
  BY LenProperties DEF TypeOK
<1>4. /\ top = justifications[Len(justifications)]
      /\ Len(justifications) \in DOMAIN justifications
      /\ \A i \in DOMAIN justifications' :
            i \in DOMAIN justifications /\ justifications'[i] = justifications[i]
  BY <1>2, <1>3, FrontLastProperties
<1>5. Len(justifications) \notin DOMAIN justifications'
  <2>1. Front(justifications) = SubSeq(justifications, 1, Len(justifications) - 1)
    BY Zenon DEF Front
  <2>2. Len(justifications) # 0
    BY <1>3, <1>4
  <2>3. DOMAIN Front(justifications) = 1..(Len(justifications) - 1)
    <3>1. Len(Front(justifications)) = Len(justifications) - 1
      BY <1>3, <2>1, <2>2, SubSeqProperties, SMT
    <3>2. Front(justifications) \in Seq(Block)
      BY <1>2, <1>3, FrontLastProperties
    <3>. QED
      BY <3>1, <3>2, LenProperties
  <2>. QED
    BY <1>2, <1>3, <2>3
<1>6. pos \in DOMAIN unverified_headers /\ unverified_headers[pos].number = top
  BY DEF Positions
<1>. HIDE DEF top
<1>7. Ascending'
  BY <1>4, Zenon DEF Ascending
<1>8. \A i \in DOMAIN justifications' : justifications'[i] # top
  <2>. SUFFICES ASSUME NEW i \in DOMAIN justifications' PROVE justifications[i] # top
    BY <1>4
  <2>1. i < Len(justifications)
    BY <1>3, <1>4, <1>5
  <2>2. justifications[i] < justifications[Len(justifications)]
    BY <1>4, <2>1, Zenon DEF Ascending
  <2>. QED
    BY <1>4, <2>2, Numbers
<1>9. top <= stream.just
  BY <1>4, Zenon DEF StackInv
<1>10. HeadersKept'
  <2>. SUFFICES ASSUME NEW n \in Block, Floor' <= n, n < stream'.next,
                       stream'.just < n \/ \E i \in DOMAIN justifications' : justifications'[i] = n
                PROVE  Positions(n)' # {}
    BY Zenon DEF HeadersKept
  <2>1. Floor' = Floor
    BY <1>1, <1>2 DEF Floor
  <2>2. n # top
    <3>1. top \in Nat /\ stream.just \in Nat
      BY <1>4, Numbers, Zenon
    <3>2. n \in Nat
      BY ChainAssumption DEF Block
    <3>. QED
      BY <1>2, <1>8, <1>9, <3>1, <3>2
  <2>3. Positions(n) # {}
    BY <1>2, <1>4, <2>1, Zenon DEF HeadersKept
  <2>. QED
    BY <1>1, <1>6, <2>2, <2>3, OthersStay
<1>. QED
  BY <1>7, <1>10

\* Sending takes away only headers of blocks that are announced.
LEMMA WithheldSend ==
    ASSUME TypeOK, TipInv, OrderInv, HeadersKept, SendSkipped \/ SendFinalized
    PROVE  HeadersKept'
<1>. SUFFICES ASSUME NEW n \in Block, Floor' <= n, n < stream'.next,
                     stream'.just < n \/ \E i \in DOMAIN justifications' : justifications'[i] = n
              PROVE  Positions(n)' # {}
  BY Zenon DEF HeadersKept
<1>1. pc = "output" /\ UNCHANGED <<justifications, stream>>
  BY Zenon DEF SendSkipped, SendFinalized, streamVars
<1>2. n \in Nat
  BY ChainAssumption DEF Block
<1>3. CASE SendSkipped
  <2>1. Floor' = bl_num + 1 /\ Floor = bl_num
    BY <1>1, <1>3 DEF SendSkipped, Floor
  <2>2. n # bl_num /\ Floor <= n
    BY <1>2, <2>1, Numbers
  <2>3. Positions(n) # {}
    BY <1>1, <2>2, Zenon DEF HeadersKept
  <2>4. CASE UNCHANGED unverified_headers
    BY <2>3, <2>4 DEF Positions
  <2>5. ASSUME NEW pos \in Positions(bl_num), unverified_headers' = SwapRemove(unverified_headers, pos)
        PROVE  Positions(n)' # {}
    <3>1. pos \in DOMAIN unverified_headers /\ unverified_headers[pos].number = bl_num
      BY DEF Positions
    <3>. QED
      BY <2>2, <2>3, <2>5, <3>1, OthersStay
  <2>. QED
    BY <1>3, <2>4, <2>5, Zenon DEF SendSkipped
<1>4. CASE SendFinalized
  <2>1. Floor' = header + 1 /\ Floor = bl_num /\ ~(bl_num < header) /\ UNCHANGED unverified_headers
    BY <1>1, <1>4 DEF SendFinalized, Floor
  <2>2. bl_num <= header
    <3>1. /\ last_finalized_block_header < header
          /\ bl_num <= header \/ bl_num = last_finalized_block_header + 1
      BY <1>1, Zenon DEF TipInv, OrderInv
    <3>. QED
      BY <3>1, Numbers
  <2>3. Floor <= n
    BY <1>2, <2>1, <2>2, Numbers
  <2>4. Positions(n) # {}
    BY <1>1, <2>3, Zenon DEF HeadersKept
  <2>. QED
    BY <2>1, <2>4 DEF Positions
<1>. QED
  BY <1>3, <1>4

\* The newest justification has no header in the queue, so it is announced, with
\* all those below it, or its header has not arrived.
LEMMA WithheldNoMatch ==
    ASSUME TypeOK, TipInv, Ascending, HeadersKept, NoMatch
    PROVE  NothingWithheld'
<1>1. /\ pc = "verify"
      /\ justifications # <<>> => Positions(Last(justifications)) = {}
      /\ UNCHANGED <<justifications, last_finalized_block_header, stream, events>>
  BY DEF NoMatch, blockData, streamVars
<1>. SUFFICES ASSUME NEW i \in DOMAIN justifications, ~(stream.next <= Last(justifications))
              PROVE  justifications[i] <= Feed!Tip
  BY <1>1 DEF NothingWithheld, Feed!Tip
<1>. DEFINE k == Len(justifications)
<1>2. justifications \in Seq(Block) /\ k \in Nat /\ DOMAIN justifications = 1..k
  BY LenProperties DEF TypeOK
<1>3. justifications # <<>>
  BY <1>2
<1>4. Last(justifications) = justifications[k] /\ k \in DOMAIN justifications /\ Last(justifications) \in Block
  BY <1>2, <1>3, FrontLastProperties
<1>. HIDE DEF k
<1>5. justifications[k] \in Nat /\ justifications[i] \in Nat /\ stream.next \in Nat /\ last_finalized_block_header \in Nat
  BY <1>4, Numbers, Zenon
<1>6. ~(Floor <= justifications[k])
  <2>1. justifications[k] < stream.next
    BY <1>4, <1>5
  <2>. QED
    BY <1>1, <1>3, <1>4, <2>1, Zenon DEF HeadersKept
<1>7. justifications[k] <= last_finalized_block_header
  BY <1>1, <1>5, <1>6 DEF Floor
<1>8. justifications[i] <= justifications[k]
  <2>1. i = k \/ i < k
    BY <1>2
  <2>2. i < k => justifications[i] < justifications[k]
    BY <1>4, Zenon DEF Ascending
  <2>. QED
    BY <1>5, <2>1, <2>2
<1>9. last_finalized_block_header = Feed!Tip
  BY <1>1, Zenon DEF TipInv, HeaderVerifiedIsTip
<1>10. justifications[i] <= last_finalized_block_header
  BY <1>5, <1>7, <1>8
<1>. QED
  BY <1>9, <1>10, Zenon

LEMMA WithheldStep == IInv /\ WithheldInv /\ [Next]_vars => WithheldInv'
<1>. SUFFICES ASSUME IInv, WithheldInv, [Next]_vars, resubscriptions' = 0
              PROVE  WithheldInv'
  BY Zenon DEF WithheldInv
<1>1. ~Resubscribe /\ UNCHANGED <<resubscriptions, rewound>>
  <2>1. resubscriptions \in Nat
    BY BoundsAssumption DEF IInv, TypeOK
  <2>2. ~Resubscribe
    BY <2>1 DEF Resubscribe
  <2>. QED
    BY <2>2 DEF Next, vars, streamVars, HandleHeader, HandleJustification, NoMatch, Match,
                SendSkipped, FetchFails, SendFinalized, FinalitySynced, StreamFails
<1>2. /\ ~rewound /\ Ascending /\ NothingWithheld
      /\ pc \in {"recv", "verify", "output"} => HeadersKept
  BY <1>1, Zenon DEF WithheldInv
<1>3. TypeOK /\ TipInv /\ StackInv /\ OrderInv
  BY <1>2, Zenon DEF IInv
<1>. SUFFICES /\ Ascending' /\ NothingWithheld'
              /\ pc' \in {"recv", "verify", "output"} => HeadersKept'
  BY <1>1, <1>2, Zenon DEF WithheldInv
<1>4. CASE HandleHeader
  <2>1. pc = "recv" /\ pc' = "verify" /\ UNCHANGED justifications
    BY <1>4, Zenon DEF HandleHeader
  <2>. QED
    BY <1>2, <1>3, <1>4, <2>1, WithheldHandleHeader, Zenon DEF Ascending, NothingWithheld
<1>5. CASE HandleJustification
  <2>1. pc = "recv" /\ pc' = "verify"
    BY <1>5, Zenon DEF HandleJustification
  <2>. QED
    BY <1>2, <1>3, <1>5, <2>1, WithheldHandleJustification, Zenon DEF NothingWithheld
<1>6. CASE Match
  <2>1. pc = "verify" /\ pc' \in {"output", "finality_failed"}
    BY <1>6 DEF Match
  <2>. QED
    BY <1>2, <1>3, <1>6, <2>1, WithheldMatch DEF NothingWithheld
<1>7. CASE SendSkipped \/ SendFinalized
  <2>1. pc = "output" /\ pc' \in {"output", "verify"} /\ UNCHANGED justifications
    BY <1>7 DEF SendSkipped, SendFinalized
  <2>2. HeadersKept'
    BY <1>2, <1>3, <1>7, <2>1, WithheldSend
  <2>. QED
    BY <1>2, <2>1, <2>2 DEF Ascending, NothingWithheld
<1>8. CASE NoMatch
  <2>1. pc = "verify" /\ pc' = "recv" /\ UNCHANGED <<blockData, bl_num, stream>>
    BY <1>8, Zenon DEF NoMatch, streamVars
  <2>2. HeadersKept'
    BY <1>2, <2>1, Zenon DEF HeadersKept, Floor, Positions, blockData
  <2>3. NothingWithheld'
    BY <1>2, <1>3, <1>8, <2>1, WithheldNoMatch
  <2>. QED
    BY <1>2, <2>1, <2>2, <2>3, Zenon DEF Ascending, blockData
<1>9. CASE FetchFails \/ StreamFails
  <2>1. pc' \in {"fetch_failed", "stopped"} /\ UNCHANGED justifications
    BY <1>9 DEF FetchFails, StreamFails, blockData
  <2>. QED
    BY <1>2, <2>1 DEF Ascending, NothingWithheld
<1>10. CASE FinalitySynced \/ UNCHANGED vars
  <2>1. UNCHANGED <<pc, justifications, unverified_headers, last_finalized_block_header, bl_num, stream, events>>
    BY <1>10, Zenon DEF FinalitySynced, vars, blockData, loopVars, streamVars
  <2>2. HeadersKept => HeadersKept'
    BY <2>1, Zenon DEF HeadersKept, Floor, Positions
  <2>3. NothingWithheld'
    BY <1>1, <1>2, <2>1, Zenon DEF NothingWithheld, Feed!Tip
  <2>. QED
    BY <1>2, <2>1, <2>2, <2>3, Zenon DEF Ascending
<1>. QED
  BY <1>1, <1>4, <1>5, <1>6, <1>7, <1>8, <1>9, <1>10 DEF Next

\* verify_and_output_block_headers goes on until nothing can be announced: a
\* block that is justified is held back, its header there or not, only while the
\* header of the newest justification is awaited.
THEOREM NothingIsWithheld == Spec => []NothingWithheld
<1>1. WithheldInv => NothingWithheld
  BY Zenon DEF WithheldInv, NothingWithheld
<1>. QED
  BY <1>1, WithheldInit, WithheldStep, InductiveInvariant, PTL DEF Spec
=============================================================================
