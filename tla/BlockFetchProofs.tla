-------------------------- MODULE BlockFetchProofs --------------------------
(***************************************************************************)
(* How a block is fetched, for any dimensions of the block, confidences,   *)
(* application rows, partition and threshold: the arithmetic of the number *)
(* of cells, and the safety of the clients of BlockFetch by FetchInv.      *)
(***************************************************************************)
EXTENDS BlockFetch, Integers, FiniteSetTheorems, WellFoundedInduction, TLAPS

LEMMA Powers ==
    /\ Pow2(0) = 1 /\ Pow2(1) = 2 /\ Pow2(2) = 4 /\ Pow2(3) = 8 /\ Pow2(4) = 16 /\ Pow2(5) = 32
    /\ Pow2(6) = 64 /\ Pow2(7) = 128 /\ Pow2(8) = 256 /\ Pow2(9) = 512 /\ Pow2(10) = 1024
    /\ Pow2(11) = 2048 /\ Pow2(12) = 4096 /\ Pow2(13) = 8192 /\ Pow2(14) = 16384
BY DEF Pow2

\* A set of numbers that is not empty has a least element.
LEMMA LeastElement ==
    ASSUME NEW T \in SUBSET Nat, T # {}
    PROVE  \E k \in T : \A j \in T : k <= j
<1>1. IsWellFoundedOn(OpToRel(<, Nat), Nat)
  BY NatLessThanWellFounded, Zenon
<1>2. PICK k \in T : \A j \in T : ~(<<j, k>> \in OpToRel(<, Nat))
  BY <1>1, WFMin, Zenon
<1>3. \A j \in T : ~(j < k)
  BY <1>2, Zenon DEF OpToRel
<1> QED BY <1>3

\* The number of cells for a confidence below 100 percent is enough for it.
LEMMA CellsNeeded ==
    ASSUME NEW c \in Nat, c <= 9999
    PROVE  cells_needed(c) \in 0..14 /\ 10000 <= (10000 - c) * Pow2(cells_needed(c))
<1> DEFINE Enough(k) == 10000 <= (10000 - c) * Pow2(k)
           T == {k \in 0..14 : Enough(k)}
<1>1. 14 \in T
  BY Powers
<1>2. \E k \in T : \A j \in T : k <= j
  BY <1>1, LeastElement
<1>3. \E k \in 0..14 : Enough(k) /\ \A j \in 0..14 : Enough(j) => k <= j
  BY <1>2
<1> DEFINE least == CHOOSE k \in 0..14 : Enough(k) /\ \A j \in 0..14 : Enough(j) => k <= j
<1>4. cells_needed(c) = least
  BY DEF cells_needed
<1> HIDE DEF Enough
<1>5. least \in 0..14 /\ Enough(least)
  BY <1>3
<1> HIDE DEF least
<1> QED BY <1>4, <1>5 DEF Enough

\* With n cells the confidence is reached: 1 - 2^-n, rounded down.
LEMMA ConfidenceReached ==
    ASSUME NEW c \in Nat, c <= 9999, NEW n \in 0..14, 10000 <= (10000 - c) * Pow2(n)
    PROVE  calculate_confidence(n) >= c
<1>1. ASSUME NEW q \in {1, 2, 4, 8, 16, 32, 64, 128, 256, 512, 1024, 2048, 4096, 8192, 16384}, 10000 <= (10000 - c) * q
      PROVE  (10000 * (q - 1)) \div q >= c
  BY <1>1
<1>2. Pow2(n) \in {1, 2, 4, 8, 16, 32, 64, 128, 256, 512, 1024, 2048, 4096, 8192, 16384}
  <2>1. n \in {0, 1, 2, 3, 4, 5, 6, 7, 8, 9, 10, 11, 12, 13, 14}
    OBVIOUS
  <2> QED BY <2>1, Powers
<1> QED BY <1>1, <1>2 DEF calculate_confidence

\* The confidence reported for the number of cells that is sampled for a
\* confidence is no less than that confidence.
LEMMA CountIsEnough ==
    ASSUME NEW c \in Nat, c <= 9999
    PROVE  /\ cell_count_for_confidence(c) \in 1..14
           /\ calculate_confidence(cell_count_for_confidence(c)) >= c
<1>1. CASE c < 5000
  <2> DEFINE n == cells_needed(9930)
  <2>1. n \in 0..14 /\ 10000 <= 70 * Pow2(n)
    BY CellsNeeded
  <2>2. calculate_confidence(n) >= 9930
    BY <2>1, ConfidenceReached
  <2>3. n # 0
    BY <2>1, Powers
  <2>4. cell_count_for_confidence(c) = n
    BY <1>1 DEF cell_count_for_confidence
  <2>5. calculate_confidence(n) \in Int
    <3>1. n \in {0, 1, 2, 3, 4, 5, 6, 7, 8, 9, 10, 11, 12, 13, 14}
      BY <2>1
    <3> HIDE DEF n
    <3> QED BY <3>1, Powers DEF calculate_confidence
  <2> HIDE DEF n
  <2> QED BY <1>1, <2>1, <2>2, <2>3, <2>4, <2>5
<1>2. CASE c >= 5000
  <2> DEFINE n == cells_needed(c)
  <2>1. n \in 0..14 /\ 10000 <= (10000 - c) * Pow2(n)
    BY CellsNeeded
  <2>2. cell_count_for_confidence(c) = IF n <= 1 THEN 1 ELSE n
    BY <1>2 DEF cell_count_for_confidence
  <2> HIDE DEF n
  <2>3. CASE n <= 1
    <3>1. 10000 <= (10000 - c) * Pow2(1)
      BY <2>1, <2>3, Powers
    <3> QED BY <2>2, <2>3, <3>1, ConfidenceReached
  <2>4. CASE n > 1
    BY <2>1, <2>2, <2>4, ConfidenceReached
  <2> QED BY <2>1, <2>3, <2>4
<1> QED BY <1>1, <1>2

LEMMA PositionFinite == IsFiniteSet(Position)
<1>1. IsFiniteSet(ExtendedRow) /\ IsFiniteSet(0..(Cols - 1))
  BY FetchAssumption, FS_Interval DEF ExtendedRow
<1> QED BY <1>1, FS_Product, Zenon DEF Position
-----------------------------------------------------------------------------
LEMMA InitInv == Init => FetchInv
<1> SUFFICES ASSUME Init PROVE FetchInv
  OBVIOUS
<1>1. mode \in {"sample", "app", "fat", "crawl"} /\ pc = "start" /\ (mode = "sample" => option \in Confidences)
  BY DEF Init
<1>2. RowsInv
  BY DEF Init, RowsInv
<1>3. mode = "sample" => SampleInv
  BY <1>1 DEF Init, SampleInv, Empty
<1>4. AppInv
  BY DEF Init, AppInv, RowAnswer, VerifiedRows
<1> QED BY <1>1, <1>2, <1>3, <1>4 DEF FetchInv

\* A step that leaves what was uploaded alone, and does not fetch after it.
LEMMA RowsFrame ==
    ASSUME RowsInv, UNCHANGED uploaded, mode' = mode,
           uploaded.rows # {} => UNCHANGED <<pc, fetched>>
    PROVE  RowsInv'
<1>1. CASE uploaded.rows = {}
  BY <1>1, Zenon DEF RowsInv
<1>2. CASE uploaded.rows # {}
  BY <1>2, Zenon DEF RowsInv
<1> QED BY <1>1, <1>2

\* What is retained of an answer for S: good cells of S.
LEMMA Retained ==
    ASSUME NEW S, NEW cells \in Answers(S)
    PROVE  /\ DOMAIN Retain(cells) = Verified(cells) /\ Verified(cells) \subseteq DOMAIN cells /\ DOMAIN cells \subseteq S
           /\ \A p \in Verified(cells) : Retain(cells)[p] = "good"
           /\ \A c \in Records(Retain(cells)) : c.value = "good" /\ c.key \in S
<1>1. DOMAIN cells \subseteq S
  BY DEF Answers
<1>2. /\ DOMAIN Retain(cells) = Verified(cells) /\ Verified(cells) \subseteq DOMAIN cells
      /\ \A p \in Verified(cells) : Retain(cells)[p] = "good"
  BY DEF Retain, Verified
<1>3. \A c \in Records(Retain(cells)) : c.value = "good" /\ c.key \in S
  BY <1>1, <1>2 DEF Records
<1> QED BY <1>1, <1>2, <1>3

SampleStep == SampleStart \/ fetch_verified_from_dht \/ fetch_verified_from_rpc \/ SampleFails \/ SampleCounted

LEMMA SampleKeeps ==
    ASSUME FetchInv, SampleStep
    PROVE  FetchInv'
<1>1. mode = "sample" /\ mode' = mode /\ option' = option /\ SampleInv /\ RowsInv
      /\ pc' \in {"dht", "count", "rpc", "error", "failed", "verified"}
  BY DEF SampleStep, SampleStart, fetch_verified_from_dht, fetch_verified_from_rpc, SampleFails, SampleCounted,
         Fails, Goto, config, FetchInv
<1>2. uploaded.rows = {}
  BY <1>1 DEF RowsInv
<1>3. RowsInv'
  <2>1. CASE UNCHANGED uploaded
    BY <1>1, <1>2, <2>1, RowsFrame
  <2>2. CASE \E C : uploaded' = [uploaded EXCEPT !.cells = C]
    <3>1. PICK C : uploaded' = [uploaded EXCEPT !.cells = C]
      BY <2>2, Zenon
    <3>2. uploaded = [cells |-> uploaded.cells, rows |-> {}]
      BY <1>1, <1>2 DEF RowsInv
    <3>3. uploaded' = [cells |-> C, rows |-> {}]
      BY <3>1, <3>2
    <3> QED BY <3>3 DEF RowsInv
  <2> QED BY <2>1, <2>2, Zenon DEF SampleStep, SampleStart, fetch_verified_from_dht, fetch_verified_from_rpc,
                                   SampleFails, SampleCounted, Fails
<1>4. SampleInv'
  <2>1. CASE SampleStart
    <3>1. /\ pc = "start" /\ pc' = "dht" /\ wanted = {} /\ uploaded.cells = {}
          /\ wanted' \in generate_random_cells(cell_count_for_confidence(option))
          /\ UNCHANGED <<option, fetched, unfetched, uploaded>>
      BY <1>1, <2>1 DEF SampleStart, Goto, config, SampleInv
    <3>2. DOMAIN fetched = {} /\ unfetched = {}
      BY <1>1, <3>1, Zenon DEF SampleInv
    <3> QED BY <1>1, <3>1, <3>2 DEF SampleInv
  <2>2. CASE fetch_verified_from_dht
    <3>1. /\ pc = "dht" /\ pc' \in {"count", "rpc"} /\ UNCHANGED <<option, wanted, uploaded>>
      BY <2>2 DEF fetch_verified_from_dht, Goto, config
    <3>2. PICK cells \in Answers(wanted) : fetched' = Retain(cells) /\ unfetched' = wanted \ Verified(cells)
      BY <2>2 DEF fetch_verified_from_dht
    <3>3. DOMAIN fetched' \cup unfetched' \subseteq wanted /\ \A p \in DOMAIN fetched' : fetched'[p] = "good"
      BY <3>2, Retained
    <3> QED BY <1>1, <3>1, <3>3 DEF SampleInv
  <2>3. CASE fetch_verified_from_rpc
    <3>1. /\ pc = "rpc" /\ pc' = "count" /\ UNCHANGED <<option, wanted>>
      BY <2>3 DEF fetch_verified_from_rpc, Goto, config
    <3>2. PICK cells \in Answers(unfetched) :
             /\ fetched' = Join(fetched, Retain(cells)) /\ unfetched' = DOMAIN cells \ Verified(cells)
             /\ uploaded' = [uploaded EXCEPT !.cells = Records(Retain(cells))]
      BY <2>3 DEF fetch_verified_from_rpc
    <3>3. /\ DOMAIN Retain(cells) = Verified(cells) /\ Verified(cells) \subseteq DOMAIN cells /\ DOMAIN cells \subseteq unfetched
          /\ \A p \in Verified(cells) : Retain(cells)[p] = "good"
          /\ \A c \in Records(Retain(cells)) : c.value = "good" /\ c.key \in unfetched
      BY Retained
    <3>4. unfetched \subseteq wanted /\ DOMAIN fetched \subseteq wanted /\ \A p \in DOMAIN fetched : fetched[p] = "good"
      BY <1>1 DEF SampleInv
    <3>5. DOMAIN fetched' = DOMAIN fetched \cup Verified(cells) /\ \A p \in DOMAIN fetched' : fetched'[p] = "good"
      BY <3>2, <3>3, <3>4 DEF Join
    <3>6. uploaded'.cells = Records(Retain(cells))
      BY <1>1, <3>2 DEF RowsInv
    <3>7. wanted' \in generate_random_cells(cell_count_for_confidence(option'))
      BY <1>1, <3>1 DEF SampleInv
    <3>8. DOMAIN fetched' \cup unfetched' \subseteq wanted' /\ \A c \in uploaded'.cells : c.value = "good" /\ c.key \in wanted'
      BY <3>1, <3>2, <3>3, <3>4, <3>5, <3>6
    <3> QED BY <1>1, <3>1, <3>5, <3>7, <3>8 DEF SampleInv
  <2>4. CASE SampleFails
    BY <1>1, <2>4 DEF SampleFails, Fails, SampleInv
  <2>5. CASE SampleCounted
    <3>1. pc = "count" /\ UNCHANGED <<option, wanted, fetched, unfetched, uploaded>>
          /\ pc' = IF Cardinality(wanted) > Cardinality(DOMAIN fetched) THEN "failed" ELSE "verified"
      BY <2>5 DEF SampleCounted, Goto, config
    <3>2. Cardinality(wanted) \in Nat /\ Cardinality(DOMAIN fetched) \in Nat
      <4>1. wanted \subseteq Position /\ DOMAIN fetched \subseteq Position
        BY <1>1, <3>1 DEF SampleInv, generate_random_cells
      <4> QED BY <4>1, PositionFinite, FS_Subset, FS_CardinalityType
    <3> QED BY <1>1, <3>1, <3>2 DEF SampleInv
  <2> QED BY <2>1, <2>2, <2>3, <2>4, <2>5 DEF SampleStep
<1> QED BY <1>1, <1>3, <1>4 DEF FetchInv

AppStep == AppFromDht \/ AppFromRpc \/ AppChooses \/ AppCells \/ AppColumns \/ AppReconstructs \/ AppStores \/ AppFails

\* Every extended row has a cell.
LEMMA NothingMissing ==
    ASSUME MissingCells = {}
    PROVE  AppRows \subseteq VerifiedEither
<1> SUFFICES ASSUME NEW r \in AppRows, r \notin VerifiedEither PROVE FALSE
  OBVIOUS
<1>1. <<r, 0>> \in RowOf(r)
  BY FetchAssumption DEF RowOf, Position
<1> QED BY <1>1 DEF MissingCells

LEMMA AppKeeps ==
    ASSUME FetchInv, AppStep
    PROVE  FetchInv'
<1>1. /\ mode = "app" /\ mode' = mode /\ UNCHANGED uploaded /\ AppInv /\ RowsInv
      /\ pc' \in {"rpc", "rows", "decode", "cells", "columns", "rebuild", "stored", "error"}
  BY DEF AppStep, AppFromDht, AppFromRpc, AppChooses, AppCells, AppColumns, AppReconstructs, AppStores, AppFails,
         Fails, Goto, config, FetchInv
<1>2. RowsInv'
  BY <1>1, RowsFrame DEF RowsInv
<1>3. AppInv'
  <2>1. CASE AppFromDht
    <3>1. pc = "start" /\ pc' = "rpc" /\ dht_rows' \in [AppRows -> RowAnswer] /\ rpc_rows' = rpc_rows
      BY <2>1 DEF AppFromDht, Goto
    <3>2. rpc_rows = [r \in AppRows |-> "none"] /\ rpc_rows \in [AppRows -> RowAnswer]
      BY <1>1, <3>1 DEF AppInv
    <3> QED BY <3>1, <3>2 DEF AppInv, VerifiedRows
  <2>2. CASE AppFromRpc
    <3>1. pc' = "rows" /\ dht_rows' = dht_rows /\ rpc_rows' \in [AppRows -> RowAnswer]
          /\ \A r \in VerifiedRows(dht_rows) : rpc_rows'[r] = "none"
      BY <1>1, <2>2 DEF AppFromRpc, Goto, AppInv
    <3> QED BY <1>1, <3>1 DEF AppInv
  <2>3. CASE AppChooses
    <3>1. /\ UNCHANGED <<dht_rows, rpc_rows>> /\ pc' = IF MissingCells = {} THEN "decode" ELSE "cells"
          /\ rows' = [r \in AppRows |-> IF r \in VerifiedEither THEN Chosen(r) ELSE "none"]
      BY <2>3 DEF AppChooses, Goto
    <3>2. VerifiedEither' = VerifiedEither /\ \A r \in AppRows : Chosen(r)' = Chosen(r)
      BY <3>1 DEF VerifiedEither, VerifiedRows, Chosen
    <3>3. pc' = "decode" => AppRows \subseteq VerifiedEither
      BY <3>1, NothingMissing
    <3>4. rows' = [r \in AppRows |-> IF r \in VerifiedEither' THEN Chosen(r)'
                                     ELSE IF pc' \in {"decode", "stored"} THEN "good" ELSE "none"]
      BY <3>1, <3>2, <3>3
    <3> QED BY <1>1, <3>1, <3>4 DEF AppInv, VerifiedRows
  <2>4. CASE AppCells \/ AppColumns \/ AppStores \/ AppFails
    <3>1. /\ UNCHANGED <<dht_rows, rpc_rows, rows>> /\ pc' # "start"
          /\ \/ pc' = "error"
             \/ {pc, pc'} \subseteq {"cells", "columns", "rebuild"} \/ {pc, pc'} \subseteq {"decode", "stored"}
      BY <2>4 DEF AppCells, AppColumns, AppStores, AppFails, Fails, Goto, rowVars
    <3>2. VerifiedEither' = VerifiedEither /\ \A r \in AppRows : Chosen(r)' = Chosen(r)
      BY <3>1 DEF VerifiedEither, VerifiedRows, Chosen
    <3> QED BY <1>1, <3>1, <3>2 DEF AppInv, VerifiedRows
  <2>5. CASE AppReconstructs
    <3>1. /\ UNCHANGED <<dht_rows, rpc_rows>> /\ pc = "rebuild" /\ pc' = "decode"
          /\ rows' = [r \in AppRows |-> IF r \in VerifiedEither THEN rows[r] ELSE "good"]
      BY <2>5 DEF AppReconstructs, Goto
    <3>2. VerifiedEither' = VerifiedEither /\ \A r \in AppRows : Chosen(r)' = Chosen(r)
      BY <3>1 DEF VerifiedEither, VerifiedRows, Chosen
    <3>3. \A r \in AppRows : r \in VerifiedEither => rows[r] = Chosen(r)
      BY <1>1, <3>1 DEF AppInv
    <3>4. rows' = [r \in AppRows |-> IF r \in VerifiedEither' THEN Chosen(r)'
                                     ELSE IF pc' \in {"decode", "stored"} THEN "good" ELSE "none"]
      BY <3>1, <3>2, <3>3
    <3> QED BY <1>1, <3>1, <3>4 DEF AppInv, VerifiedRows
  <2> QED BY <2>1, <2>2, <2>3, <2>4, <2>5 DEF AppStep
<1> QED BY <1>1, <1>2, <1>3 DEF FetchInv, AppStep, AppFromDht, AppFromRpc, AppChooses, AppCells, AppColumns,
                              AppReconstructs, AppStores, AppFails, Fails, Goto

LEMMA FatKeeps ==
    ASSUME FetchInv, FatBatch \/ FatFails \/ FatRows
    PROVE  FetchInv'
<1>1. mode = "fat" /\ mode' = mode /\ pc = "start" /\ pc' \in {"start", "error", "done"} /\ RowsInv /\ uploaded.rows = {}
      /\ uploaded = [cells |-> uploaded.cells, rows |-> {}]
  BY DEF FatBatch, FatFails, FatRows, Fails, Goto, config, FetchInv, RowsInv
<1>2. CASE FatBatch
  <2>1. PICK C : uploaded' = uploaded \/ uploaded' = [uploaded EXCEPT !.cells = C]
    BY <1>2 DEF FatBatch
  <2>2. uploaded' = [cells |-> uploaded'.cells, rows |-> {}]
    BY <1>1, <2>1
  <2> QED BY <1>1, <2>2 DEF FetchInv, RowsInv
<1>3. CASE FatFails
  BY <1>1, <1>3 DEF FatFails, Fails, FetchInv, RowsInv
<1>4. CASE FatRows
  <2>1. pc' = "done" /\ fetched' = fetched
        /\ (uploaded' = uploaded \/ uploaded' = [uploaded EXCEPT !.rows = CompleteRows(fetched)])
    BY <1>4 DEF FatRows, Goto
  <2>2. uploaded' = [cells |-> uploaded.cells, rows |-> {}] \/ uploaded' = [cells |-> uploaded.cells, rows |-> CompleteRows(fetched)]
    BY <1>1, <2>1
  <2>3. uploaded' = [cells |-> uploaded'.cells, rows |-> uploaded'.rows] /\ uploaded'.rows \subseteq CompleteRows(fetched)
    BY <2>2
  <2>4. \A r \in uploaded'.rows : RowOf(r) \subseteq DOMAIN fetched'
    BY <2>1, <2>3 DEF CompleteRows
  <2> QED BY <1>1, <2>1, <2>3, <2>4 DEF FetchInv, RowsInv
<1> QED BY <1>2, <1>3, <1>4

LEMMA CrawlKeeps ==
    ASSUME FetchInv, CrawlCells \/ CrawlRows
    PROVE  FetchInv'
<1>1. mode = "crawl" /\ mode' = mode /\ UNCHANGED uploaded /\ pc' \in {"rows", "done"} /\ RowsInv
  BY DEF CrawlCells, CrawlRows, Goto, config, FetchInv
<1>2. RowsInv'
  BY <1>1, RowsFrame DEF RowsInv
<1> QED BY <1>1, <1>2 DEF FetchInv

\* FetchInv holds throughout.
LEMMA FetchInvariant == Spec => []FetchInv
<1>1. FetchInv /\ [Next]_vars => FetchInv'
  <2> SUFFICES ASSUME FetchInv, [Next]_vars PROVE FetchInv'
    OBVIOUS
  <2>1. CASE UNCHANGED vars
    BY <2>1 DEF vars, FetchInv, SampleInv, AppInv, RowsInv, VerifiedEither, VerifiedRows, Chosen
  <2> QED BY <2>1, SampleKeeps, AppKeeps, FatKeeps, CrawlKeeps DEF Next, SampleStep, AppStep
<1> QED BY <1>1, InitInv, PTL DEF Spec
-----------------------------------------------------------------------------
\* process_block of the clients that sample, for a block of any dimensions and
\* any confidence: a block counts as verified exactly with a good cell for
\* every position sampled, and calculate_confidence then reports what
\* cell_count_for_confidence was asked for, or the whole block was sampled.
THEOREM VerifiedIsEarned == Spec => []ConfidenceIsEarned
<1>1. FetchInv => ConfidenceIsEarned
  <2> SUFFICES ASSUME FetchInv, pc \in {"verified", "failed"} PROVE ConfidenceIsEarned
    BY DEF ConfidenceIsEarned
  <2> DEFINE n == cell_count_for_confidence(option)
             size == Cardinality(Position)
  <2>1. SampleInv
    BY DEF FetchInv
  <2>2. /\ wanted \in SUBSET Position /\ Cardinality(wanted) = IF size < n THEN size ELSE n
        /\ DOMAIN fetched \in SUBSET wanted
    BY <2>1 DEF SampleInv, generate_random_cells
  <2>3. /\ IsFiniteSet(wanted) /\ size \in Nat /\ Cardinality(wanted) \in Nat
        /\ Cardinality(DOMAIN fetched) \in Nat /\ Cardinality(DOMAIN fetched) <= Cardinality(wanted)
        /\ Cardinality(wanted) = size => wanted = Position
        /\ Cardinality(wanted) = Cardinality(DOMAIN fetched) => wanted = DOMAIN fetched
    <3>1. IsFiniteSet(wanted) /\ (Cardinality(wanted) = size => wanted = Position)
      BY <2>2, PositionFinite, FS_Subset
    <3>2. /\ IsFiniteSet(DOMAIN fetched) /\ Cardinality(DOMAIN fetched) <= Cardinality(wanted)
          /\ Cardinality(wanted) = Cardinality(DOMAIN fetched) => wanted = DOMAIN fetched
      BY <2>2, <3>1, FS_Subset
    <3> QED BY <3>1, <3>2, PositionFinite, FS_CardinalityType
  <2> HIDE DEF n, size
  <2>4. CASE pc = "verified"
    <3>1. wanted = DOMAIN fetched
      BY <2>1, <2>3, <2>4 DEF SampleInv
    <3>2. \A p \in wanted : p \in DOMAIN fetched /\ fetched[p] = "good"
      BY <2>1, <3>1 DEF SampleInv
    <3>3. \/ calculate_confidence(Cardinality(DOMAIN fetched)) >= option
          \/ wanted = Position \/ option > 9999
      <4>1. option \in Nat
        BY <2>1, FetchAssumption DEF SampleInv
      <4>2. CASE size < n
        BY <2>2, <2>3, <4>2
      <4>3. CASE ~(size < n) /\ option <= 9999
        BY <2>2, <3>1, <4>1, <4>3, CountIsEnough DEF n
      <4> QED BY <4>1, <4>2, <4>3
    <3> QED BY <2>4, <3>2, <3>3 DEF ConfidenceIsEarned
  <2>5. CASE pc = "failed"
    <3>1. Cardinality(wanted) > Cardinality(DOMAIN fetched)
      BY <2>1, <2>5 DEF SampleInv
    <3>2. wanted # DOMAIN fetched
      BY <2>3, <3>1
    <3>3. \E p \in wanted : p \notin DOMAIN fetched
      BY <2>2, <3>2
    <3> QED BY <2>5, <3>3 DEF ConfidenceIsEarned
  <2> QED BY <2>4, <2>5
<1> QED BY <1>1, FetchInvariant, PTL

\* insert_cells_into_dht and insert_rows_into_dht, for a block of any
\* dimensions and any partition: the clients that sample put only verified
\* cells into the DHT, of those they asked for, and a row goes there only with
\* all its cells fetched.
THEOREM UploadsStaySound == Spec => []UploadsAreSound
<1>1. FetchInv => UploadsAreSound
  BY DEF FetchInv, SampleInv, RowsInv, UploadsAreSound
<1> QED BY <1>1, FetchInvariant, PTL

\* process_block of the application client, for any application rows and
\* threshold: what is decoded is every row, each of them verified or the
\* unverified one of the DHT that hides the node's.
THEOREM AppRowsAreComplete == Spec => []AppRowsComplete
<1>1. FetchInv => AppRowsComplete
  <2> SUFFICES ASSUME FetchInv, pc = "stored", NEW r \in AppRows
               PROVE  rows[r] = "good" \/ (rows[r] = "bad" /\ dht_rows[r] = "bad" /\ rpc_rows[r] = "good")
    BY DEF AppRowsComplete
  <2>1. AppInv
    BY DEF FetchInv
  <2>2. rows[r] = IF r \in VerifiedEither THEN Chosen(r) ELSE "good"
    BY <2>1 DEF AppInv
  <2>3. dht_rows[r] \in RowAnswer /\ rpc_rows[r] \in RowAnswer
    BY <2>1 DEF AppInv
  <2> QED BY <2>2, <2>3 DEF VerifiedEither, VerifiedRows, Chosen, RowAnswer
<1> QED BY <1>1, FetchInvariant, PTL
=============================================================================
