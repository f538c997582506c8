--------------------------- MODULE FinalityProofs ---------------------------
(***************************************************************************)
(* The supermajority test of Finality for validator sets of every size,    *)
(* and check_finality against what it is meant to decide for every block   *)
(* tree, validator set and justification.                                  *)
(*                                                                         *)
(* Finality sync (SyncFinality), for every chain, every number of          *)
(* restarts, every lag of the nodes and every lead of the subscription     *)
(* loop's checkpoints.                                                     *)
(***************************************************************************)
EXTENDS JustificationCheck, SyncFinality, FiniteSetTheorems, WellFoundedInduction, TLAPS

\* is_signed_by_supermajority, with its truncating division, is exactly the
\* strict two thirds bound.
THEOREM SupermajorityIsTwoThirds ==
    \A n, size \in Nat : is_signed_by_supermajority(n, size) <=> 3 * n > 2 * size
<1>. SUFFICES ASSUME NEW n \in Nat, NEW size \in Nat
              PROVE  is_signed_by_supermajority(n, size) <=> 3 * n > 2 * size
  OBVIOUS
<1>. DEFINE m == size * 2
<1>1. m \in Nat
  OBVIOUS
<1>. HIDE DEF m
<1>2. m \div 3 \in Nat /\ 3 * (m \div 3) <= m /\ m < 3 * (m \div 3) + 3
  BY <1>1
<1>3. is_signed_by_supermajority(n, size) <=> n >= (m \div 3) + 1
  BY DEF is_signed_by_supermajority, m
<1>4. m = 2 * size
  BY DEF m
<1>. QED
  BY <1>1, <1>2, <1>3, <1>4

\* Two groups of members that both pass the test have more than a third of the
\* members in common, so check_finality cannot accept two justifications of one
\* set without a third of its members having signed both.
THEOREM SupermajoritiesIntersect ==
    ASSUME NEW V, IsFiniteSet(V), NEW A \in SUBSET V, NEW B \in SUBSET V,
           is_signed_by_supermajority(Cardinality(A), Cardinality(V)),
           is_signed_by_supermajority(Cardinality(B), Cardinality(V))
    PROVE  3 * Cardinality(A \cap B) > Cardinality(V)
<1>1. IsFiniteSet(A) /\ IsFiniteSet(B) /\ IsFiniteSet(A \cap B) /\ IsFiniteSet(A \cup B)
  BY FS_Subset
<1>2. /\ Cardinality(A) \in Nat /\ Cardinality(B) \in Nat /\ Cardinality(V) \in Nat
      /\ Cardinality(A \cap B) \in Nat /\ Cardinality(A \cup B) \in Nat
  BY <1>1, FS_CardinalityType
<1>3. Cardinality(A \cup B) = Cardinality(A) + Cardinality(B) - Cardinality(A \cap B)
  BY <1>1, FS_Union
<1>4. Cardinality(A \cup B) <= Cardinality(V)
  BY FS_Subset
<1>5. /\ 3 * Cardinality(A) > 2 * Cardinality(V)
      /\ 3 * Cardinality(B) > 2 * Cardinality(V)
  BY <1>2, SupermajorityIsTwoThirds
<1>. QED
  BY <1>2, <1>3, <1>4, <1>5
-----------------------------------------------------------------------------
(* confirm_ancestry *)

\* A set of numbers that is not empty has a least element.
LEMMA LeastElement ==
    ASSUME NEW T \in SUBSET Nat, T # {}
    PROVE  \E k \in T : \A j \in T : k <= j
<1>1. IsWellFoundedOn(OpToRel(<, Nat), Nat)
  BY NatLessThanWellFounded, Zenon
<1>2. PICK k \in T : \A j \in T : ~(<<j, k>> \in OpToRel(<, Nat))
  BY <1>1, WFMin, Zenon
<1>3. \A j \in T : ~(j < k)
  BY <1>2, Zenon DEF OpToRel
<1> QED BY <1>3

\* The walk of confirm_ancestry from child through map m, of n passes.
Up(h, m) == IF h \in DOMAIN m THEN m[h] ELSE NoHash
IsWalk(f, child, m, n) == f = [k \in 0..n |-> IF k = 0 THEN child ELSE Up(f[k - 1], m)]

\* There is such a walk.
LEMMA WalkExists ==
    ASSUME NEW child, NEW m, NEW n \in Nat
    PROVE  \E f : IsWalk(f, child, m, n)
<1> DEFINE T == {k \in Nat : ~ \E f : IsWalk(f, child, m, k)}
<1> SUFFICES ASSUME T # {} PROVE FALSE
  OBVIOUS
<1>1. PICK k \in T : \A j \in T : k <= j
  BY LeastElement, Zenon
<1>2. CASE k = 0
  <2>1. IsWalk([i \in 0..0 |-> child], child, m, 0)
    BY DEF IsWalk
  <2> QED BY <1>1, <1>2, <2>1
<1>3. CASE k # 0
  <2>1. k - 1 \in Nat /\ k - 1 \notin T /\ k \in Nat
    BY <1>1, <1>3
  <2>2. PICK f : IsWalk(f, child, m, k - 1)
    BY <2>1
  <2> DEFINE g == [i \in 0..k |-> IF i = k THEN Up(f[k - 1], m) ELSE f[i]]
  <2>3. \A i \in 0..(k - 1) : g[i] = f[i] /\ f[i] = IF i = 0 THEN child ELSE Up(f[i - 1], m)
    BY <2>1, <2>2 DEF IsWalk
  <2>4. \A i \in 0..k : g[i] = IF i = 0 THEN child ELSE Up(g[i - 1], m)
    <3> TAKE i \in 0..k
    <3>1. CASE i = k
      <4>1. g[k] = Up(f[k - 1], m) /\ g[k - 1] = f[k - 1]
        BY <2>1, <2>3
      <4> QED BY <1>3, <3>1, <4>1
    <3>2. CASE i # k
      <4>1. i \in 0..(k - 1) /\ (i # 0 => i - 1 \in 0..(k - 1))
        BY <2>1, <3>2
      <4> QED BY <2>3, <4>1
    <3> QED BY <3>1, <3>2
  <2>5. g = [i \in 0..k |-> IF i = 0 THEN child ELSE Up(g[i - 1], m)]
    BY <2>4
  <2>6. IsWalk(g, child, m, k)
    BY <2>5, Zenon DEF IsWalk
  <2> QED BY <1>1, <2>6
<1> QED BY <1>2, <1>3

\* confirm_ancestry asks whether the walk comes by the root.
LEMMA AncestryIsWalk ==
    ASSUME NEW child, NEW root, NEW m, Cardinality(DOMAIN m) \in Nat
    PROVE  \E f : /\ IsWalk(f, child, m, Cardinality(DOMAIN m))
                  /\ confirm_ancestry(child, root, m) <=>
                        \E k \in 0..Cardinality(DOMAIN m) : f[k] = root
<1> DEFINE n == Cardinality(DOMAIN m)
           curr == CHOOSE f : f = [k \in 0..n |-> IF k = 0 THEN child
                                                  ELSE IF f[k - 1] \in DOMAIN m THEN m[f[k - 1]] ELSE NoHash]
<1>1. \E f : f = [k \in 0..n |-> IF k = 0 THEN child
                                 ELSE IF f[k - 1] \in DOMAIN m THEN m[f[k - 1]] ELSE NoHash]
  <2>1. PICK f : IsWalk(f, child, m, n)
    BY WalkExists
  <2>2. f = [k \in 0..n |-> IF k = 0 THEN child
                           ELSE IF f[k - 1] \in DOMAIN m THEN m[f[k - 1]] ELSE NoHash]
    BY <2>1, Zenon DEF IsWalk, Up
  <2> QED BY <2>2, Zenon
<1>2. curr = [k \in 0..n |-> IF k = 0 THEN child
                              ELSE IF curr[k - 1] \in DOMAIN m THEN m[curr[k - 1]] ELSE NoHash]
  BY <1>1
<1>3. confirm_ancestry(child, root, m) <=> (child = root \/ \E k \in 1..n : curr[k] = root)
  BY DEF confirm_ancestry, AncestryPasses
<1> HIDE DEF curr
<1>4. IsWalk(curr, child, m, n)
  BY <1>2, Zenon DEF IsWalk, Up
<1>5. curr[0] = child
  BY <1>2
<1> HIDE DEF n
<1>6. (child = root \/ \E k \in 1..n : curr[k] = root) <=> \E k \in 0..n : curr[k] = root
  <2>1. n \in Nat /\ 0 \in 0..n
    BY DEF n
  <2>2. \A k : k \in 0..n <=> (k = 0 \/ k \in 1..n)
    BY <2>1
  <2> QED BY <1>5, <2>1, <2>2
<1> QED BY <1>3, <1>4, <1>6 DEF n

\* One pass after the other.
LEMMA WalkSteps ==
    ASSUME NEW f, NEW child, NEW m, NEW n \in Nat, IsWalk(f, child, m, n)
    PROVE  f[0] = child /\ \A k \in 1..n : f[k] = Up(f[k - 1], m)
BY DEF IsWalk

\* The walk stays in a set that holds its start and is closed under parents.
LEMMA WalkStays ==
    ASSUME NEW f, NEW child, NEW m, NEW n \in Nat, IsWalk(f, child, m, n), NoHash \notin DOMAIN m,
           NEW S, child \in S, \A x \in S \cap DOMAIN m : m[x] \in S
    PROVE  \A k \in 0..n : f[k] \in S \cup {NoHash}
<1> DEFINE T == {k \in 0..n : f[k] \notin S \cup {NoHash}}
<1> SUFFICES ASSUME T # {} PROVE FALSE
  OBVIOUS
<1>0. T \in SUBSET Nat
  OBVIOUS
<1>1. PICK k \in T : \A j \in T : k <= j
  BY <1>0, LeastElement, Zenon
<1>2. f[0] = child /\ \A i \in 1..n : f[i] = Up(f[i - 1], m)
  BY WalkSteps
<1>3. k # 0
  BY <1>2
<1>4. k \in 1..n /\ k - 1 \in 0..n /\ k - 1 \notin T
  BY <1>1, <1>3
<1>5. f[k - 1] \in S \cup {NoHash} /\ f[k] = Up(f[k - 1], m)
  BY <1>2, <1>4
<1>6. f[k] \in S \cup {NoHash}
  BY <1>5 DEF Up
<1> QED BY <1>1, <1>6

\* A walk that still has a parent to look up has had one in every pass.
LEMMA WalkKnown ==
    ASSUME NEW f, NEW child, NEW m, NEW n \in Nat, IsWalk(f, child, m, n), NoHash \notin DOMAIN m,
           f[n] \in DOMAIN m
    PROVE  \A k \in 0..n : f[k] \in DOMAIN m
<1> SUFFICES ASSUME NEW j \in 0..n, f[j] \notin DOMAIN m PROVE FALSE
  OBVIOUS
<1> DEFINE T == {k \in j..n : f[k] \in DOMAIN m}
<1>1. n \in T /\ T \in SUBSET Nat
  OBVIOUS
<1>2. PICK k \in T : \A i \in T : k <= i
  BY <1>1, LeastElement, Zenon
<1>3. k \in j..n /\ k # j
  BY <1>2
<1>4. k \in 1..n /\ k - 1 \in j..n /\ k - 1 \notin T
  BY <1>2, <1>3
<1>5. f[k - 1] \notin DOMAIN m /\ f[k] = Up(f[k - 1], m)
  BY <1>4, WalkSteps
<1>6. f[k] = NoHash
  BY <1>5 DEF Up
<1> QED BY <1>2, <1>6

\* As many passes as the map has entries are enough: the blocks on the walk
\* up to some pass are closed under parents.
LEMMA WalkCloses ==
    ASSUME NEW f, NEW child, NEW m, IsFiniteSet(DOMAIN m), NoHash \notin DOMAIN m,
           IsWalk(f, child, m, Cardinality(DOMAIN m))
    PROVE  \E l \in 0..Cardinality(DOMAIN m) :
              \A k \in 0..l : f[k] \in DOMAIN m => \E j \in 0..l : f[j] = m[f[k]]
<1> DEFINE n == Cardinality(DOMAIN m)
<1>1. n \in Nat
  BY FS_CardinalityType
<1> HIDE DEF n
<1>2. IsWalk(f, child, m, n)
  BY DEF n
<1>3. \A k \in 1..n : f[k] = Up(f[k - 1], m)
  BY <1>1, <1>2, WalkSteps
<1>4. \A k \in 0..(n - 1) : f[k] \in DOMAIN m => f[k + 1] = m[f[k]]
  <2> SUFFICES ASSUME NEW k \in 0..(n - 1), f[k] \in DOMAIN m PROVE f[k + 1] = m[f[k]]
    OBVIOUS
  <2>1. k + 1 \in 1..n /\ (k + 1) - 1 = k
    BY <1>1
  <2>2. f[k + 1] = Up(f[k], m)
    BY <1>3, <2>1
  <2> QED BY <2>2 DEF Up
<1>5. CASE f[n] \notin DOMAIN m
  <2>1. ASSUME NEW k \in 0..n, f[k] \in DOMAIN m
        PROVE  \E j \in 0..n : f[j] = m[f[k]]
    <3>1. k # n
      BY <1>5, <2>1
    <3>2. k \in 0..(n - 1) /\ k + 1 \in 0..n
      BY <1>1, <3>1
    <3> QED BY <1>4, <2>1, <3>2
  <2>2. n \in 0..n
    BY <1>1
  <2> QED BY <2>1, <2>2 DEF n
<1>6. CASE f[n] \in DOMAIN m
  <2>1. \A k \in 0..n : f[k] \in DOMAIN m
    BY <1>1, <1>2, <1>6, WalkKnown
  <2>2. f \in [0..n -> DOMAIN m]
    BY <1>2, <2>1, Zenon DEF IsWalk
  <2>3. IsFiniteSet(0..n) /\ Cardinality(0..n) = n + 1 /\ Cardinality(DOMAIN m) < Cardinality(0..n)
    <3>1. IsFiniteSet(0..n) /\ Cardinality(0..n) = n + 1
      BY <1>1, FS_Interval
    <3> QED BY <1>1, <3>1 DEF n
  <2>4. PICK x, y \in 0..n : x # y /\ f[x] = f[y]
    BY <2>2, <2>3, FS_PigeonHole, Zenon
  <2>5. PICK i \in 0..n, j \in 0..n : i < j /\ f[i] = f[j]
    BY <1>1, <2>4
  <2>6. j - 1 \in 0..n /\ i \in 0..(j - 1)
    BY <1>1, <2>5
  <2>7. ASSUME NEW k \in 0..(j - 1), f[k] \in DOMAIN m
        PROVE  \E b \in 0..(j - 1) : f[b] = m[f[k]]
    <3>1. k \in 0..(n - 1) /\ f[k + 1] = m[f[k]]
      BY <1>1, <1>4, <2>5, <2>7
    <3>2. CASE k + 1 = j
      BY <2>5, <2>6, <3>1, <3>2
    <3>3. CASE k + 1 # j
      <4>1. k + 1 \in 0..(j - 1)
        BY <2>6, <3>3
      <4> QED BY <3>1, <4>1
    <3> QED BY <3>2, <3>3
  <2> QED BY <2>6, <2>7 DEF n
<1> QED BY <1>5, <1>6

\* confirm_ancestry, for every tree and every part of it that is enclosed:
\* it finds the root exactly when the enclosed headers lead there.
LEMMA Reachability ==
    ASSUME JustificationInv, NEW h \in Hash, NEW root \in Hash
    PROVE  confirm_ancestry(h, root, votes_ancestries) <=> Descends(h, root)
<1> DEFINE m == votes_ancestries
           n == Cardinality(DOMAIN m)
<1>1. /\ IsFiniteSet(DOMAIN m) /\ DOMAIN m \subseteq Hash /\ NoHash \notin DOMAIN m /\ NoHash \notin Hash
      /\ \A x \in DOMAIN m : m[x] \in Hash
  BY TreeAssumption DEF JustificationInv
<1>2. n \in Nat
  BY <1>1, FS_CardinalityType
<1> HIDE DEF m
<1>3. PICK f : IsWalk(f, h, m, n) /\ (confirm_ancestry(h, root, m) <=> \E k \in 0..n : f[k] = root)
  BY <1>2, AncestryIsWalk
<1>4. ASSUME NEW k \in 0..n, f[k] = root
      PROVE  Descends(h, root)
  <2> SUFFICES ASSUME NEW S \in SUBSET Hash, h \in S, \A x \in S \cap DOMAIN m : m[x] \in S
               PROVE  root \in S
    BY DEF Descends, m
  <2>1. f[k] \in S \cup {NoHash}
    BY <1>1, <1>2, <1>3, WalkStays
  <2> QED BY <1>1, <1>4, <2>1
<1>5. ASSUME Descends(h, root)
      PROVE  \E k \in 0..n : f[k] = root
  <2>1. PICK l \in 0..n : \A k \in 0..l : f[k] \in DOMAIN m => \E j \in 0..l : f[j] = m[f[k]]
    BY <1>1, <1>3, WalkCloses
  <2> DEFINE S == {f[k] : k \in 0..l} \cap Hash
  <2>2. h \in S
    <3>1. f[0] = h /\ 0 \in 0..l
      BY <1>2, <1>3, <2>1, WalkSteps
    <3> QED BY <3>1
  <2>3. \A x \in S \cap DOMAIN m : m[x] \in S
    <3> TAKE x \in S \cap DOMAIN m
    <3>1. PICK k \in 0..l : f[k] = x
      OBVIOUS
    <3>2. PICK j \in 0..l : f[j] = m[x]
      BY <2>1, <3>1
    <3> QED BY <1>1, <3>2
  <2>4. S \in SUBSET Hash
    OBVIOUS
  <2> HIDE DEF S
  <2>5. root \in S
    BY <1>5, <2>2, <2>3, <2>4 DEF Descends, m
  <2>6. PICK k \in 0..l : f[k] = root
    BY <2>5 DEF S
  <2>7. k \in 0..n
    BY <1>2, <2>1
  <2> QED BY <2>6, <2>7
<1> QED BY <1>3, <1>4, <1>5 DEF m

\* The justification is put together from the tree.
LEMMA JustificationInvariant == CheckSpec => []JustificationInv
<1>1. CheckInit => JustificationInv
  <2> SUFFICES ASSUME CheckInit PROVE JustificationInv
    OBVIOUS
  <2>1. DOMAIN votes_ancestries = {} /\ IsFiniteSet({})
    BY FS_EmptySet DEF CheckInit
  <2> QED BY <2>1 DEF CheckInit, JustificationInv
<1>2. JustificationInv /\ [CheckNext]_checkVars => JustificationInv'
  <2> SUFFICES ASSUME JustificationInv, [CheckNext]_checkVars PROVE JustificationInv'
    OBVIOUS
  <2>1. CASE AddPrecommit
    BY <2>1 DEF AddPrecommit, JustificationInv
  <2>2. CASE AddAncestry
    <3>1. PICK h \in DOMAIN Parent \ DOMAIN votes_ancestries :
             votes_ancestries' = [k \in DOMAIN votes_ancestries \cup {h} |-> Parent[k]]
      BY <2>2 DEF AddAncestry
    <3>2. DOMAIN votes_ancestries' = DOMAIN votes_ancestries \cup {h} /\ IsFiniteSet(DOMAIN votes_ancestries \cup {h})
      BY <3>1, FS_AddElement DEF JustificationInv
    <3> QED BY <2>2, <3>1, <3>2 DEF AddAncestry, JustificationInv
  <2>3. CASE UNCHANGED checkVars
    BY <2>3 DEF checkVars, JustificationInv
  <2> QED BY <2>1, <2>2, <2>3 DEF CheckNext
<1> QED BY <1>1, <1>2, PTL DEF CheckSpec

\* confirm_ancestry, for every block tree and however much of it a
\* justification encloses: as many passes as there are headers are enough to
\* find every ancestor they lead to, and nothing else is found.
THEOREM AncestryIsExact == CheckSpec => []AncestryIsReachability
<1>1. JustificationInv => AncestryIsReachability
  BY Reachability DEF AncestryIsReachability
<1> QED BY <1>1, JustificationInvariant, PTL
-----------------------------------------------------------------------------
(* check_finality *)

\* The fallback tries exactly the set ids that are tolerated.
LEMMA ToleratedExactly ==
    ASSUME NEW v, v.set_id \in Nat, NEW expected \in Nat
    PROVE  VerifiesUnder(v, expected) <=> Tolerated(v.set_id, expected)
BY SetIdWindowAssumption DEF VerifiesUnder, AlternativeSetIds, Tolerated

\* With one vote per signer there are as many matched votes as members that voted.
Voters(s) == {s[i].id : i \in DOMAIN s}
Matched(s, M) == {i \in DOMAIN s : s[i].id \in M}

LEMMA MatchedAreMembers ==
    ASSUME NEW A, NEW s \in Seq(A), NEW M, Cardinality(Voters(s)) = Len(s)
    PROVE  Cardinality(Matched(s, M)) = Cardinality(Voters(s) \cap M)
<1> DEFINE D == DOMAIN s
           V == {s[i].id : i \in D}
           f == [i \in D |-> s[i].id]
           matched == {i \in D : s[i].id \in M}
           g == [i \in matched |-> s[i].id]
<1>1. Len(s) \in Nat /\ D = 1..Len(s)
  OBVIOUS
<1>2. IsFiniteSet(D) /\ Cardinality(D) = Len(s)
  <2> DEFINE n == Len(s)
  <2>1. n \in Nat /\ D = 1..n
    BY <1>1
  <2> HIDE DEF n, D
  <2>2. IsFiniteSet(1..n) /\ Cardinality(1..n) = IF 1 > n THEN 0 ELSE n - 1 + 1
    BY <2>1, FS_Interval
  <2>3. IsFiniteSet(D) /\ Cardinality(D) = n
    BY <2>1, <2>2
  <2> QED BY <2>3 DEF n
<1>3. f \in Surjection(D, V)
  BY DEF Surjection
<1>4. f \in Injection(D, V)
  <2>1. Cardinality(V) = Cardinality(D)
    BY <1>2 DEF Voters
  <2> HIDE DEF D, V, f
  <2> QED BY <1>2, <1>3, <2>1, FS_Surjection
<1>5. \A i, j \in D : s[i].id = s[j].id => i = j
  BY <1>4, Zenon DEF Injection, IsInjective
<1>6. g \in Bijection(matched, V \cap M)
  BY <1>5 DEF Bijection, Injection, Surjection, IsInjective
<1>7. IsFiniteSet(matched)
  BY <1>2, FS_Subset
<1> HIDE DEF matched, g, V
<1>8. Cardinality(V \cap M) = Cardinality(matched)
  BY <1>6, <1>7, FS_Bijection DEF ExistsBijection
<1> QED BY <1>8, Zenon DEF matched, V, Voters, Matched

\* check_finality, for every validator set, block tree and justification with
\* one vote per signer: it accepts exactly when all votes are signed under
\* tolerated set ids for blocks at or above the target, and strictly more than
\* two thirds of the members voted.
THEOREM AcceptsExactly == CheckSpec => []AcceptsExactlySupermajority
<1> DEFINE voters == {precommits[i].id : i \in DOMAIN precommits}
           justification == [target_hash |-> target_hash, precommits |-> precommits,
                             votes_ancestries |-> votes_ancestries]
<1>1. ASSUME JustificationInv, Cardinality(voters) = Len(precommits), NEW expected \in ExpectedSetId
      PROVE  check_finality([set_id |-> expected, validator_set |-> Member], justification)
             <=> /\ \A i \in DOMAIN precommits :
                       /\ Tolerated(precommits[i].set_id, expected)
                       /\ Descends(precommits[i].target_hash, target_hash)
                 /\ 3 * Cardinality(voters \cap Member) > 2 * Cardinality(Member)
  <2> DEFINE matched == {i \in DOMAIN precommits : precommits[i].id \in Member}
  <2>1. check_finality([set_id |-> expected, validator_set |-> Member], justification)
        <=> /\ \A i \in DOMAIN precommits :
                  /\ VerifiesUnder(precommits[i], expected)
                  /\ confirm_ancestry(precommits[i].target_hash, target_hash, votes_ancestries)
            /\ is_signed_by_supermajority(Cardinality(matched), Cardinality(Member))
    BY Zenon DEF check_finality
  <2>2. ASSUME NEW i \in DOMAIN precommits
        PROVE  /\ VerifiesUnder(precommits[i], expected) <=> Tolerated(precommits[i].set_id, expected)
               /\ confirm_ancestry(precommits[i].target_hash, target_hash, votes_ancestries)
                     <=> Descends(precommits[i].target_hash, target_hash)
    <3>1. precommits[i] \in Vote /\ target_hash \in Hash
      BY <1>1 DEF JustificationInv
    <3>2. precommits[i].set_id \in Nat /\ precommits[i].target_hash \in Hash /\ expected \in Nat
      BY <3>1, TreeAssumption DEF Vote
    <3> QED BY <1>1, <3>1, <3>2, ToleratedExactly, Reachability
  <2>3. Cardinality(matched) = Cardinality(voters \cap Member)
    <3>1. precommits \in Seq(Vote)
      BY <1>1 DEF JustificationInv
    <3>2. Cardinality(Voters(precommits)) = Len(precommits)
      BY <1>1, Zenon DEF Voters
    <3>3. Cardinality(Matched(precommits, Member)) = Cardinality(Voters(precommits) \cap Member)
      BY <3>1, <3>2, MatchedAreMembers
    <3> QED BY <3>3, Zenon DEF Voters, Matched
  <2>4. Cardinality(voters \cap Member) \in Nat /\ Cardinality(Member) \in Nat
    BY TreeAssumption, FS_Subset, FS_CardinalityType
  <2>5. is_signed_by_supermajority(Cardinality(matched), Cardinality(Member))
        <=> 3 * Cardinality(voters \cap Member) > 2 * Cardinality(Member)
    BY <2>3, <2>4, SupermajorityIsTwoThirds
  <2> HIDE DEF voters, matched, justification
  <2> QED BY <2>1, <2>2, <2>5, Zenon
<1>2. JustificationInv => AcceptsExactlySupermajority
  BY <1>1, Zenon DEF AcceptsExactlySupermajority
<1> QED BY <1>2, JustificationInvariant, PTL
-----------------------------------------------------------------------------
(* Finality sync *)

\* The set in force at a block is a validator set.
LEMMA ValsetAtType == \A n \in 0..(MaxBlock + 1) : ValsetAt(n) \in Valset
  BY SetIdAssumption DEF ValsetAt, Valset

\* Without a change in block n its successor is finalized by the same set.
LEMMA SetStays ==
    ASSUME NEW n \in Block, n \notin AuthChange
    PROVE  ValsetAt(n + 1) = ValsetAt(n)
<1>1. n \in 0..(MaxBlock + 1) /\ n + 1 \in 0..(MaxBlock + 1) /\ n <= n + 1
  BY ChainAssumption DEF Block
<1>2. AuthChange \cap (n..((n + 1) - 1)) = {}
  BY ChainAssumption DEF Block
<1>3. SetId[n] = SetId[n + 1]
  BY <1>1, <1>2, SetIdAssumption
<1> QED
  BY <1>3 DEF ValsetAt

\* The set that sync derives from a change in block n finalizes its successor,
\* when the set it is derived from finalizes block n.
LEMMA SetFollows ==
    ASSUME NEW n \in AuthChange, valset = ValsetAt(n)
    PROVE  NextValset(n) = ValsetAt(n + 1)
<1>1. SetId[n + 1] = SetId[n] + 1
  BY SetIdAssumption
<1> QED
  BY <1>1 DEF NextValset, ValsetAt

\* Verified changes below block n, with what happens at block n itself.
LEMMA OneMore ==
    ASSUME NEW n \in 1..(MaxBlock + 1), NEW V, NEW W,
           AuthChange \cap (1..(n - 1)) \subseteq V, V \subseteq W,
           n \in AuthChange => n \in W
    PROVE  AuthChange \cap (1..((n + 1) - 1)) \subseteq W
  BY ChainAssumption DEF Block

LEMMA InitIInv == Init => IInv
<1> SUFFICES ASSUME Init PROVE IInv
  OBVIOUS
<1>1. ValsetAt(1) \in Valset
  BY ValsetAtType, ChainAssumption
<1>2. TypeOK
  <2>1. 1 \in 1..(MaxBlock + 1) /\ 1 \in Block /\ 0 \in 0..MaxRestarts
    BY SyncAssumption, ChainAssumption DEF Block
  <2> QED
    BY <1>1, <2>1, Zenon DEF Init, TypeOK
<1>3. PhaseInv /\ TaskInv /\ CheckpointInv /\ SyncedIsVerified /\ SyncAccepts
  BY Zenon DEF Init, PhaseInv, TaskInv, CheckpointInv, SyncedIsVerified, SyncAccepts
<1>4. OrderInv
  BY DEF Init, OrderInv
<1> QED
  BY <1>2, <1>3, <1>4 DEF IInv

\* Every step keeps the types of the task, the State and the database.
LEMMA TypeStep == IInv /\ [Next]_vars => TypeOK'
<1> SUFFICES ASSUME IInv, [Next]_vars PROVE TypeOK'
  OBVIOUS
<1> USE ChainAssumption, SyncAssumption
<1>1. CASE Start
  <2>1. ResumePoint.number \in 1..(MaxBlock + 1) /\ ResumePoint.valset \in Valset
    BY ValsetAtType DEF ResumePoint, IInv, TypeOK, Checkpoint
  <2> QED
    BY <1>1, <2>1 DEF Start, IInv, TypeOK, Block
<1>2. CASE NextHeader
  BY <1>2 DEF NextHeader, IInv, TypeOK, Block
<1>3. CASE ChangeHeader
  BY <1>3 DEF ChangeHeader, IInv, TypeOK, Block
<1>4. CASE CheckProof
  <2>1. curr_block_num \in AuthChange /\ curr_block_num + 1 \in 1..(MaxBlock + 1)
    BY <1>4 DEF CheckProof, IInv, PhaseInv, TypeOK, Block
  <2>2. NextValset(curr_block_num) \in Valset
    <3>1. ValsetAt(curr_block_num + 1) \in Valset
      BY <2>1, ValsetAtType
    <3> QED
      BY <3>1 DEF NextValset, IInv, TypeOK, Valset
  <2>3. SyncCheckpoint(curr_block_num) \in Checkpoint
    BY <2>1, <2>2 DEF SyncCheckpoint, Checkpoint
  <2> QED
    BY <1>4, <2>1, <2>2, <2>3, Zenon DEF CheckProof, IInv, TypeOK
<1>5. CASE Finish
  BY <1>5 DEF Finish, IInv, TypeOK
<1>6. CASE BlockMissing \/ CallFails
  BY <1>6 DEF BlockMissing, CallFails, IInv, TypeOK
<1>7. CASE NodeFinalizes
  BY <1>7 DEF NodeFinalizes, IInv, TypeOK, Block
<1>8. CASE LoopCheckpoint
  <2>1. PICK n, m \in Block :
          /\ loop_block < n
          /\ loop_block' = n
          /\ checkpoint' = [number |-> n, valset |-> ValsetAt(m)]
          /\ led' = (led \/ ValsetAt(m) # ValsetAt(n))
          /\ verified' = verified \cup (AuthChange \cap (last_block_num..(n - 1)))
    BY <1>8 DEF LoopCheckpoint
  <2>2. checkpoint' \in Checkpoint
    BY <2>1, ValsetAtType DEF IInv, TypeOK, Checkpoint, Block
  <2>3. led' \in BOOLEAN
    BY <2>1, Zenon DEF IInv, TypeOK
  <2> QED
    BY <1>8, <2>1, <2>2, <2>3 DEF LoopCheckpoint, IInv, TypeOK
<1>9. CASE Restart
  <2>1. restarts' \in 0..MaxRestarts
    BY <1>9 DEF Restart, IInv, TypeOK
  <2> QED
    BY <1>9, <2>1, Zenon DEF Restart, IInv, TypeOK
<1>10. CASE UNCHANGED vars
  BY <1>10 DEF vars, IInv, TypeOK
<1> QED
  BY <1>1, <1>2, <1>3, <1>4, <1>5, <1>6, <1>7, <1>8, <1>9, <1>10 DEF Next, SyncStep

\* The task's phases: finality_synced is set exactly when sync has come to its end,
\* and a proof is only asked for at a set change.
LEMMA PhaseStep == IInv /\ [Next]_vars => PhaseInv'
<1> SUFFICES ASSUME IInv, [Next]_vars PROVE PhaseInv'
  OBVIOUS
<1> USE DEF IInv, PhaseInv
<1>1. CASE Start
  BY <1>1, Zenon DEF Start
<1>2. CASE NextHeader
  BY <1>2, Zenon DEF NextHeader
<1>3. CASE ChangeHeader
  BY <1>3, Zenon DEF ChangeHeader
<1>4. CASE CheckProof
  BY <1>4, Zenon DEF CheckProof
<1>5. CASE Finish
  BY <1>5, Zenon DEF Finish
<1>6. CASE BlockMissing
  BY <1>6, Zenon DEF BlockMissing
<1>7. CASE CallFails
  BY <1>7, Zenon DEF CallFails
<1>8. CASE NodeFinalizes
  BY <1>8, Zenon DEF NodeFinalizes
<1>9. CASE LoopCheckpoint
  BY <1>9, Zenon DEF LoopCheckpoint
<1>10. CASE Restart
  BY <1>10, Zenon DEF Restart
<1>11. CASE UNCHANGED vars
  BY <1>11, Zenon DEF vars
<1> QED
  BY <1>1, <1>2, <1>3, <1>4, <1>5, <1>6, <1>7, <1>8, <1>9, <1>10, <1>11, Zenon
  DEF Next, SyncStep

\* What sync and the subscription loop know of the chain when they store it.
LEMMA KnowledgeStep ==
    IInv /\ [Next]_vars => TaskInv' /\ CheckpointInv' /\ SyncedIsVerified' /\ SyncAccepts'
<1> SUFFICES ASSUME IInv, [Next]_vars
             PROVE  TaskInv' /\ CheckpointInv' /\ SyncedIsVerified' /\ SyncAccepts'
  OBVIOUS
<1> USE ChainAssumption, SyncAssumption
<1>1. CASE Start
  <2>1. /\ led \/ ResumePoint.valset = ValsetAt(ResumePoint.number)
        /\ AuthChange \cap (1..(ResumePoint.number - 1)) \subseteq verified
    BY DEF ResumePoint, IInv, CheckpointInv
  <2>2. ~ finality_synced'
    BY <1>1, Zenon DEF Start, IInv, PhaseInv
  <2>3. TaskInv'
    BY <1>1, <2>1 DEF Start, TaskInv, ValsetAt
  <2>4. CheckpointInv'
    BY <1>1 DEF Start, IInv, CheckpointInv, ValsetAt
  <2> QED
    BY <1>1, <2>2, <2>3, <2>4 DEF Start, SyncedIsVerified, SyncAccepts
<1>2. CASE NextHeader
  <2>1. curr_block_num \in Block /\ curr_block_num \in 1..(MaxBlock + 1)
    BY <1>2 DEF NextHeader, IInv, TypeOK, Block
  <2>2. ValsetAt(curr_block_num + 1) = ValsetAt(curr_block_num)
    BY <1>2, <2>1, SetStays DEF NextHeader
  <2>3. AuthChange \cap (1..((curr_block_num + 1) - 1)) \subseteq verified
    BY <1>2, <2>1, OneMore DEF NextHeader, IInv, TaskInv
  <2>4. TaskInv'
    BY <1>2, <2>2, <2>3 DEF NextHeader, IInv, TaskInv, ValsetAt
  <2> QED
    BY <1>2, <2>4 DEF NextHeader, IInv, CheckpointInv, SyncedIsVerified, SyncAccepts, ValsetAt
<1>3. CASE ChangeHeader
  BY <1>3 DEF ChangeHeader, IInv, TaskInv, CheckpointInv, SyncedIsVerified, SyncAccepts,
              ValsetAt
<1>4. CASE CheckProof
  <2>1. curr_block_num \in AuthChange /\ curr_block_num \in 1..(MaxBlock + 1)
    BY <1>4 DEF CheckProof, IInv, PhaseInv, TypeOK
  <2>2. CASE check_finality(valset, Justification[curr_block_num])
    <3>1. /\ curr_block_num' = curr_block_num + 1
          /\ valset' = NextValset(curr_block_num)
          /\ checkpoint' = SyncCheckpoint(curr_block_num)
          /\ verified' = verified \cup {curr_block_num}
          /\ pc' = "sync"
          /\ UNCHANGED <<led, finality_synced, last_block_num>>
      BY <1>4, <2>2 DEF CheckProof
    <3>2. led \/ NextValset(curr_block_num) = ValsetAt(curr_block_num + 1)
      BY <1>4, <2>1, SetFollows DEF CheckProof, IInv, TaskInv
    <3>3. AuthChange \cap (1..((curr_block_num + 1) - 1)) \subseteq verified'
      BY <1>4, <2>1, <3>1, OneMore DEF CheckProof, IInv, TaskInv
    <3>4. TaskInv'
      BY <3>1, <3>2, <3>3 DEF TaskInv, ValsetAt
    <3>5. CheckpointInv'
      BY <3>1, <3>2, <3>3 DEF CheckpointInv, SyncCheckpoint, ValsetAt
    <3> QED
      BY <3>1, <3>4, <3>5 DEF IInv, SyncedIsVerified, SyncAccepts
  <2>3. CASE ~ check_finality(valset, Justification[curr_block_num])
    <3>1. curr_block_num \in Block
      BY <2>1
    <3>2. led
      BY <1>4, <2>3, <3>1, JustificationAssumption DEF CheckProof, IInv, TaskInv
    <3> QED
      BY <1>4, <2>3, <3>2
      DEF CheckProof, IInv, TaskInv, CheckpointInv, SyncedIsVerified, SyncAccepts, ValsetAt
  <2> QED
    BY <2>2, <2>3
<1>5. CASE Finish
  <2>1. (curr_block_num - 1) = last_block_num
    BY <1>5 DEF Finish, AtEnd, IInv, TypeOK, Block
  <2>2. AuthChange \cap (1..last_block_num) \subseteq verified
    BY <1>5, <2>1 DEF Finish, IInv, TaskInv
  <2> QED
    BY <1>5, <2>2 DEF Finish, IInv, TaskInv, CheckpointInv, SyncedIsVerified, SyncAccepts,
                      ValsetAt
<1>6. CASE BlockMissing \/ CallFails
  <2>1. /\ pc' = "rpc_failed"
        /\ UNCHANGED <<last_block_num, finality_synced, checkpoint, verified, led>>
    BY <1>6, Zenon DEF BlockMissing, CallFails
  <2>2. CheckpointInv'
    BY <2>1, Zenon DEF IInv, CheckpointInv, ValsetAt
  <2> QED
    BY <2>1, <2>2, Zenon DEF IInv, TaskInv, SyncedIsVerified, SyncAccepts
<1>7. CASE NodeFinalizes
  BY <1>7 DEF NodeFinalizes, IInv, TaskInv, CheckpointInv, SyncedIsVerified, SyncAccepts,
              ValsetAt
<1>8. CASE LoopCheckpoint
  <2>1. PICK n, m \in Block :
          /\ loop_block < n
          /\ checkpoint' = [number |-> n, valset |-> ValsetAt(m)]
          /\ led' = (led \/ ValsetAt(m) # ValsetAt(n))
          /\ verified' = verified \cup (AuthChange \cap (last_block_num..(n - 1)))
    BY <1>8 DEF LoopCheckpoint
  <2>2. pc = "synced" /\ finality_synced /\ UNCHANGED <<pc, finality_synced, last_block_num>>
    BY <1>8 DEF LoopCheckpoint, IInv, PhaseInv
  <2>3. AuthChange \cap (1..last_block_num) \subseteq verified
    BY <2>2 DEF IInv, SyncedIsVerified
  <2>4. AuthChange \cap (1..(n - 1)) \subseteq verified'
    BY <2>1, <2>3 DEF IInv, TypeOK, Block
  <2>5. led' \/ ValsetAt(m) = ValsetAt(n)
    BY <2>1, Zenon
  <2>6. CheckpointInv'
    BY <2>1, <2>4, <2>5 DEF CheckpointInv, ValsetAt
  <2>7. SyncedIsVerified'
    BY <2>1, <2>2, <2>3 DEF SyncedIsVerified
  <2> QED
    BY <2>2, <2>6, <2>7 DEF TaskInv, SyncAccepts
<1>9. CASE Restart
  BY <1>9 DEF Restart, IInv, TaskInv, CheckpointInv, SyncedIsVerified, SyncAccepts, ValsetAt
<1>10. CASE UNCHANGED vars
  BY <1>10 DEF vars, IInv, TaskInv, CheckpointInv, SyncedIsVerified, SyncAccepts, ValsetAt
<1> QED
  BY <1>1, <1>2, <1>3, <1>4, <1>5, <1>6, <1>7, <1>8, <1>9, <1>10 DEF Next, SyncStep

\* The checkpoint stays at or below the block that either writer writes next, and
\* is only ever moved forward.
LEMMA OrderStep ==
    IInv /\ [Next]_vars =>
        /\ OrderInv'
        /\ checkpoint # None => checkpoint' # None /\ checkpoint'.number >= checkpoint.number
<1> SUFFICES ASSUME IInv, [Next]_vars
             PROVE  /\ OrderInv'
                    /\ checkpoint # None =>
                          checkpoint' # None /\ checkpoint'.number >= checkpoint.number
  OBVIOUS
<1>t. /\ curr_block_num \in 1..(MaxBlock + 1) /\ last_block_num \in Block /\ loop_block \in Block
      /\ checkpoint \in Checkpoint \cup {None} /\ finality_synced \in BOOLEAN
  BY DEF IInv, TypeOK
<1>n. /\ curr_block_num \in Nat /\ curr_block_num >= 1 /\ last_block_num \in Nat /\ loop_block \in Nat
      /\ checkpoint # None => checkpoint.number \in Nat
  BY <1>t, ChainAssumption DEF Block, Checkpoint
<1>o. OrderInv
  BY DEF IInv
<1>1. CASE Start
  <2>1. /\ last_block_num' = loop_block' /\ loop_block' \in Nat
        /\ checkpoint' = checkpoint /\ pc' = "sync" /\ curr_block_num' = ResumePoint.number
    BY <1>1, ChainAssumption DEF Start, Block
  <2>2. checkpoint # None => curr_block_num' = checkpoint.number
    BY <2>1, Zenon DEF ResumePoint
  <2> QED
    BY <1>n, <2>1, <2>2 DEF OrderInv
<1>2. CASE NextHeader
  <2>1. /\ pc = "sync" /\ pc' = "sync" /\ curr_block_num' = curr_block_num + 1
        /\ UNCHANGED <<last_block_num, loop_block, checkpoint>>
    BY <1>2, Zenon DEF NextHeader
  <2> QED
    BY <1>n, <1>o, <2>1 DEF OrderInv
<1>3. CASE ChangeHeader
  <2>1. pc = "sync" /\ pc' = "proof" /\ UNCHANGED <<curr_block_num, last_block_num, loop_block, checkpoint>>
    BY <1>3, Zenon DEF ChangeHeader
  <2> QED
    BY <1>n, <1>o, <2>1 DEF OrderInv
<1>4. CASE CheckProof
  <2>1. pc = "proof" /\ UNCHANGED <<last_block_num, loop_block>>
    BY <1>4, Zenon DEF CheckProof
  <2>2. CASE checkpoint' = checkpoint /\ pc' = "check_failed"
    BY <1>n, <1>o, <2>1, <2>2 DEF OrderInv
  <2>3. CASE /\ checkpoint' = SyncCheckpoint(curr_block_num)
             /\ curr_block_num' = curr_block_num + 1
             /\ pc' = "sync"
    <3>1. checkpoint' # None
      <4>1. checkpoint' \in Checkpoint \cup {None} /\ curr_block_num' \in 1..(MaxBlock + 1)
            /\ valset \in Valset /\ AuthChange \subseteq Block /\ curr_block_num \in AuthChange
        BY <2>1, TypeStep, ChainAssumption, Zenon DEF IInv, TypeOK, PhaseInv
      <4>2. NextValset(curr_block_num) \in Valset
        BY <1>4, <2>3, TypeStep DEF TypeOK, CheckProof
      <4> QED
        BY <2>3, <4>1, <4>2, SyncAssumption DEF SyncCheckpoint, Checkpoint
    <3>2. checkpoint'.number = curr_block_num + 1
      BY <2>3 DEF SyncCheckpoint
    <3> QED
      BY <1>n, <1>o, <2>1, <2>3, <3>1, <3>2 DEF OrderInv
  <2> QED
    BY <1>4, <2>2, <2>3, Zenon DEF CheckProof
<1>5. CASE Finish
  <2>1. /\ pc = "sync" /\ curr_block_num = last_block_num + 1 /\ pc' = "synced"
        /\ UNCHANGED <<curr_block_num, last_block_num, loop_block, checkpoint>>
    BY <1>5, Zenon DEF Finish, AtEnd
  <2> QED
    BY <1>n, <1>o, <2>1 DEF OrderInv
<1>6. CASE BlockMissing \/ CallFails
  <2>1. pc' = "rpc_failed" /\ UNCHANGED <<curr_block_num, last_block_num, loop_block, checkpoint>>
    BY <1>6, Zenon DEF BlockMissing, CallFails
  <2> QED
    BY <1>n, <1>o, <2>1 DEF OrderInv
<1>7. CASE NodeFinalizes
  <2>1. UNCHANGED <<pc, curr_block_num, last_block_num, loop_block, checkpoint>>
    BY <1>7, Zenon DEF NodeFinalizes
  <2> QED
    BY <1>n, <1>o, <2>1 DEF OrderInv
<1>8. CASE LoopCheckpoint
  <2>1. PICK n, m \in Block :
          /\ loop_block < n
          /\ loop_block' = n
          /\ checkpoint' = [number |-> n, valset |-> ValsetAt(m)]
    BY <1>8 DEF LoopCheckpoint
  <2>2. pc = "synced" /\ UNCHANGED <<pc, last_block_num>>
    BY <1>8, Zenon DEF LoopCheckpoint, IInv, PhaseInv
  <2>3. n \in Nat /\ n \in 1..(MaxBlock + 1)
    BY <1>n, <2>1, ChainAssumption DEF Block
  <2>4. checkpoint' # None /\ checkpoint'.number = n
    <3>1. m \in 0..(MaxBlock + 1)
      BY <2>1, ChainAssumption DEF Block
    <3>2. ValsetAt(m) \in Valset
      BY <3>1, ValsetAtType, Zenon
    <3>3. [number |-> n, valset |-> ValsetAt(m)] \in Checkpoint
      BY <2>3, <3>2, Zenon DEF Checkpoint
    <3> QED BY <2>1, <3>3, SyncAssumption, Zenon
  <2> QED
    BY <1>n, <1>o, <2>1, <2>2, <2>3, <2>4 DEF OrderInv
<1>9. CASE Restart
  <2>1. pc' = "start" /\ UNCHANGED <<last_block_num, loop_block, checkpoint>>
    BY <1>9, Zenon DEF Restart
  <2> QED
    BY <1>n, <1>o, <2>1 DEF OrderInv
<1>10. CASE UNCHANGED vars
  <2>1. UNCHANGED <<pc, curr_block_num, last_block_num, loop_block, checkpoint>>
    BY <1>10, Zenon DEF vars
  <2> QED
    BY <1>n, <1>o, <2>1 DEF OrderInv
<1> QED
  BY <1>1, <1>2, <1>3, <1>4, <1>5, <1>6, <1>7, <1>8, <1>9, <1>10 DEF Next, SyncStep
-----------------------------------------------------------------------------
\* The inductive invariant holds in every reachable state, over every number of
\* restarts.
THEOREM InductiveInvariant == Spec => []IInv
<1>1. IInv /\ [Next]_vars => IInv'
  BY TypeStep, PhaseStep, KnowledgeStep, OrderStep DEF IInv
<1> QED
  BY InitIInv, <1>1, PTL DEF Spec

\* The task, the shared State and the database stay in their types.
THEOREM TypeCorrect == Spec => []TypeOK
<1>1. IInv => TypeOK
  BY DEF IInv
<1> QED
  BY InductiveInvariant, <1>1, PTL

\* finality_synced is only set when a proof was checked for every set change from
\* genesis to the first header, across restarts that resume from a checkpoint.
THEOREM SyncIsComplete == Spec => []SyncedIsVerified
<1>1. IInv => SyncedIsVerified
  BY DEF IInv
<1> QED
  BY InductiveInvariant, <1>1, PTL

\* The finality check of sync fails only after the subscription loop stored a
\* checkpoint with the set of a later block.
THEOREM CheckSucceeds == Spec => []SyncAccepts
<1>1. IInv => SyncAccepts
  BY DEF IInv
<1> QED
  BY InductiveInvariant, <1>1, PTL

\* Sync and the subscription loop, which both write the checkpoint, never move it
\* back, in whatever order they do and wherever the process is restarted.
THEOREM CheckpointIsKept == Spec => CheckpointKept
<1>1. IInv /\ [Next]_vars =>
        [checkpoint # None => /\ checkpoint' # None
                              /\ checkpoint'.number >= checkpoint.number]_vars
  BY OrderStep
<1> QED
  BY InductiveInvariant, <1>1, PTL DEF Spec, CheckpointKept
=============================================================================
