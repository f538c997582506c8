------------------------- MODULE JustificationCheck -------------------------
(***************************************************************************)
(* check_finality of src/finality.rs against what it is meant to decide,   *)
(* over every justification a node can put together from a small block     *)
(* tree: precommits of members and of others, for blocks of any branch,    *)
(* signed under the expected set id or another one, with any part of the   *)
(* headers between the votes and the target enclosed.                      *)
(***************************************************************************)
EXTENDS Finality

CONSTANT
    Member,         \* the validators of the set the check is given
    Outsider,       \* other signers
    ExpectedSetId,  \* set ids the check is given
    VoteSetId,      \* set ids a vote may be signed under
    Hash,           \* hashes of the block tree
    Parent,         \* parent hash of each block but the root
    MaxPrecommits   \* bound: votes in the justification

ASSUME TreeAssumption ==
    /\ DOMAIN Parent \subseteq Hash
    /\ \A h \in DOMAIN Parent : Parent[h] \in Hash
    /\ NoHash \notin Hash
    /\ MaxPrecommits \in Nat
    /\ IsFiniteSet(Member)
    /\ ExpectedSetId \cup VoteSetId \subseteq Nat

VARIABLE
    target_hash, precommits, votes_ancestries

checkVars == <<target_hash, precommits, votes_ancestries>>

Vote == [id : Member \cup Outsider, target_hash : Hash,
         set_id : VoteSetId]

CheckInit ==
    /\ target_hash \in Hash
    /\ precommits = <<>>
    /\ votes_ancestries = <<>>

\* The commit gets another signed precommit.
AddPrecommit ==
    /\ Len(precommits) < MaxPrecommits
    /\ \E v \in Vote : precommits' = Append(precommits, v)
    /\ UNCHANGED <<target_hash, votes_ancestries>>

\* The justification encloses another header; its map gets one more entry.
AddAncestry ==
    /\ \E h \in DOMAIN Parent \ DOMAIN votes_ancestries :
          votes_ancestries' = [k \in DOMAIN votes_ancestries \cup {h} |-> Parent[k]]
    /\ UNCHANGED <<target_hash, precommits>>

CheckNext == AddPrecommit \/ AddAncestry

CheckSpec == CheckInit /\ [][CheckNext]_checkVars
-----------------------------------------------------------------------------
\* h descends from root by enclosed headers: root is in every set that holds
\* h and is closed under the parents the map knows.
Descends(h, root) ==
    \A S \in SUBSET Hash :
        (h \in S /\ \A x \in S \cap DOMAIN votes_ancestries : votes_ancestries[x] \in S)
            => root \in S

\* confirm_ancestry finds an ancestor exactly when the enclosed headers lead
\* to it: the bound of as many passes as the map has entries is enough.
AncestryIsReachability ==
    \A h, root \in Hash :
        confirm_ancestry(h, root, votes_ancestries) <=> Descends(h, root)

\* A set id other than the expected one is tolerated when it is at most ten below
\* or nine above, and for the first ten sets of a chain it is not.
Tolerated(set_id, expected) ==
    \/ set_id = expected
    \/ /\ expected >= SetIdWindow
       /\ set_id + SetIdWindow >= expected
       /\ set_id < expected + SetIdWindow

\* With one vote per signer, check_finality accepts exactly when every vote is
\* signed under a tolerated set id for a block at or above the target, and
\* strictly more than two thirds of the members voted.
AcceptsExactlySupermajority ==
    LET justification == [target_hash |-> target_hash, precommits |-> precommits,
                          votes_ancestries |-> votes_ancestries]
        voters == {precommits[i].id : i \in DOMAIN precommits}
    IN  Cardinality(voters) = Len(precommits) =>
          \A expected \in ExpectedSetId :
            check_finality([set_id |-> expected, validator_set |-> Member], justification)
            <=> /\ \A i \in DOMAIN precommits :
                      /\ Tolerated(precommits[i].set_id, expected)
                      /\ Descends(precommits[i].target_hash, target_hash)
                /\ 3 * Cardinality(voters \cap Member) > 2 * Cardinality(Member)
-----------------------------------------------------------------------------
\* The enclosed headers are some of the tree's, finitely many.
JustificationInv ==
    /\ target_hash \in Hash
    /\ precommits \in Seq(Vote)
    /\ DOMAIN votes_ancestries \subseteq DOMAIN Parent
    /\ IsFiniteSet(DOMAIN votes_ancestries)
    /\ \A h \in DOMAIN votes_ancestries : votes_ancestries[h] = Parent[h]
=============================================================================
