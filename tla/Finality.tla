------------------------------ MODULE Finality ------------------------------
(***************************************************************************)
(* The GRANDPA justification check of src/finality.rs, as operators.       *)
(*                                                                         *)
(* A validator set is [set_id, validator_set].  A justification is         *)
(* [target_hash, precommits, votes_ancestries]: precommits is the sequence *)
(* of signed votes [id, target_hash, set_id], where set_id is the set id   *)
(* the vote was signed under, and votes_ancestries maps the hash of each   *)
(* enclosed header to its parent hash.  Signature verification is external *)
(* cryptography: a signature verifies under exactly the set id it was      *)
(* made for.                                                               *)
(***************************************************************************)
EXTENDS Integers, FiniteSets, Sequences

CONSTANT
    SetIdWindow,  \* how far the fallback looks around the set id (10 in the code)
    NoHash        \* what a failed look-up in the ancestry map yields

ASSUME SetIdWindowAssumption == SetIdWindow \in Nat

MutTwoThirdsSuffice(num_signatures, validator_set_size) ==
    num_signatures >= (validator_set_size * 2) \div 3

\* Integer division as in usize arithmetic.
is_signed_by_supermajority(num_signatures, validator_set_size) ==
    LET supermajority == ((validator_set_size * 2) \div 3) + 1
    IN  num_signatures >= supermajority

(***************************************************************************)
(* The walk from child_hash to its ancestors, one look-up per pass, with   *)
(* as many passes as the map has entries.  Both early returns of the loop  *)
(* are in the quantifier: the walk stays at NoHash once a look-up fails.   *)
(***************************************************************************)
MutOnePassShort(ancestry_map) == Cardinality(DOMAIN ancestry_map) - 1
AncestryPasses(ancestry_map) == Cardinality(DOMAIN ancestry_map)

confirm_ancestry(child_hash, root_hash, ancestry_map) ==
    LET passes == AncestryPasses(ancestry_map)
        curr_hash[k \in 0..passes] ==
            IF k = 0 THEN child_hash
            ELSE IF curr_hash[k-1] \in DOMAIN ancestry_map
                 THEN ancestry_map[curr_hash[k-1]]
                 ELSE NoHash
    IN  \/ child_hash = root_hash
        \/ \E k \in 1..passes : curr_hash[k] = root_hash

(***************************************************************************)
(* The set ids tried when the expected one does not verify.  The lower end *)
(* set_id - 10 is a u64 subtraction: below 10 it wraps in a release build, *)
(* so that the range is empty.                                             *)
(***************************************************************************)
AlternativeSetIds(set_id) ==
    IF set_id >= SetIdWindow
    THEN (set_id - SetIdWindow)..(set_id + SetIdWindow - 1)
    ELSE {}

VerifiesUnder(precommit, set_id) ==
    \/ precommit.set_id = set_id
    \/ precommit.set_id \in AlternativeSetIds(set_id)

\* One precommit that does not verify, or is not at or above the target,
\* rejects the whole justification; votes of non-members are not counted.
check_finality(validator_set, justification) ==
    LET precommits == justification.precommits
        matched == {i \in DOMAIN precommits :
                        precommits[i].id \in validator_set.validator_set}
    IN  /\ \A i \in DOMAIN precommits :
              /\ VerifiesUnder(precommits[i], validator_set.set_id)
              /\ confirm_ancestry(precommits[i].target_hash,
                                  justification.target_hash,
                                  justification.votes_ancestries)
        /\ is_signed_by_supermajority(Cardinality(matched),
                                      Cardinality(validator_set.validator_set))
=============================================================================
