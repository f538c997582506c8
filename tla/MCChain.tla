------------------------------- MODULE MCChain ------------------------------
(***************************************************************************)
(* Model values for Chain: a short chain in which authority sets without a *)
(* common member replace each other.                                       *)
(***************************************************************************)
EXTENDS Chain

CONSTANT
    FirstSetId    \* set id in force at block 0

MCSetId == [n \in 0..(MaxBlock + 1) |->
               FirstSetId + Cardinality({c \in AuthChange : c < n})]

\* Three authorities per set; <<i, k>> is the k-th authority of set i.
MCAuthorities == [i \in FirstSetId..(FirstSetId + MaxBlock + 1) |-> {i} \X (1..3)]

\* Every member of the set in force votes for the block itself.
MCJustification ==
    [n \in Block |->
        [target_hash |-> n,
         precommits |-> [k \in 1..3 |-> [id |-> <<MCSetId[n], k>>,
                                         target_hash |-> n,
                                         set_id |-> MCSetId[n]]],
         votes_ancestries |-> <<>>]]
=============================================================================
