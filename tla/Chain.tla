------------------------------- MODULE Chain --------------------------------
(***************************************************************************)
(* The finalized chain as the nodes that the light client is connected to  *)
(* serve it.  There is one, so a finalized header is its block number:     *)
(* equal hashes are equal numbers.  Headers with a GRANDPA authority set   *)
(* change are the numbers in AuthChange.                                   *)
(***************************************************************************)
EXTENDS Finality

CONSTANT
    None,                \* Rust's Option::None
    MaxBlock,            \* bound: the last block the nodes finalize
    AuthChange,          \* blocks whose header changes the authority set
    SetId,               \* set id in force at each block
    Authorities,         \* members of each set id
    Justification        \* the justification of each block

Block == 0..MaxBlock

\* The set that finalizes block n.
ValsetAt(n) == [set_id |-> SetId[n], validator_set |-> Authorities[SetId[n]]]

Valset == [set_id : Nat, validator_set : {Authorities[i] : i \in DOMAIN Authorities}]

ASSUME ChainAssumption == MaxBlock \in Nat /\ AuthChange \subseteq Block

(***************************************************************************)
(* Set ids follow the headers: a change announced by block n is in force   *)
(* from n+1 on, and without a change in between the set id stays.          *)
(***************************************************************************)
ASSUME SetIdAssumption ==
    /\ SetId \in [0..(MaxBlock + 1) -> Nat]
    /\ \A n \in 0..(MaxBlock + 1) : SetId[n] \in DOMAIN Authorities
    /\ \A n \in AuthChange : SetId[n + 1] = SetId[n] + 1
    /\ \A a, b \in 0..(MaxBlock + 1) :
          (a <= b /\ AuthChange \cap (a..(b - 1)) = {}) => SetId[a] = SetId[b]

\* A node hands out justifications made by the set in force at their block.
ASSUME JustificationAssumption ==
    \A n \in Block : check_finality(ValsetAt(n), Justification[n])

ASSUME NoneAssumption == None \notin Valset
=============================================================================
