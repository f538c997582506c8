------------------------ MODULE MCJustificationCheck ------------------------
(***************************************************************************)
(* A tree with a fork: 1 <- 2 <- 3 and 1 <- 4.                             *)
(***************************************************************************)
EXTENDS JustificationCheck, TLC

MCParent == (2 :> 1) @@ (3 :> 2) @@ (4 :> 1)

Signers == Permutations(Member)
=============================================================================
