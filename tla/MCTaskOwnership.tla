-------------------------- MODULE MCTaskOwnership --------------------------
(* Which session is which does not matter to the safety properties.          *)
EXTENDS TaskOwnership, TLC

Sessions == Permutations(Owner)
=============================================================================
