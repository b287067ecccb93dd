------------------------------ MODULE MCTenancy ------------------------------
(***************************************************************************)
(* Tenancy for TLC: one household, its owner and another user, two         *)
(* categories and two handlers.                                            *)
(***************************************************************************)
EXTENDS Tenancy, TLC

Symmetry == Permutations(Procs) \cup Permutations(Users) \cup Permutations(Cats)
=============================================================================
