------------------------------- MODULE MCCache -------------------------------
(***************************************************************************)
(* Cache for TLC: one household with one list, item and category.          *)
(***************************************************************************)
EXTENDS Cache, TLC

CONSTANTS h1, l1, i1, c1, w1, w2

MCHouseOf == (l1 :> h1) @@ (c1 :> h1)
MCListOf == i1 :> l1
Symmetry == Permutations(Writers)
=============================================================================
