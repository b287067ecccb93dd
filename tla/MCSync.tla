------------------------------- MODULE MCSync -------------------------------
(***************************************************************************)
(* Sync for TLC: a list that is written once and an item that is written   *)
(* twice, by two interchangeable handlers.                                 *)
(***************************************************************************)
EXTENDS Sync, TLC

CONSTANTS l1, x1, p1, p2, c1

MCListOf == [i \in Items |-> l1]

MCMaxVer == [e \in Rows |-> IF e \in Lists THEN 1 ELSE 2]

Symmetry == Permutations(Procs)

=============================================================================
