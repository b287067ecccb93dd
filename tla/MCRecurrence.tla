---------------------------- MODULE MCRecurrence ----------------------------
(***************************************************************************)
(* Recurrence for TLC, around the ends of a short month, of a leap         *)
(* February and of a year.                                                 *)
(***************************************************************************)
EXTENDS Recurrence

MCStarts == {[y |-> 2023, m |-> 1, d |-> 31], [y |-> 2024, m |-> 2, d |-> 29],
             [y |-> 2023, m |-> 12, d |-> 31]}

=============================================================================
