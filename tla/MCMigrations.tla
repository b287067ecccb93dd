---------------------------- MODULE MCMigrations ----------------------------
(***************************************************************************)
(* Migrations for TLC: two new instances and one of an older image; the    *)
(* second and the last file cannot be run twice; the models have the       *)
(* tables of the first three.                                             *)
(***************************************************************************)
EXTENDS Migrations

CONSTANTS new1, new2, old

MCShipped == [i \in Instances |-> IF i = old THEN 2 ELSE 4]

MCReRunnable == {1, 3}

MCInModels == {1, 2, 3}

=============================================================================
