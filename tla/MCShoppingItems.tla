-------------------------- MODULE MCShoppingItems ---------------------------
(***************************************************************************)
(* ShoppingItems for TLC. Handlers, item ids and history ids are           *)
(* interchangeable.                                                        *)
(*                                                                         *)
(* A behaviour of MCSpec, one of Spec, is of one of two kinds: one item    *)
(* and the categories, or two items and no category at all.                *)
(***************************************************************************)
EXTENDS ShoppingItems, TLC

VARIABLE kind

Uncategorised(r) == r = NONE \/ r.cat = NONE

MCInit == Init /\ kind \in {"categories", "items"}

MCNext ==
    /\ Next
    /\ UNCHANGED kind
    /\ kind = "categories" => Cardinality(used') <= 1
    /\ kind = "items" =>
          /\ UNCHANGED cats
          /\ \A p \in Procs : /\ Uncategorised(new'[p])
                              /\ \A i \in Items : Uncategorised(copy'[p][i])

MCSpec == MCInit /\ [][MCNext]_<<vars, kind>>

Symmetry == Permutations(Procs) \cup Permutations(Items) \cup Permutations(HistIds)

=============================================================================
