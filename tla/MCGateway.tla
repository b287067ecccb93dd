----------------------------- MODULE MCGateway ------------------------------
(***************************************************************************)
(* Gateway for TLC: two requests that carry the same key and one to an     *)
(* endpoint of /auth, on one instance.                                     *)
(***************************************************************************)
EXTENDS Gateway

CONSTANTS r1, r2, a1, i1, k1

MCInstanceOf == [r \in Slots |-> i1]
MCKeyOf == [r \in Slots |-> IF r \in AuthSlots THEN NONE ELSE k1]

=============================================================================
