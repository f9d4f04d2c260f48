----------------------------- MODULE MCContext -----------------------------
(***************************************************************************)
(* Five projections that collide in every way: k1 to k3 hash to the same   *)
(* number, k4 runs into the places they overflow to, and k5 wraps around   *)
(* the end of the arrays.  The first arrays have two places, so that the   *)
(* table grows at its first, second and third entry.                       *)
(***************************************************************************)
EXTENDS Context

MCKey == {"k1", "k2", "k3", "k4", "k5"}
MCHash == [k1 |-> 6, k2 |-> 6, k3 |-> 6, k4 |-> 7, k5 |-> 15]
=============================================================================
