------------------------------ MODULE MCArrays ------------------------------
(***************************************************************************)
(* Two arrays of two elements, a slice, and a count_t of two bits.         *)
(***************************************************************************)
EXTENDS Arrays

MCNumbers == -1..3    \* they fit count_t
=============================================================================
