----------------------------- MODULE PartialMap -----------------------------
(***************************************************************************)
(* What ParIdxTable (src/verification.c) promises: a map from the keys     *)
(* that were put since the last reset to the value each was last put with. *)
(***************************************************************************)
CONSTANTS Key, Val, None

VARIABLE map

Init == map = [k \in Key |-> None]

Put(k, v) == map' = [map EXCEPT ![k] = v]
Reset == map' = [k \in Key |-> None]

Next == Reset \/ \E k \in Key, v \in Val : Put(k, v)

Spec == Init /\ [][Next]_map
=============================================================================
