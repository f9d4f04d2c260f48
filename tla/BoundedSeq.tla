----------------------------- MODULE BoundedSeq -----------------------------
(***************************************************************************)
(* What the array variables of a program promise (src/README.md, Array     *)
(* operations): sequences of at most Capacity elements that are changed at *)
(* their end, in place, or as a whole.                                     *)
(***************************************************************************)
EXTENDS Integers, Sequences

CONSTANTS Arr, Val, Capacity

VARIABLE seqs

Init == seqs = [a \in Arr |-> <<>>]

Push(a, v) ==
  /\ Len(seqs[a]) < Capacity
  /\ seqs' = [seqs EXCEPT ![a] = Append(@, v)]

Drop(a, n) ==
  /\ n \in 0..Len(seqs[a])
  /\ seqs' = [seqs EXCEPT ![a] = SubSeq(@, 1, Len(@) - n)]

Set(a, i, v) ==
  /\ i \in DOMAIN seqs[a]
  /\ seqs' = [seqs EXCEPT ![a][i] = v]

Assign(a, b) == seqs' = [seqs EXCEPT ![a] = seqs[b]]

Next ==
  \E a \in Arr :
    \/ \E v \in Val : Push(a, v)
    \/ \E n \in 0..Capacity : Drop(a, n)
    \/ \E i \in 1..Capacity, v \in Val : Set(a, i, v)
    \/ \E b \in Arr : Assign(a, b)

Spec == Init /\ [][Next]_seqs
=============================================================================
