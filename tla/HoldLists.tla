------------------------------ MODULE HoldLists ------------------------------
(***************************************************************************)
(* What the holds of the handles (src/verification.c) promise: every       *)
(* handle has a list of its own, which another handle's never changes.     *)
(***************************************************************************)
EXTENDS Sequences, Functions

CONSTANTS Handle, Hold

VARIABLE lists

Init == lists = [o \in Handle |-> <<>>]

Add(o, h) ==
  lists' = [lists EXCEPT ![o] = IF h \in Range(@) THEN @ ELSE Append(@, h)]

Reset == lists' = [o \in Handle |-> <<>>]

Next == Reset \/ \E o \in Handle, h \in Hold : Add(o, h)

Spec == Init /\ [][Next]_lists
=============================================================================
