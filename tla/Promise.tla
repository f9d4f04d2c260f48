------------------------------ MODULE Promise ------------------------------
(***************************************************************************)
(* What Start .. Finally .. End and Defer promise (src/README.md, Frontend *)
(* Control Flow; BLOCK_DEFER): the cleanup of a region runs exactly once   *)
(* for each time the region is entered, innermost region first, and before *)
(* the form is left, however it is left.                                   *)
(***************************************************************************)
EXTENDS Naturals, Sequences

CONSTANT Region

VARIABLES
  open,       \* the regions entered and not cleaned up, innermost last
  cleanups,   \* cleanups[r] = cleanups of r started so far
  left        \* whether the form has been left

vars == <<open, cleanups, left>>

Init == open = <<>> /\ cleanups = [r \in Region |-> 0] /\ left = FALSE

Enter(r) == ~left /\ open' = Append(open, r) /\ UNCHANGED <<cleanups, left>>

Clean(r) ==
  /\ ~left
  /\ open # <<>> /\ open[Len(open)] = r
  /\ open' = SubSeq(open, 1, Len(open) - 1)
  /\ cleanups' = [cleanups EXCEPT ![r] = @ + 1]
  /\ UNCHANGED left

Leave == open = <<>> /\ left' = TRUE /\ UNCHANGED <<open, cleanups>>

Next == Leave \/ \E r \in Region : Enter(r) \/ Clean(r)

Spec == Init /\ [][Next]_vars
=============================================================================
