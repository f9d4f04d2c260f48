-------------------------------- MODULE Holds --------------------------------
(***************************************************************************)
(* handle_add_hold (src/verification.c): the holds of all handles lie in   *)
(* one array, each handle's in a row.  A handle whose row is not the last  *)
(* one is moved to the end of the array before it gets another hold; its   *)
(* old row stays behind as garbage.                                        *)
(* NeverMoves and StartsAtEnd are wrong versions of the definitions that   *)
(* follow them.                                                            *)
(***************************************************************************)
EXTENDS Integers, Sequences, Functions

CONSTANTS
  Handle,  \* the handles of ctx->handles
  Hold     \* what there is to hold: a par and just_const

VARIABLES
  holds,        \* ctx->holds
  holds_start,  \* of every handle: where its row starts,
  num_holds     \* and its length

hold_vars == <<holds, holds_start, num_holds>>

HoldsInit ==
  /\ holds = <<>>
  /\ holds_start = [o \in Handle |-> 0]
  /\ num_holds = [o \in Handle |-> 0]

Row(o) == [i \in 1..num_holds[o] |-> holds[holds_start[o] + i]]

\* The row has to be moved: it does not end where the array ends.
NeverMoves(o) == FALSE
Moves(o) == num_holds[o] # 0 /\ holds_start[o] + num_holds[o] # Len(holds)

StartsAtEnd(o) == Len(holds)
StartOf(o) == IF Moves(o) \/ num_holds[o] = 0 THEN Len(holds) ELSE holds_start[o]

handle_add_hold(o, h) ==
  \/ h \in Range(Row(o)) /\ UNCHANGED hold_vars
  \/ /\ h \notin Range(Row(o))
     /\ holds' = (IF Moves(o) THEN holds \o Row(o) ELSE holds) \o <<h>>
     /\ holds_start' = [holds_start EXCEPT ![o] = StartOf(o)]
     /\ num_holds' = [num_holds EXCEPT ![o] = @ + 1]

\* The head of type_check_first_pass.
DropHolds ==
  /\ holds' = <<>>
  /\ holds_start' = [o \in Handle |-> 0]
  /\ num_holds' = [o \in Handle |-> 0]

HoldsNext == DropHolds \/ \E o \in Handle, h \in Hold : handle_add_hold(o, h)

HoldsSpec == HoldsInit /\ [][HoldsNext]_hold_vars

-----------------------------------------------------------------------------
(* Properties.                                                             *)

\* Every row lies inside the array (verification.c:397 and 796 index it unchecked).
RowsInside ==
  /\ holds \in Seq(Hold)
  /\ holds_start \in [Handle -> Nat] /\ num_holds \in [Handle -> Nat]
  /\ \A o \in Handle : num_holds[o] # 0 => holds_start[o] + num_holds[o] <= Len(holds)

\* A handle's holds are those that were added to it, in that order, however the adds to
\* other handles come between (verification.c:401).
Lists == INSTANCE HoldLists WITH lists <- [o \in Handle |-> Row(o)]
ImplementsLists == Lists!Spec
=============================================================================
