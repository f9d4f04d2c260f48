------------------------------ MODULE Context -------------------------------
(***************************************************************************)
(* The CompileContext of src/verification.c as the two checkers use it:    *)
(* projections are interned, and handles that exist get holds on handles   *)
(* that exist.  Module Interner has handles, of each its par, and          *)
(* module Holds the rest of a handle; an index that is no handle's has no  *)
(* holds.  Of a hold only its par is kept.  Handle and Hold are the        *)
(* indices whose holds, and as holds, are followed.                        *)
(***************************************************************************)
EXTENDS Interner, Holds

CONSTANT MaxHolds   \* bound on the length of ctx->holds

ASSUME IndicesAssumption == Handle \subseteq Val /\ Hold \subseteq Val

context_vars == <<ivars, hold_vars>>

ContextInit == InternInit /\ HoldsInit

InternPar == ((\E k \in Key : Intern(k)) \/ Growing) /\ UNCHANGED hold_vars

Exists(i) == i + 1 \in DOMAIN handles

AddHold(o, h) ==
  /\ Idle /\ Exists(o) /\ Exists(h)
  /\ handle_add_hold(o, h)
  /\ Len(holds') <= MaxHolds
  /\ UNCHANGED ivars

\* The head of type_check_first_pass.
StartFirstPass == Idle /\ DropHolds /\ UNCHANGED ivars

ResetContext == comp_context_reset /\ DropHolds

ContextNext ==
  \/ InternPar
  \/ \E o \in Handle, h \in Hold : AddHold(o, h)
  \/ StartFirstPass
  \/ ResetContext

\* Every call returns: nothing stops comp_context_intern_par while the table grows.
ContextSpec ==
  /\ ContextInit /\ [][ContextNext]_context_vars
  /\ WF_context_vars(Growing /\ UNCHANGED hold_vars)
=============================================================================
