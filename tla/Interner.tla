------------------------------ MODULE Interner ------------------------------
(***************************************************************************)
(* comp_context_intern_par and comp_context_reset (src/verification.c) on  *)
(* top of the table: a projection gets the next handle the first time it   *)
(* is interned and is known by the index of that handle from then on.      *)
(* Interning one that has an index changes nothing.                        *)
(* ResetHandles is a wrong version of ResetBoth.                           *)
(***************************************************************************)
EXTENDS ParTable, Sequences

CONSTANT MaxIndex   \* the largest par_idx

ASSUME ValAssumption == MaxIndex \in Nat /\ Val = 0..MaxIndex

VARIABLE handles   \* ctx->handles, of each only its par

ivars == <<vars, handles>>

InternInit == Init /\ handles = <<>>

\* The assertion on the number of handles is the guard Len(handles) \in Val.
Intern(k) ==
  /\ Idle /\ Get(k) = None
  /\ Len(handles) \in Val
  /\ handles' = Append(handles, k)
  /\ Put(k, Len(handles))

\* The call goes on inside par_idx_table_put.
Growing == (Move \/ FinishGrowing) /\ UNCHANGED handles

ResetHandles == Idle /\ handles' = <<>> /\ UNCHANGED vars
ResetBoth == Reset /\ handles' = <<>>

comp_context_reset == ResetBoth

InternNext == (\E k \in Key : Intern(k)) \/ Growing \/ comp_context_reset

InternSpec == InternInit /\ [][InternNext]_ivars

-----------------------------------------------------------------------------
(* Properties.                                                             *)

\* What the table will hold when the call that is growing it returns.
Known == IF Idle THEN Stored ELSE [Stored EXCEPT ![pending.key] = pending.val]

\* Every handle is known by its own index and nothing else is known
\* (verification.c:98): two projections never share an index, and one never has two.
IndexedOnce ==
  /\ \A i \in DOMAIN handles : handles[i] \in Key /\ Known[handles[i]] = i - 1
  /\ \A k \in Key :
       Known[k] # None => Known[k] + 1 \in DOMAIN handles /\ handles[Known[k] + 1] = k
=============================================================================
