----------------------------- MODULE Execution -----------------------------
(***************************************************************************)
(* A form compiled by the pipeline and executed by the machine, with the   *)
(* events it passes, so that what it does can be compared with what its    *)
(* source promises: its meaning (module Language) and the cleanup of the   *)
(* regions it enters (module Promise).                                     *)
(*                                                                         *)
(* Functions are named here by the form they were compiled from.  An event *)
(* is a literal with a name of its own: pushing it is seen.                *)
(***************************************************************************)
EXTENDS VM, Language

CONSTANTS
  Event,       \* the literals that are events
  Region,      \* the protected regions; entering one is the event of its name
  CleanupOf    \* CleanupOf[r] is the first event of the cleanup of region r

VARIABLES
  form,        \* the form vm_run was called on
  trace        \* the events of the run so far

execution_vars == <<vars, form, trace>>

\* An event happens when its literal is pushed.
Happening == At("PUSH_GLOBAL") /\ I.note \in Event

RunForm(f) == VmRun(f) /\ form' = f /\ trace' = <<>>

Step ==
  /\ Machine
  /\ trace' = IF Happening THEN Append(trace, I.note) ELSE trace
  /\ Len(trace') <= MaxTrace
  /\ UNCHANGED form

ExecutionInit == Init /\ form = NoFunc /\ trace = <<>>
ExecutionNext == Step \/ \E f \in Entry : RunForm(f)

ExecutionSpec == ExecutionInit /\ [][ExecutionNext]_execution_vars

Finished == runs > 0 /\ mode = "idle"

-----------------------------------------------------------------------------
(* Properties.                                                             *)

\* A form does what its source says: its events, and whether it ends or crashes,
\* are a run of its meaning (README, Frontend Control Flow and Blocks).
KeepsItsMeaning ==
  Finished => Outcome(IF result = "OK" THEN "end" ELSE "crash", trace) \in Meaning(form)

\* A run in which anything crashed reports it: cleanups re-raise the crash they
\* were entered for, and vm_run does not return VM_OK (README, BLOCK_CRASH_PAD).
CrashesAreReported == Finished /\ ans # "OK" => result = ans

\* The regions entered and not cleaned up, as the events show them.
OpenRegions ==
  LET after[i \in 0..Len(trace)] ==
        IF i = 0 THEN <<>>
        ELSE LET open == after[i - 1]
                 e == trace[i]
             IN IF e \in Region THEN Append(open, e)
                ELSE IF open # <<>> /\ CleanupOf[Last(open)] = e THEN Front(open)
                ELSE open
  IN after[Len(trace)]

Cleanups == [r \in Region |-> Len(SelectSeq(trace, LAMBDA e : e = CleanupOf[r]))]

Entries == [r \in Region |-> Len(SelectSeq(trace, LAMBDA e : e = r))]

\* However a form is left, each region was cleaned up as often as it was entered
\* (README, Frontend Control Flow and BLOCK_DEFER).
CleanedOnceEach == Finished => Cleanups = Entries

\* The machine implements the cleanup promise, of which the one above is a part.
P == INSTANCE Promise WITH open <- OpenRegions, cleanups <- Cleanups, left <- Finished
PromiseKept == P!Spec
=============================================================================
