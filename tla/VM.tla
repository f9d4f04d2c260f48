--------------------------------- MODULE VM ---------------------------------
(***************************************************************************)
(* The bytecode machine of src/vm.c: vm_run and the helpers it calls.      *)
(*                                                                         *)
(* A VM owns three stacks.  `storage' is a byte array in which the locals  *)
(* of a function and the ReturnFrames of its callers are interleaved;      *)
(* `param_stack' holds pointers, into storage or to memory the VM does not *)
(* own; `crash_stack' holds the installed crash pads.                      *)
(*                                                                         *)
(* The values of the program are abstracted: a branch may go either way,   *)
(* and an operation that checks its operands may pass or fail its check.   *)
(* Storage is kept as its length together with the ReturnFrames that are   *)
(* in it and where they are, and a pointer as the storage cell it points   *)
(* at, or Foreign.  A position in the code is an index into a sequence of  *)
(* instructions instead of a byte offset.                                  *)
(*                                                                         *)
(* What a slice refers to is data, too: a pointer that is read out of one  *)
(* may be any that a program could have put there.  SlicesLive says of     *)
(* programs that they index a slice only while what it refers to exists,   *)
(* which borrow_check (module Verification) is for and vm_run does not     *)
(* look at.  What a write through a dead pointer would do to the           *)
(* ReturnFrames in storage is not modelled.                                *)
(*                                                                         *)
(* Three fields of a ReturnFrame (fn, low, crash) and two of a CrashFrame  *)
(* (owner, saved) are auxiliary: no guard and no other variable depends on *)
(* them.  They record where the call or the pad was entered, so that the   *)
(* properties can speak about it.  A return that would pop bytes which are *)
(* no ReturnFrame has no step here: VMSafety!Defined says there is none.   *)
(*                                                                         *)
(* Some definitions are preceded by a wrong version of themselves, which   *)
(* nothing uses: the bugs that the properties are known to find.           *)
(***************************************************************************)
EXTENDS Integers, SequencesExt

CONSTANTS
  Func,            \* the functions that have bytecode
  NoFunc,          \* a null code pointer
  Code,            \* Code[f] is the sequence of instructions of f
  Entry,           \* the functions vm_run is called on
  RetSize,         \* cells a ReturnFrame takes up in storage
  AllocMayFail,    \* whether any realloc may return NULL
  MaxStorage,      \* cells of storage beyond which realloc does return NULL
  SlicesLive,      \* whether a slice is only indexed while its target exists
  NativeResults,   \* what a call of a native function may end in
  MaxRuns          \* bound on the number of calls of vm_run

ASSUME NoFuncAssumption == NoFunc \notin Func
ASSUME RetSizeAssumption == RetSize \in Nat \ {0}
ASSUME AllocAssumption == AllocMayFail \in BOOLEAN
ASSUME StorageAssumption == MaxStorage \in Nat
ASSUME SlicesAssumption == SlicesLive \in BOOLEAN
ASSUME EntryAssumption == Entry \subseteq Func
ASSUME MaxRunsAssumption == MaxRuns \in Nat

VARIABLES
  mode,         \* "idle": no vm_run active; "run"; "crash": at label crash
  base,         \* local base of vm_run, named by its function
  pc,           \* local pc of vm_run
  param_base,   \* local param_base of vm_run
  ans,          \* local ans of vm_run: the first error seen
  result,       \* what the last vm_run returned
  runs,         \* calls of vm_run so far
  storage_len,  \* vm->storage.len
  frames,       \* the ReturnFrames lying in vm->storage, lowest first
  params,       \* vm->param_stack
  crash_stack   \* vm->crash_stack

cursor == <<base, pc, param_base>>
control == <<mode, ans, result, runs>>
storage == <<storage_len, frames>>
stacks == <<storage_len, frames, params, crash_stack>>
vars == <<mode, base, pc, param_base, ans, result, runs,
          storage_len, frames, params, crash_stack>>

Foreign == -1        \* a pointer to memory that is not VM storage

I == Code[base][pc]  \* the instruction about to be executed

At(op) == mode = "run" /\ I.op = op

-----------------------------------------------------------------------------
(* Ways an instruction ends.                                               *)

\* break out of the switch and fetch the next instruction
Go(target) == pc' = target /\ UNCHANGED <<base, param_base, control>>

Next1 == Go(pc + 1)

\* `return r': the stacks stay as they are
Return(r) == mode' = "idle" /\ result' = r /\ UNCHANGED <<cursor, ans, runs>>

LatestError(r) == r

\* `if(ans == VM_OK) ans = r'
Sticky(r) == IF ans = "OK" THEN r ELSE ans

\* `goto crash'
Fault(r) ==
  /\ mode' = "crash"
  /\ ans' = Sticky(r)
  /\ UNCHANGED <<cursor, result, runs>>

-----------------------------------------------------------------------------
(* Storage.                                                                *)

\* The ReturnFrames still intact once storage is cut to len cells.
Surviving(len) ==
  SubSeq(frames, 1,
    CHOOSE n \in 0..Len(frames) :
      /\ \A i \in 1..n : frames[i].at <= len
      /\ n < Len(frames) => frames[n + 1].at > len)

\* storage_resize by n cells when that is a growth: it may, or must, fail.
CanGrow(n) == storage_len + n <= MaxStorage
MayFail(n) == AllocMayFail \/ ~CanGrow(n)

\* storage_push_return, with the auxiliary record of who is entered
PushReturn(frame, fn, argc) ==
  /\ storage_len' = storage_len + RetSize
  /\ frames' = Append(frames,
       [at |-> storage_len + RetSize, pc |-> frame.pc, base |-> frame.base,
        param_base |-> frame.param_base, fn |-> fn,
        low |-> Len(params) - argc, crash |-> Len(crash_stack)])

\* The topmost RetSize cells are a ReturnFrame.
FrameOnTop == frames # <<>> /\ Last(frames).at = storage_len

\* push_param
PushParam(p) == params' = Append(params, p)

\* vm->crash_stack.len--
PopAll == crash_stack' = <<>>
PopNone == UNCHANGED crash_stack
PopFrame == crash_stack' = Front(crash_stack)

\* vm->param_stack.len -= n
DropParams(n) == params' = SubSeq(params, 1, Len(params) - n)

-----------------------------------------------------------------------------
(* vm_run: entry, and one action per instruction.                          *)

NullFrame == [pc |-> 0, base |-> NoFunc, param_base |-> 0]

VmRun(f) ==
  /\ mode = "idle" /\ runs < MaxRuns
  /\ runs' = runs + 1
  /\ UNCHANGED <<params, crash_stack>>
  /\ \/ /\ MayFail(RetSize)
        /\ result' = "OOM_STORAGE"
        /\ UNCHANGED <<mode, ans, cursor, storage>>
     \/ /\ CanGrow(RetSize)
        /\ PushReturn(NullFrame, f, 0)
        /\ mode' = "run" /\ base' = f /\ pc' = 1 /\ param_base' = 0
        /\ ans' = "OK"
        /\ UNCHANGED result

Ret ==
  /\ At("RET")
  /\ UNCHANGED <<params, crash_stack>>
  /\ \/ /\ storage_len < RetSize
        /\ Return("STORAGE_UNDERFLOW")
        /\ UNCHANGED storage
     \/ /\ FrameOnTop
        /\ storage_len' = storage_len - RetSize
        /\ frames' = Front(frames)
        /\ \/ /\ Last(frames).pc = 0
              /\ Return("OK")
           \/ /\ Last(frames).pc # 0
              /\ pc' = Last(frames).pc
              /\ base' = Last(frames).base
              /\ param_base' = Last(frames).param_base
              /\ UNCHANGED control

\* storage_resize: a shrink below zero fails, a growth may be out of memory
StorageAdd ==
  /\ At("STORAGE_ADD")
  /\ UNCHANGED <<params, crash_stack>>
  /\ \/ /\ storage_len + I.n < 0
        /\ Fault("STORAGE_UNDERFLOW")
        /\ UNCHANGED storage
     \/ /\ I.n >= 0 /\ MayFail(I.n)
        /\ Fault("OOM_STORAGE")
        /\ UNCHANGED storage
     \/ /\ storage_len + I.n >= 0 /\ (I.n < 0 \/ CanGrow(I.n))
        /\ storage_len' = storage_len + I.n
        /\ frames' = Surviving(storage_len + I.n)
        /\ Next1

\* An offset is relative to the top of storage and must stay inside it.
BadOffset(off) == off > 0 \/ storage_len + off < 0

\* The three pushes share push_param and its failure.
Push(p) ==
  /\ UNCHANGED <<storage, crash_stack>>
  /\ \/ AllocMayFail /\ Fault("OOM_PARAM") /\ UNCHANGED params
     \/ PushParam(p) /\ Next1

PushVar ==
  /\ At("PUSH_VAR")
  /\ \/ BadOffset(I.off) /\ Return("INVALID_STORAGE_OFFSET") /\ UNCHANGED stacks
     \/ ~BadOffset(I.off) /\ Push(storage_len + I.off)

PushArg ==
  /\ At("PUSH_ARG")
  /\ \/ /\ param_base + I.idx >= Len(params)
        /\ Return("INVALID_ARG") /\ UNCHANGED stacks
     \/ /\ param_base + I.idx < Len(params)
        /\ Push(params[param_base + I.idx + 1])

PushGlobal ==
  /\ At("PUSH_GLOBAL")
  /\ \/ I.null /\ Return("NULL_GLOBAL") /\ UNCHANGED stacks
     \/ ~I.null /\ Push(Foreign)

\* An instruction that needs more parameters than there are
Underflow(n) ==
  Len(params) < n /\ Return("PARAM_UNDERFLOW") /\ UNCHANGED stacks

DropNButOne ==
  /\ At("DROP_N")
  /\ \/ Underflow(I.n)
     \/ /\ Len(params) >= I.n
        /\ DropParams(I.n - 1) /\ Next1
        /\ UNCHANGED <<storage, crash_stack>>

DropN ==
  /\ At("DROP_N")
  /\ \/ Underflow(I.n)
     \/ /\ Len(params) >= I.n
        /\ DropParams(I.n) /\ Next1
        /\ UNCHANGED <<storage, crash_stack>>

Pop1AndDestination ==
  /\ At("POP1")
  /\ \/ Underflow(2)
     \/ /\ Len(params) >= 2
        /\ DropParams(2)
        /\ UNCHANGED <<storage, crash_stack>>
        /\ \/ \E r \in I.faults : Fault(r)
           \/ Next1

\* B_COPY, B_ADD .. B_XOR, B_ARR_PUSH, B_ARR_DROP, B_SLICE_FROM_ARR,
\* B_SLICE_FROM_ONE, B_SLICE_INC and B_SLICE_DEC: the top parameter is popped,
\* the one below is the destination and stays.  I.faults are the crashes the
\* operands may cause, after the pop.
Pop1 ==
  /\ At("POP1")
  /\ \/ Underflow(2)
     \/ /\ Len(params) >= 2
        /\ DropParams(1)
        /\ UNCHANGED <<storage, crash_stack>>
        /\ \/ \E r \in I.faults : Fault(r)
           \/ Next1

\* What the data pointer of a slice may be: B_SLICE_FROM_ARR and B_SLICE_FROM_ONE
\* store whatever pointer was on top of the stack then, into storage or not.  The
\* variable it points into may be gone, and anything else may lie there now,
\* unless programs see to it that it is not.
SliceTargets ==
  {Foreign} \union
  {p \in 0..(MaxStorage - 1) :
     SlicesLive =>
       /\ p < storage_len
       /\ \A n \in 1..Len(frames) : ~(frames[n].at - RetSize <= p /\ p < frames[n].at)}

\* B_PUSH_ARR_AT and B_PUSH_SLICE_AT: an index is popped, and the container
\* below it is replaced by a pointer to its element: inside the array itself,
\* or wherever the slice refers to.
Index ==
  /\ At("INDEX")
  /\ \/ Underflow(2)
     \/ /\ Len(params) >= 2
        /\ UNCHANGED <<storage, crash_stack>>
        /\ \/ Fault("ARRAY_BOUNDS") /\ DropParams(1)
           \/ /\ \E p \in IF I.slice THEN SliceTargets ELSE {params[Len(params) - 1]} :
                   params' = Append(SubSeq(params, 1, Len(params) - 2), p)
              /\ Next1

\* B_BIT_NOT and B_PUSH_STRUCT_AT: the top parameter is changed in place, or
\* replaced by a pointer into the same variable.
Top1 ==
  /\ At("TOP1")
  /\ \/ Underflow(1)
     \/ Len(params) >= 1 /\ Next1 /\ UNCHANGED stacks

Jump == At("JUMP") /\ Go(I.target) /\ UNCHANGED stacks

\* B_BRANCH reads its condition from storage; the compiler never emits it.
Branch ==
  /\ At("BRANCH")
  /\ \/ BadOffset(I.off) /\ Return("INVALID_STORAGE_OFFSET")
     \/ ~BadOffset(I.off) /\ (Go(I.yes) \/ Go(I.no))
  /\ UNCHANGED stacks

BranchTop ==
  /\ At("BRANCH_TOP")
  /\ \/ Underflow(1)
     \/ /\ Len(params) >= 1
        /\ DropParams(1)
        /\ Go(I.yes) \/ Go(I.no)
        /\ UNCHANGED <<storage, crash_stack>>

\* push_crash
PushCrash ==
  /\ At("PUSH_CRASH")
  /\ UNCHANGED <<storage, params>>
  /\ \/ AllocMayFail /\ Fault("OOM_CRASH") /\ UNCHANGED crash_stack
     \/ /\ crash_stack' = Append(crash_stack,
             [pc |-> I.target, base |-> base, storage_len |-> storage_len,
              param_len |-> Len(params), param_base |-> param_base,
              owner |-> Len(frames), saved |-> params])
        /\ Next1

PopNoCrash == At("POP_CRASH") /\ Next1 /\ UNCHANGED stacks

PopCrash ==
  /\ At("POP_CRASH")
  /\ UNCHANGED <<storage, params>>
  /\ \/ crash_stack = <<>> /\ Return("CRASH_UNDERFLOW") /\ UNCHANGED crash_stack
     \/ crash_stack # <<>> /\ PopFrame /\ Next1

Crash == At("CRASH") /\ Fault("CRASH") /\ UNCHANGED stacks

HardCrash == At("HARD_CRASH") /\ Return("HARD_CRASH") /\ UNCHANGED stacks

\* B_DONE; the compiler never emits it.
Done == At("DONE") /\ Return("OK") /\ UNCHANGED stacks

\* Where the arguments of a called function start
AfterArguments(argc) == Len(params)
BelowArguments(argc) == Len(params) - argc - 1
Arguments(argc) == Len(params) - argc

Call ==
  /\ At("CALL")
  /\ \/ I.callee = NoFunc /\ Return("NULL_CALL_TARGET") /\ UNCHANGED stacks
     \/ I.callee # NoFunc /\ Underflow(I.argc)
     \/ /\ I.callee # NoFunc /\ Len(params) >= I.argc
        /\ UNCHANGED <<params, crash_stack>>
        /\ \/ MayFail(RetSize) /\ Fault("OOM_STORAGE") /\ UNCHANGED storage
           \/ /\ CanGrow(RetSize)
              /\ PushReturn([pc |-> pc + 1, base |-> base,
                             param_base |-> param_base], I.callee, I.argc)
              /\ base' = I.callee /\ pc' = 1
              /\ param_base' = Arguments(I.argc)
              /\ UNCHANGED control

\* The function pointer is popped first; the declared inputs only after a
\* normal return.  A native function is assumed to leave the stacks alone.
CallNative ==
  /\ At("CALL_NATIVE")
  /\ \/ Underflow(1)
     \/ /\ Len(params) >= 1
        /\ UNCHANGED <<storage, crash_stack>>
        /\ \/ /\ Len(params) - 1 < I.argc
              /\ Return("PARAM_UNDERFLOW") /\ DropParams(1)
           \/ /\ Len(params) - 1 >= I.argc
              /\ \/ /\ "OK" \in NativeResults
                    /\ DropParams(I.argc + 1) /\ Next1
                 \/ \E r \in NativeResults \cap {"NULL_NATIVE_FUNC", "HARD_CRASH"} :
                      Return(r) /\ DropParams(1)
                 \/ \E r \in NativeResults \ {"OK", "NULL_NATIVE_FUNC", "HARD_CRASH"} :
                      Fault(r) /\ DropParams(1)

-----------------------------------------------------------------------------
(* The loop at label crash, one iteration of vm_set_crash_frame at a time. *)

FewerParams(c) == c.param_len > Len(params)
BadFrame(c) == c.storage_len > storage_len \/ c.param_len > Len(params)

\* The stacks and the registers vm_set_crash_frame takes from frame c
RestoreStorage(c) ==
  /\ storage_len' = c.storage_len
  /\ frames' = Surviving(c.storage_len)
  /\ UNCHANGED params
RestoreStacks(c) ==
  /\ storage_len' = c.storage_len
  /\ frames' = Surviving(c.storage_len)
  /\ params' = SubSeq(params, 1, c.param_len)

RestorePc(c) == pc' = c.pc /\ param_base' = c.param_base /\ UNCHANGED base
RestorePcAndBase(c) == pc' = c.pc /\ base' = c.base /\ UNCHANGED param_base
RestoreCursor(c) == pc' = c.pc /\ base' = c.base /\ param_base' = c.param_base

UncaughtAsUnderflow ==
  /\ mode = "crash" /\ crash_stack = <<>>
  /\ Return("CRASH_UNDERFLOW")
  /\ UNCHANGED stacks

\* No frame to pop: the crash is uncaught.
Uncaught ==
  /\ mode = "crash" /\ crash_stack = <<>>
  /\ Return(Sticky("CRASH_UNDERFLOW"))
  /\ UNCHANGED stacks

\* A frame above what is left of the stacks is dropped, and the next one tried.
DropBadFrame ==
  /\ mode = "crash" /\ crash_stack # <<>> /\ BadFrame(Last(crash_stack))
  /\ PopFrame
  /\ UNCHANGED <<storage, params>>
  /\ \/ crash_stack' = <<>> /\ Return(Sticky("BAD_CRASH_FRAME"))
     \/ crash_stack' # <<>> /\ ans' = Sticky("BAD_CRASH_FRAME")
                            /\ UNCHANGED <<cursor, mode, result, runs>>

EnterPad ==
  /\ mode = "crash" /\ crash_stack # <<>> /\ ~BadFrame(Last(crash_stack))
  /\ PopFrame
  /\ RestoreStacks(Last(crash_stack))
  /\ RestoreCursor(Last(crash_stack))
  /\ mode' = "run"
  /\ UNCHANGED <<ans, result, runs>>

\* frontend_compile_source empties the stacks of its own VM around a run.
ResetStacks ==
  /\ mode = "idle" /\ storage_len + Len(params) + Len(crash_stack) > 0
  /\ storage_len' = 0 /\ frames' = <<>> /\ params' = <<>> /\ crash_stack' = <<>>
  /\ UNCHANGED <<cursor, control>>

-----------------------------------------------------------------------------
Init ==
  /\ mode = "idle" /\ ans = "OK" /\ result = "OK" /\ runs = 0
  /\ base = NoFunc /\ pc = 0 /\ param_base = 0
  /\ storage_len = 0 /\ frames = <<>> /\ params = <<>> /\ crash_stack = <<>>

Execute ==
  \/ Ret \/ StorageAdd \/ PushVar \/ PushArg \/ PushGlobal \/ DropN \/ Pop1
  \/ Index \/ Top1 \/ Jump \/ Branch \/ BranchTop \/ PushCrash \/ PopCrash
  \/ Crash \/ HardCrash \/ Done \/ Call \/ CallNative

Unwind == Uncaught \/ DropBadFrame \/ EnterPad

Machine == Execute \/ Unwind

Next == Machine \/ ResetStacks \/ \E f \in Entry : VmRun(f)

\* vm_run is a plain loop of one thread: while it is active it keeps stepping.
Spec == Init /\ [][Next]_vars /\ WF_vars(Machine)

-----------------------------------------------------------------------------
(* Properties of the machine on any bytecode at all.                       *)

\* Every call of vm_run on code without backward jumps comes to an end: the loop
\* at label crash is left, and a pad that crashes is not entered again
\* (vm.c:973-985, 1383-1389).
Terminates == mode # "idle" ~> mode = "idle"

\* Looking for a pad only ever takes things off the stacks (vm.c:977-984): a frame
\* that an instruction left above the stacks never makes one of them longer, which
\* would bring dead cells back to life.
UnwindTruncates ==
  [][mode = "crash" =>
       /\ storage_len' <= storage_len
       /\ Len(params') <= Len(params)
       /\ Len(crash_stack') < Len(crash_stack) \/ mode' = "idle"]_vars

\* A run that no pad ends reports its first error (vm.c:1383-1388): pads that crash
\* themselves, failed allocations and bad crash frames on the way replace nothing,
\* and there is an error to report.  A run that a pad ends, by returning, by
\* B_HARD_CRASH or by a failed check, reports that instead (vm.c:999-1002, 1056, 1334).
FirstErrorWins ==
  [][/\ mode # "idle" /\ ans # "OK" => ans' = ans
     /\ mode = "crash" /\ mode' = "idle" => ans # "OK" /\ result' = ans]_vars
=============================================================================
