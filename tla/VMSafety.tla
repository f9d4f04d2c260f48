------------------------------ MODULE VMSafety ------------------------------
(***************************************************************************)
(* What vm_run guarantees on bytecode that satisfies the contract of       *)
(* module Certificate.  Module Forms checks that what the compiler emits   *)
(* satisfies it; the theorems of VMSafety_proofs hold for any bytecode     *)
(* that does.                                                              *)
(***************************************************************************)
EXTENDS VM, Certificate

CONSTANTS
  Cert,     \* the compiler's static state before each reachable instruction
  Args,     \* Args[f] = number of outputs and inputs of f
  Ins       \* Ins[f]  = number of inputs of f, dropped when it returns

-----------------------------------------------------------------------------
\* Every function is certified, and vm_run is only started on functions that
\* take no arguments: it enters them with param_base 0.
Certified ==
  /\ Args \in [Func -> Nat]
  /\ Ins \in [Func -> Nat]
  /\ \A f \in Func : Ins[f] <= Args[f]
  /\ \A f \in Func : CodeOK(Code[f], Cert[f], Args, Ins, f)
  /\ \A f \in Entry : Args[f] = 0

ASSUME CertifiedAssumption == Certified

\* Native functions report their own failures, not those of the stacks.
ASSUME NativeAssumption == NativeResults \cap Defects = {}

-----------------------------------------------------------------------------
(* The inductive invariant.  Each return frame opens an activation of the  *)
(* function recorded in it; the last one is the running function's.        *)

Frame == [at : Nat, pc : Nat, base : Func \union {NoFunc}, param_base : Nat,
          fn : Func, low : Nat, crash : Nat]
Pad == [pc : Nat \ {0}, base : Func, storage_len : Nat, param_len : Nat,
        param_base : Nat, owner : Nat \ {0}, saved : Seq(Int)]

\* The types of the machine's state, for certified bytecode.
TypeOK ==
  /\ mode \in {"idle", "run", "crash"}
  /\ base \in Func \union {NoFunc} /\ pc \in Nat /\ param_base \in Nat
  /\ runs \in Nat
  /\ storage_len \in Nat
  /\ frames \in Seq(Frame)
  /\ params \in Seq(Int)
  /\ crash_stack \in Seq(Pad)

\* param_base is where the arguments of fn start, unless it has none: vm_run
\* sets it to 0 whatever the height of the parameter stack is.
ArgsAt(fn, pbase, low) == pbase = low \/ Args[fn] = 0

\* The static state of activation n at instruction p of its function
Static(n, p) == Cert[frames[n].fn][p]

\* It accounts for all of storage, of the parameters and of the crash pads above
\* the activation.
Matches(n, p, slen, plen, clen) ==
  /\ p \in DOMAIN Cert[frames[n].fn]
  /\ slen = frames[n].at + Static(n, p).frame
  /\ plen = frames[n].low + Args[frames[n].fn] + Static(n, p).height
  /\ clen = frames[n].crash + Len(Static(n, p).pads)

\* The same pads, by position.
PadsInForce(n, p) ==
  \A j \in 1..Len(Static(n, p).pads) :
    /\ crash_stack[frames[n].crash + j].pc = Static(n, p).pads[j]
    /\ crash_stack[frames[n].crash + j].owner = n

\* Activations are stacked: none reaches into the one below.
Stacked ==
  /\ \A n \in 1..Len(frames) :
       /\ frames[n].at >= RetSize
       /\ frames[n].at <= storage_len
       /\ frames[n].low <= Len(params)
       /\ frames[n].crash <= Len(crash_stack)
  /\ \A m, n \in 1..Len(frames) : m < n =>
       /\ frames[m].at + RetSize <= frames[n].at
       /\ frames[m].low <= frames[n].low
       /\ frames[m].crash <= frames[n].crash

\* The return frame of activation n resumes the one below it after a call
\* instruction whose effect on its static state is that of the called function.
Resumes(n) ==
  LET a == frames[n] IN
  \/ a.pc = 0 /\ Args[a.fn] = 0
  \/ /\ n > 1
     /\ a.base = frames[n - 1].fn
     /\ ArgsAt(a.base, a.param_base, frames[n - 1].low)
     /\ Matches(n - 1, a.pc, a.at - RetSize, a.low + Args[a.fn] - Ins[a.fn], a.crash)
     /\ PadsInForce(n - 1, a.pc)

Suspended == \A n \in 1..Len(frames) : Resumes(n)

\* The running function's activation is the last one.
Running ==
  mode = "run" =>
    /\ frames # <<>>
    /\ base = frames[Len(frames)].fn
    /\ ArgsAt(base, param_base, frames[Len(frames)].low)
    /\ Matches(Len(frames), pc, storage_len, Len(params), Len(crash_stack))
    /\ PadsInForce(Len(frames), pc)

\* A crash frame restores its owner's activation to the static state of its pad.
PadOK(k) ==
  LET c == crash_stack[k] IN
    /\ c.owner \in 1..Len(frames)
    /\ c.base = frames[c.owner].fn
    /\ ArgsAt(c.base, c.param_base, frames[c.owner].low)
    /\ Matches(c.owner, c.pc, c.storage_len, c.param_len, k - 1)
    /\ PadsInForce(c.owner, c.pc)
    /\ Static(c.owner, c.pc).height = 0
    /\ c.storage_len <= storage_len
    /\ c.param_len <= Len(params)
    /\ \A n \in 1..Len(frames) : n > c.owner =>
         /\ c.storage_len + RetSize <= frames[n].at
         /\ c.param_len <= frames[n].low
         /\ k <= frames[n].crash

Pads == \A k \in 1..Len(crash_stack) : PadOK(k)

ControlInv == TypeOK /\ Stacked /\ Suspended /\ Running /\ Pads

-----------------------------------------------------------------------------
(* Safety properties.                                                      *)

\* vm_run checks its stacks at run time (vm.c:974-978, 1013, 1022-1034, 1056, 1326,
\* 1343, 1357-1373).  None of these checks ever fails on certified bytecode, in
\* any run, including one that starts on the stacks an earlier run left behind:
\* only the crashes of the program itself and failed allocations are reported.
NoDefects == result \notin Defects /\ ans \notin Defects

\* Where the C code has no check its behaviour is undefined: an instruction
\* fetched outside the function, or a return that pops bytes which are no
\* ReturnFrame.  Neither happens.
Defined ==
  mode = "run" => /\ pc \in 1..Len(Code[base])
                  /\ At("RET") => FrameOnTop

\* No pointer on the parameter stack outlives what it points at: it is inside
\* storage, and never in the bytes of a ReturnFrame (vm.c:1024, 973-985, 999-1017).
\* This is about what vm_run pushes and cuts; it holds if SlicesLive, that is, of
\* programs that read no dead pointer out of a slice (vm.c:1226-1232).
LivePointers ==
  \A i \in 1..Len(params) :
    params[i] # Foreign =>
      /\ params[i] \in 0..(storage_len - 1)
      /\ \A n \in 1..Len(frames) :
           ~(frames[n].at - RetSize <= params[i] /\ params[i] < frames[n].at)

\* A crash pad sees the parameter stack exactly as it was at the start of the
\* protected region, pointers included (README, BLOCK_CRASH), not merely as long.
PadsSeeTheirParams ==
  \A k \in 1..Len(crash_stack) :
    LET c == crash_stack[k] IN
      Len(params) >= c.param_len /\ SubSeq(params, 1, c.param_len) = c.saved

\* The calling convention (README, IR Model): a function that returns has given
\* back its frame and its pads and taken its inputs, and nothing else, off the
\* parameter stack.
BalancedReturns ==
  [][At("RET") =>
       LET a == Last(frames) IN
         /\ storage_len' = a.at - RetSize
         /\ Len(params') = a.low + Args[a.fn] - Ins[a.fn]
         /\ Len(crash_stack') = a.crash]_vars
=============================================================================
