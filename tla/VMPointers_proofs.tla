------------------------- MODULE VMPointers_proofs -------------------------
(***************************************************************************)
(* Proofs about the pointers on the parameter stack of vm_run (src/vm.c)   *)
(* on certified bytecode: a crash pad finds the parameters of the          *)
(* protected region as they were (PadsSeeTheirParams); and if none that is *)
(* read out of a slice is dead at that moment (SlicesLive), none on the    *)
(* stack ever outlives what it points at (LivePointers).                   *)
(*                                                                         *)
(* Neither is inductive.  A B_RET, a negative B_STORAGE_ADD or a pad cuts  *)
(* storage under the pointers that stay on the stack: they are safe since  *)
(* the arguments of an activation, and all that is below them, point below *)
(* its ReturnFrame (ArgsOutlive), and a cut keeps nothing else.  That in   *)
(* turn needs the arguments to stay where they are while the activation    *)
(* lasts: the calls it makes start above them (ArgsStacked), and a vm_run  *)
(* that stops leaves them there (ArgsHeld), for the next one to start on.  *)
(***************************************************************************)
EXTENDS VMSafety_proofs

-----------------------------------------------------------------------------
(* The inductive invariant.                                                *)

\* The arguments of activation n end here on the parameter stack.
ArgsEnd(n) == frames[n].low + Args[frames[n].fn]

\* The parameters an activation was given are below those of its calls.
ArgsStacked ==
  \A m, n \in 1..Len(frames) : m < n => ArgsEnd(m) <= frames[n].low

\* Only at B_RET are the arguments of an activation on the stack gone.
ArgsHeld ==
  mode # "run" => \A n \in 1..Len(frames) : ArgsEnd(n) <= Len(params)

\* What an activation was given, and all below it, was there before its frame.
ArgsOutlive ==
  \A n \in 1..Len(frames) : \A i \in 1..Len(params) :
    i <= ArgsEnd(n) => params[i] < frames[n].at - RetSize

PointersInv ==
  /\ ArgsStacked /\ ArgsHeld /\ PadsSeeTheirParams
  /\ SlicesLive => ArgsOutlive /\ LivePointers

\* A pointer that may be on the stack: foreign, or into a variable.
Lands(p) ==
  p # Foreign =>
    /\ p \in 0..(storage_len - 1)
    /\ \A n \in 1..Len(frames) : ~(frames[n].at - RetSize <= p /\ p < frames[n].at)

-----------------------------------------------------------------------------
(* The state.                                                              *)

\* The end of an activation's arguments is a place on the parameter stack.
LEMMA ArgsEndType ==
  ASSUME TypeOK, NEW n \in 1..Len(frames)
  PROVE  /\ ArgsEnd(n) \in Nat /\ frames[n].low \in Nat /\ frames[n].at \in Nat
         /\ frames[n].low <= ArgsEnd(n)
<1>1. frames[n].fn \in Func /\ frames[n].low \in Nat /\ frames[n].at \in Nat
  BY FrameFields
<1>2. Args[frames[n].fn] \in Nat
  BY <1>1, CertifiedAssumption DEF Certified
<1> QED
  BY <1>1, <1>2 DEF ArgsEnd

\* The parameters are integers.
LEMMA ParamType ==
  ASSUME TypeOK
  PROVE  /\ params \in Seq(Int) /\ Len(params) \in Nat
         /\ \A i \in 1..Len(params) : params[i] \in Int
<1>1. params \in Seq(Int)
  BY DEF TypeOK
<1> QED
  BY <1>1, SeqLen

\* The running activation's arguments are the highest.
LEMMA HighestArgs ==
  ASSUME NEW n, Executing(n), ArgsStacked, NEW m \in 1..Len(frames)
  PROVE  ArgsEnd(m) <= ArgsEnd(n)
<1>1. TypeOK /\ n = Len(frames) /\ n \in 1..Len(frames)
  BY ExecutingFacts
<1>2. CASE m = n
  BY <1>1, <1>2, ArgsEndType
<1>3. CASE m < n
  BY <1>1, <1>3, ArgsEndType DEF ArgsStacked
<1> QED
  BY <1>1, <1>2, <1>3

\* The parameters of the running activation's own are above them.
LEMMA OwnParams ==
  ASSUME NEW n, Executing(n)
  PROVE  /\ ArgsEnd(n) \in Nat
         /\ Len(params) = ArgsEnd(n) + Cert[base][pc].height
         /\ Cert[base][pc].height \in Int
<1>1. /\ Len(params) = frames[n].low + Args[base] + Cert[base][pc].height
      /\ base = frames[n].fn /\ frames[n].low \in Nat /\ Args[base] \in Nat
      /\ Cert[base][pc].height \in Int
  BY ExecutingFacts
<1> QED
  BY <1>1 DEF ArgsEnd

\* What a crash frame restores is the arguments of its owner.
LEMMA PadArgs ==
  ASSUME TypeOK, Pads, NEW k \in 1..Len(crash_stack)
  PROVE  /\ crash_stack[k].owner \in 1..Len(frames)
         /\ crash_stack[k].param_len = ArgsEnd(crash_stack[k].owner)
         /\ crash_stack[k].param_len \in Nat
         /\ crash_stack[k].param_len <= Len(params)
<1>1. crash_stack[k].owner \in 1..Len(frames)
  BY PadOwner
<1>2. crash_stack[k].param_len \in Nat
  BY PadFields
<1>3. crash_stack[k].param_len <= Len(params)
  BY DEF Pads, PadOK
<1> QED
  BY <1>1, <1>2, <1>3, PadState DEF ArgsEnd

\* A part of a sequence, place by place.
LEMMA PrefixIs ==
  ASSUME NEW S, NEW s \in Seq(S), NEW t \in Seq(S), NEW len \in 0..Len(s)
  PROVE  SubSeq(s, 1, len) = t <=>
           Len(t) = len /\ \A i \in 1..len : t[i] = s[i]
<1>1. /\ SubSeq(s, 1, len) \in Seq(S) /\ Len(SubSeq(s, 1, len)) = len
      /\ \A i \in 1..len : SubSeq(s, 1, len)[i] = s[i]
  BY CutTo
<1>2. ASSUME Len(t) = len, \A i \in 1..len : t[i] = s[i]
      PROVE  SubSeq(s, 1, len) = t
  BY <1>1, <1>2
<1> QED
  BY <1>1, <1>2

-----------------------------------------------------------------------------
(* Steps that leave the activations alone.                                 *)

\* The parameters that stay are those of before; a new one is above all arguments,
\* and points at something unless slices may be dead.
ParamsStep ==
  \A i \in 1..Len(params') :
    \/ i <= Len(params) /\ params'[i] = params[i]
    \/ /\ \A n \in 1..Len(frames) : i > ArgsEnd(n)
       /\ SlicesLive => Lands(params'[i])

\* The crash frames that stay are those of before; a new one saves the parameters.
PadsStep ==
  \A k \in 1..Len(crash_stack') :
    \/ k <= Len(crash_stack) /\ crash_stack'[k] = crash_stack[k]
    \/ /\ params' = params
       /\ crash_stack'[k].saved = params
       /\ crash_stack'[k].param_len = Len(params)

\* No parameter that a crash frame restores is ever replaced.
LEMMA PadsSeeStep ==
  ASSUME ControlInv, ControlInv', PadsSeeTheirParams, PadsStep,
         \A k \in 1..Len(crash_stack') :
           k <= Len(crash_stack) /\ crash_stack'[k] = crash_stack[k] =>
             \A i \in 1..crash_stack[k].param_len : params'[i] = params[i]
  PROVE  PadsSeeTheirParams'
<1>1. TypeOK /\ Pads /\ TypeOK' /\ Pads'
  BY DEF ControlInv
<1>2. /\ params \in Seq(Int) /\ params' \in Seq(Int)
      /\ Len(params) \in Nat /\ Len(params') \in Nat
      /\ Len(crash_stack) \in Nat
  BY <1>1, SeqLen DEF TypeOK
<1>3. SUFFICES ASSUME NEW k \in 1..Len(crash_stack')
               PROVE  /\ Len(params') >= crash_stack'[k].param_len
                      /\ SubSeq(params', 1, crash_stack'[k].param_len)
                           = crash_stack'[k].saved
  BY DEF PadsSeeTheirParams
<1>4. PICK len, saved : len = crash_stack'[k].param_len /\ saved = crash_stack'[k].saved
  OBVIOUS
<1>5. len \in Nat /\ saved \in Seq(Int)
  <2>1. crash_stack' \in Seq(Pad)
    BY <1>1 DEF TypeOK
  <2>2. crash_stack'[k] \in Pad
    BY <2>1
  <2> QED
    BY <1>4, <2>2 DEF Pad
<1>6. len <= Len(params')
  BY <1>1, <1>4 DEF Pads, PadOK
<1>7. CASE k <= Len(crash_stack) /\ crash_stack'[k] = crash_stack[k]
  <2>1. k \in 1..Len(crash_stack)
    BY <1>2, <1>7
  <2>2. Len(params) >= len /\ SubSeq(params, 1, len) = saved
    BY <1>4, <1>7, <2>1 DEF PadsSeeTheirParams
  <2>3. Len(saved) = len /\ \A i \in 1..len : saved[i] = params[i]
    BY <1>2, <1>5, <2>2, PrefixIs
  <2>4. \A i \in 1..len : saved[i] = params'[i]
    BY <1>4, <1>7, <2>3
  <2>5. SubSeq(params', 1, len) = saved
    BY <1>2, <1>5, <1>6, <2>3, <2>4, PrefixIs
  <2> QED
    BY <1>2, <1>4, <1>5, <1>6, <2>5
<1>8. CASE params' = params /\ saved = params /\ len = Len(params)
  <2>1. SubSeq(params', 1, len) = saved
    BY <1>2, <1>5, <1>6, <1>8, PrefixIs
  <2> QED
    BY <1>2, <1>4, <1>5, <1>6, <2>1
<1> QED
  BY <1>4, <1>7, <1>8 DEF PadsStep

\* A step that changes only the parameters and the crash frames, from their tops.
LEMMA ParamsChanged ==
  ASSUME ControlInv, ControlInv', PointersInv,
         UNCHANGED storage, ParamsStep, PadsStep,
         mode' # "run" => \A n \in 1..Len(frames) : ArgsEnd(n) <= Len(params')
  PROVE  PointersInv'
<1>1. TypeOK /\ Pads /\ TypeOK' /\ Pads'
  BY DEF ControlInv
<1>2. frames' = frames /\ storage_len' = storage_len
  BY DEF storage
<1>3. \A n \in 1..Len(frames) : ArgsEnd(n)' = ArgsEnd(n)
  BY <1>2 DEF ArgsEnd
<1>4. ArgsStacked' /\ ArgsHeld'
  BY <1>2, <1>3 DEF PointersInv, ArgsStacked, ArgsHeld
<1>5. Len(params') \in Nat /\ Len(params) \in Nat
  BY <1>1, ParamType, SeqLen DEF TypeOK
<1>6. SlicesLive => ArgsOutlive'
  <2>1. SUFFICES ASSUME SlicesLive, NEW n \in 1..Len(frames), NEW i \in 1..Len(params'),
                        i <= ArgsEnd(n)
                 PROVE  params'[i] < frames[n].at - RetSize
    BY <1>2, <1>3 DEF ArgsOutlive
  <2>2. ~(i > ArgsEnd(n))
    BY <1>1, <2>1, ArgsEndType
  <2>3. i <= Len(params) /\ params'[i] = params[i]
    BY <2>2 DEF ParamsStep
  <2>4. i \in 1..Len(params)
    BY <1>5, <2>3
  <2> QED
    BY <2>1, <2>3, <2>4 DEF PointersInv, ArgsOutlive
<1>7. SlicesLive => LivePointers'
  <2>1. SUFFICES ASSUME SlicesLive, NEW i \in 1..Len(params') PROVE Lands(params'[i])
    BY <1>2 DEF LivePointers, Lands
  <2>2. CASE i <= Len(params) /\ params'[i] = params[i]
    <3>1. i \in 1..Len(params)
      BY <1>5, <2>2
    <3> QED
      BY <2>1, <2>2, <3>1 DEF PointersInv, LivePointers, Lands
  <2> QED
    BY <2>1, <2>2 DEF ParamsStep
<1>8. PadsSeeTheirParams'
  <2>1. SUFFICES ASSUME NEW k \in 1..Len(crash_stack'), k <= Len(crash_stack),
                        crash_stack'[k] = crash_stack[k],
                        NEW i \in 1..crash_stack[k].param_len
                 PROVE  params'[i] = params[i]
    BY PadsSeeStep DEF PointersInv
  <2>2. k \in 1..Len(crash_stack) /\ Len(crash_stack) \in Nat
    BY <1>1, <2>1, SeqLen DEF TypeOK
  <2>3. PICK n \in 1..Len(frames) : crash_stack[k].param_len = ArgsEnd(n)
    BY <1>1, <2>2, PadArgs
  <2>4. ~(i > ArgsEnd(n))
    BY <1>1, <2>1, <2>3, ArgsEndType
  <2>5. crash_stack'[k].param_len <= Len(params')
    BY <1>1 DEF Pads, PadOK
  <2>6. i \in 1..Len(params')
    BY <1>1, <1>5, <2>1, <2>2, <2>5, PadArgs
  <2> QED
    BY <2>4, <2>6 DEF ParamsStep
<1> QED
  BY <1>4, <1>6, <1>7, <1>8 DEF PointersInv

-----------------------------------------------------------------------------
(* The instructions that stay in the running activation.                   *)

\* A state in which an instruction is executed, and the state after it.
Stepping(n) == Executing(n) /\ ControlInv' /\ PointersInv

\* Before any other instruction than B_RET all arguments are on the stack.
LEMMA ArgsThere ==
  ASSUME NEW n, Stepping(n), I.op # "RET"
  PROVE  /\ Cert[base][pc].height \in Nat
         /\ \A m \in 1..Len(frames) : ArgsEnd(m) <= Len(params)
<1>1. TypeOK /\ n \in 1..Len(frames)
  BY ExecutingFacts DEF Stepping
<1>2. Cert[base][pc].height >= 0
  BY ExecutingFacts, Contract DEF StepOK, Stepping
<1>3. /\ ArgsEnd(n) \in Nat /\ Len(params) = ArgsEnd(n) + Cert[base][pc].height
      /\ Cert[base][pc].height \in Int
  BY OwnParams DEF Stepping
<1>4. ASSUME NEW m \in 1..Len(frames) PROVE ArgsEnd(m) <= Len(params)
  <2>1. ArgsEnd(m) <= ArgsEnd(n) /\ ArgsEnd(m) \in Nat
    BY <1>1, HighestArgs, ArgsEndType DEF Stepping, PointersInv
  <2> QED
    BY <1>2, <1>3, <2>1
<1> QED
  BY <1>2, <1>3, <1>4

\* An instruction that leaves the parameters as they are, and whether it crashes,
\* pops a crash frame or goes on.
LEMMA ParamsLeft ==
  ASSUME NEW n, Stepping(n), I.op # "RET", UNCHANGED storage, params' = params,
         \A k \in 1..Len(crash_stack') :
           k <= Len(crash_stack) /\ crash_stack'[k] = crash_stack[k]
  PROVE  PointersInv'
<1>1. ControlInv /\ ControlInv' /\ PointersInv
  BY DEF Stepping, Executing
<1>2. Len(params) \in Nat
  BY <1>1, ParamType DEF ControlInv
<1>3. ParamsStep /\ PadsStep
  BY <1>2 DEF ParamsStep, PadsStep
<1> QED
  BY <1>1, <1>3, ArgsThere, ParamsChanged

\* An instruction that leaves all stacks as they are.
LEMMA StacksLeft ==
  ASSUME NEW n, Stepping(n), I.op # "RET", UNCHANGED stacks
  PROVE  PointersInv'
<1>1. UNCHANGED storage /\ params' = params /\ crash_stack' = crash_stack
  BY DEF stacks, storage
<1>2. Len(crash_stack) \in Nat
  BY ExecutingFacts, SeqLen DEF Stepping, TypeOK
<1> QED
  BY <1>1, <1>2, ParamsLeft

\* An instruction that pops parameters, and may only give up above the arguments.
LEMMA ParamsPopped ==
  ASSUME NEW n, Stepping(n), I.op # "RET", UNCHANGED storage, UNCHANGED crash_stack,
         NEW d \in Nat, d <= Len(params), DropParams(d),
         mode' = "run" \/ d <= Cert[base][pc].height
  PROVE  PointersInv'
<1>1. ControlInv /\ ControlInv' /\ PointersInv /\ TypeOK
  BY DEF Stepping, Executing, ControlInv
<1>2. params \in Seq(Int) /\ Len(params) \in Nat /\ Len(crash_stack) \in Nat
  BY <1>1, ParamType, SeqLen DEF TypeOK
<1> PICK len : len = Len(params) - d
  OBVIOUS
<1>3. len \in 0..Len(params)
  BY <1>2
<1>4. params' = SubSeq(params, 1, len)
  BY DEF DropParams
<1>5. Len(params') = len /\ \A i \in 1..len : params'[i] = params[i]
  BY <1>2, <1>4, CutTo
<1>6. ParamsStep /\ PadsStep
  BY <1>2, <1>3, <1>5 DEF ParamsStep, PadsStep
<1>7. ASSUME mode' # "run", NEW m \in 1..Len(frames)
      PROVE  ArgsEnd(m) <= Len(params')
  <2>1. d <= Cert[base][pc].height
    BY <1>7
  <2>2. /\ ArgsEnd(n) \in Nat /\ Len(params) = ArgsEnd(n) + Cert[base][pc].height
        /\ Cert[base][pc].height \in Int
    BY OwnParams DEF Stepping
  <2>3. ArgsEnd(m) <= ArgsEnd(n) /\ ArgsEnd(m) \in Nat
    BY <1>1, HighestArgs, ArgsEndType DEF Stepping, PointersInv
  <2> QED
    BY <1>3, <1>5, <2>1, <2>2, <2>3
<1> QED
  BY <1>1, <1>6, <1>7, ParamsChanged

\* The three pushes.
LEMMA PointerPushed ==
  ASSUME NEW n, Stepping(n), I.op # "RET", NEW p \in Int, SlicesLive => Lands(p), Push(p)
  PROVE  PointersInv'
<1>1. ControlInv /\ ControlInv' /\ PointersInv /\ TypeOK
  BY DEF Stepping, Executing, ControlInv
<1>2. params \in Seq(Int) /\ Len(params) \in Nat /\ Len(crash_stack) \in Nat
  BY <1>1, ParamType, SeqLen DEF TypeOK
<1>3. UNCHANGED storage /\ UNCHANGED crash_stack
  BY DEF Push
<1>4. CASE params' = params
  BY <1>3, <1>4, StacksLeft DEF stacks, storage
<1>5. CASE params' = Append(params, p)
  <2>1. /\ Len(params') = Len(params) + 1 /\ params'[Len(params) + 1] = p
        /\ \A i \in 1..Len(params) : params'[i] = params[i]
    BY <1>2, <1>5, PushOn
  <2>2. \A m \in 1..Len(frames) : ArgsEnd(m) <= Len(params) /\ ArgsEnd(m) \in Nat
    BY <1>1, ArgsThere, ArgsEndType
  <2>3. ASSUME NEW i \in 1..Len(params')
        PROVE  \/ i <= Len(params) /\ params'[i] = params[i]
               \/ /\ \A m \in 1..Len(frames) : i > ArgsEnd(m)
                  /\ SlicesLive => Lands(params'[i])
    <3>1. CASE i <= Len(params)
      BY <1>2, <2>1, <3>1
    <3>2. CASE i = Len(params) + 1
      <4>1. SlicesLive => Lands(params'[i])
        BY <2>1, <3>2
      <4>2. \A m \in 1..Len(frames) : i > ArgsEnd(m)
        BY <1>2, <2>2, <3>2
      <4> QED
        BY <4>1, <4>2
    <3> QED
      BY <1>2, <2>1, <3>1, <3>2
  <2>4. ParamsStep
    BY <2>3 DEF ParamsStep
  <2>5. PadsStep
    BY <1>2, <1>3 DEF PadsStep
  <2>6. \A m \in 1..Len(frames) : ArgsEnd(m) <= Len(params')
    BY <1>2, <2>1, <2>2
  <2> QED
    BY <1>1, <1>3, <2>4, <2>5, <2>6, ParamsChanged
<1> QED
  BY <1>4, <1>5 DEF Push, PushParam

\* B_PUSH_VAR: the variable is in the frame of the running activation.
LEMMA PushVarPoints ==
  ASSUME NEW n, Stepping(n), PushVar
  PROVE  PointersInv'
<1>1. TypeOK /\ Stacked
  BY DEF Stepping, Executing, ControlInv
<1>2. I.op = "PUSH_VAR" /\ I.off \in Int /\ I.off < 0 /\ Cert[base][pc].frame + I.off >= 0
  BY ExecutingFacts, Contract DEF PushVar, At, StepOK, Stepping
<1>3. /\ n \in 1..Len(frames) /\ n = Len(frames) /\ frames[n].at \in Nat
      /\ storage_len \in Nat
      /\ Cert[base][pc].frame \in Nat /\ storage_len = frames[n].at + Cert[base][pc].frame
  BY ExecutingFacts DEF Stepping
<1>4. PICK p \in Int : p = storage_len + I.off
  BY <1>2, <1>3
<1>5. p >= frames[n].at /\ p \in 0..(storage_len - 1)
  BY <1>2, <1>3, <1>4
<1>6. ASSUME NEW m \in 1..Len(frames)
      PROVE  ~(frames[m].at - RetSize <= p /\ p < frames[m].at)
  BY <1>1, <1>3, <1>5, LastIsHighest, FrameFields
<1>7. Lands(p)
  BY <1>5, <1>6 DEF Lands
<1>8. CASE UNCHANGED stacks
  BY <1>2, <1>8, StacksLeft
<1>9. CASE Push(p)
  BY <1>2, <1>7, <1>9, PointerPushed
<1> QED
  BY <1>4, <1>8, <1>9 DEF PushVar

\* B_PUSH_ARG: the pointer is on the stack already.
LEMMA PushArgPoints ==
  ASSUME NEW n, Stepping(n), PushArg
  PROVE  PointersInv'
<1>1. I.op = "PUSH_ARG" /\ I.idx \in Nat
  BY ExecutingFacts, Contract DEF PushArg, At, StepOK, Stepping
<1>2. CASE UNCHANGED stacks
  BY <1>1, <1>2, StacksLeft
<1>3. CASE /\ param_base + I.idx < Len(params)
           /\ Push(params[param_base + I.idx + 1])
  <2>1. param_base \in Nat /\ TypeOK
    BY ExecutingFacts DEF Stepping
  <2>2. PICK i : i = param_base + I.idx + 1
    OBVIOUS
  <2>3. i \in 1..Len(params)
    BY <1>1, <1>3, <2>1, <2>2, ParamType
  <2>4. SlicesLive => Lands(params[i])
    BY <2>3 DEF Stepping, PointersInv, LivePointers, Lands
  <2>5. params[i] \in Int
    BY <2>1, <2>3, ParamType
  <2> QED
    BY <1>1, <1>3, <2>2, <2>4, <2>5, PointerPushed
<1> QED
  BY <1>2, <1>3 DEF PushArg

\* B_PUSH_GLOBAL: a global is not in storage.
LEMMA PushGlobalPoints ==
  ASSUME NEW n, Stepping(n), PushGlobal
  PROVE  PointersInv'
<1>1. I.op = "PUSH_GLOBAL"
  BY DEF PushGlobal, At
<1>2. Foreign \in Int /\ Lands(Foreign)
  BY DEF Foreign, Lands
<1> QED
  BY <1>1, <1>2, StacksLeft, PointerPushed DEF PushGlobal

\* An instruction that finds too few parameters, or crashes without popping any.
LEMMA UnderflowPoints ==
  ASSUME NEW n, Stepping(n), I.op # "RET", NEW k, Underflow(k)
  PROVE  PointersInv'
  BY StacksLeft DEF Underflow

\* B_DROP_N
LEMMA DropNPoints ==
  ASSUME NEW n, Stepping(n), DropN
  PROVE  PointersInv'
<1>1. I.op = "DROP_N" /\ I.n \in Nat
  BY ExecutingFacts, Contract DEF DropN, At, StepOK, Stepping
<1>2. CASE /\ Len(params) >= I.n
           /\ DropParams(I.n) /\ Next1
           /\ UNCHANGED <<storage, crash_stack>>
  <2>1. mode' = "run"
    BY <1>2, ExecutingFacts DEF Next1, Go, control, Stepping
  <2>2. I.n <= Len(params)
    BY <1>1, <1>2, ExecutingFacts DEF Stepping
  <2> QED
    BY <1>1, <1>2, <2>1, <2>2, ParamsPopped
<1> QED
  BY <1>1, <1>2, UnderflowPoints DEF DropN

\* An instruction that pops parameters of the running activation's own.
LEMMA OwnPopped ==
  ASSUME NEW n, Stepping(n), I.op # "RET", NEW d \in Nat, d <= Cert[base][pc].height,
         DropParams(d), UNCHANGED <<storage, crash_stack>>
  PROVE  PointersInv'
<1>1. /\ ArgsEnd(n) \in Nat /\ Len(params) = ArgsEnd(n) + Cert[base][pc].height
      /\ Cert[base][pc].height \in Int
  BY OwnParams DEF Stepping
<1>2. d <= Len(params)
  BY <1>1
<1> QED
  BY <1>2, ParamsPopped

\* The instructions that take their operand off the stack
LEMMA Pop1Points ==
  ASSUME NEW n, Stepping(n), Pop1
  PROVE  PointersInv'
<1>1. I.op = "POP1" /\ Cert[base][pc].height >= 2 /\ Cert[base][pc].height \in Int
  BY ExecutingFacts, Contract DEF Pop1, At, StepOK, Stepping
<1>2. CASE DropParams(1) /\ UNCHANGED <<storage, crash_stack>>
  BY <1>1, <1>2, OwnPopped
<1> QED
  BY <1>1, <1>2, UnderflowPoints DEF Pop1

\* What is read out of a slice that may be indexed is not in a ReturnFrame.
LEMMA SliceTargetsLand ==
  ASSUME TypeOK, SlicesLive, NEW p \in SliceTargets
  PROVE  Lands(p)
<1>1. p # Foreign => p \in 0..(MaxStorage - 1) /\ p < storage_len
  BY DEF SliceTargets
<1>2. storage_len \in Nat
  BY DEF TypeOK
<1>3. p # Foreign => p \in 0..(storage_len - 1)
  BY <1>1, <1>2, StorageAssumption
<1> QED
  BY <1>3 DEF Lands, SliceTargets

\* B_PUSH_ARR_AT and B_PUSH_SLICE_AT: what replaces the container points into it, or
\* where the slice refers to.
LEMMA IndexPoints ==
  ASSUME NEW n, Stepping(n), Index
  PROVE  PointersInv'
<1>1. I.op = "INDEX" /\ Cert[base][pc].height >= 2 /\ Cert[base][pc].height \in Int
  BY ExecutingFacts, Contract DEF Index, At, StepOK, Stepping
<1>2. CASE DropParams(1) /\ UNCHANGED <<storage, crash_stack>>
  BY <1>1, <1>2, OwnPopped
<1>3. CASE /\ UNCHANGED <<storage, crash_stack>>
           /\ \E p \in IF I.slice THEN SliceTargets ELSE {params[Len(params) - 1]} :
                params' = Append(SubSeq(params, 1, Len(params) - 2), p)
  <2>1. ControlInv /\ ControlInv' /\ PointersInv /\ TypeOK
    BY DEF Stepping, Executing, ControlInv
  <2>2. /\ params \in Seq(Int) /\ Len(params) \in Nat /\ Len(crash_stack) \in Nat
        /\ \A i \in 1..Len(params) : params[i] \in Int
    BY <2>1, ParamType, SeqLen DEF TypeOK
  <2>3. /\ ArgsEnd(n) \in Nat /\ Len(params) = ArgsEnd(n) + Cert[base][pc].height
    BY OwnParams DEF Stepping
  <2>4. \A m \in 1..Len(frames) : ArgsEnd(m) <= ArgsEnd(n) /\ ArgsEnd(m) \in Nat
    BY <2>1, HighestArgs, ArgsEndType DEF Stepping, PointersInv
  <2> PICK len : len = Len(params) - 2
    OBVIOUS
  <2>5. /\ len \in 0..Len(params) /\ len + 1 \in 1..Len(params) /\ len + 1 <= Len(params)
        /\ ArgsEnd(n) <= len /\ len \in Nat
    <3> PICK l, e, h : l = Len(params) /\ e = ArgsEnd(n) /\ h = Cert[base][pc].height
      OBVIOUS
    <3>1. l \in Nat /\ e \in Nat /\ h \in Int /\ h >= 2 /\ l = e + h /\ len = l - 2
      BY <1>1, <2>2, <2>3
    <3>2. len \in 0..l /\ len + 1 \in 1..l /\ len + 1 <= l /\ e <= len /\ len \in Nat
      BY ONLY <3>1
    <3> QED
      BY <3>2
  <2>0. PICK p : /\ p \in IF I.slice THEN SliceTargets ELSE {params[Len(params) - 1]}
                 /\ params' = Append(SubSeq(params, 1, Len(params) - 2), p)
    BY <1>3
  <2> PICK s : s = SubSeq(params, 1, len)
    OBVIOUS
  <2>6. p \in Int /\ (SlicesLive => Lands(p))
    <3>1. CASE p \in SliceTargets
      BY <2>1, <3>1, SliceTargetsType, SliceTargetsLand
    <3>2. CASE p = params[len + 1]
      BY <2>1, <2>2, <2>5, <3>2 DEF PointersInv, LivePointers, Lands
    <3>3. Len(params) - 1 = len + 1
      BY <2>2
    <3> QED
      BY <2>0, <3>1, <3>2, <3>3
  <2>7. s \in Seq(Int) /\ Len(s) = len /\ \A i \in 1..len : s[i] = params[i]
    BY <2>2, <2>5, CutTo
  <2>8. params' = Append(s, p)
    BY <2>0
  <2>9. /\ Len(params') = len + 1 /\ params'[len + 1] = p
        /\ \A i \in 1..len : params'[i] = params[i]
    BY <2>6, <2>7, <2>8, PushOn
  <2>10. ParamsStep
    <3>1. SUFFICES ASSUME NEW i \in 1..Len(params')
                   PROVE  \/ i <= Len(params) /\ params'[i] = params[i]
                          \/ /\ \A m \in 1..Len(frames) : i > ArgsEnd(m)
                             /\ SlicesLive => Lands(params'[i])
      BY DEF ParamsStep
    <3>2. CASE i <= len
      <4>1. i \in 1..len /\ i <= Len(params)
        BY <2>2, <2>5, <2>9, <3>2
      <4> QED
        BY <2>9, <4>1
    <3>3. CASE i = len + 1
      <4>1. SlicesLive => Lands(params'[i])
        BY <2>6, <2>9, <3>3
      <4>2. ASSUME NEW m \in 1..Len(frames) PROVE i > ArgsEnd(m)
        <5> PICK e, f : e = ArgsEnd(n) /\ f = ArgsEnd(m)
          OBVIOUS
        <5>1. e \in Nat /\ f \in Nat /\ len \in Nat /\ f <= e /\ e <= len /\ i = len + 1
          BY <2>3, <2>4, <2>5, <3>3
        <5>2. i > f
          BY ONLY <5>1
        <5> QED
          BY <5>2
      <4> QED
        BY <4>1, <4>2
    <3> QED
      BY <2>5, <2>9, <3>2, <3>3
  <2>11. PadsStep
    BY <1>3, <2>2 DEF PadsStep
  <2>12. \A m \in 1..Len(frames) : ArgsEnd(m) <= Len(params')
    <3>1. SUFFICES ASSUME NEW m \in 1..Len(frames) PROVE ArgsEnd(m) <= Len(params')
      OBVIOUS
    <3> PICK e, f, l : e = ArgsEnd(n) /\ f = ArgsEnd(m) /\ l = Len(params')
      OBVIOUS
    <3>2. e \in Nat /\ f \in Nat /\ len \in Nat /\ f <= e /\ e <= len /\ l = len + 1
      BY <2>3, <2>4, <2>5, <2>9
    <3>3. f <= l
      BY ONLY <3>2
    <3> QED
      BY <3>3
  <2> QED
    BY <1>3, <2>1, <2>10, <2>11, <2>12, ParamsChanged
<1> QED
  BY <1>1, <1>2, <1>3, UnderflowPoints DEF Index

\* B_BRANCH_IF_TOP: the condition is popped.
LEMMA BranchTopPoints ==
  ASSUME NEW n, Stepping(n), BranchTop
  PROVE  PointersInv'
<1>1. I.op = "BRANCH_TOP" /\ Cert[base][pc].height >= 1 /\ Cert[base][pc].height \in Int
  BY ExecutingFacts, Contract DEF BranchTop, At, StepOK, Stepping
<1>2. CASE DropParams(1) /\ UNCHANGED <<storage, crash_stack>>
  BY <1>1, <1>2, OwnPopped
<1> QED
  BY <1>1, <1>2, UnderflowPoints DEF BranchTop

\* B_CALL_NATIVE: the pointer is popped, and the inputs after a normal return.
LEMMA CallNativePoints ==
  ASSUME NEW n, Stepping(n), CallNative
  PROVE  PointersInv'
<1>1. /\ I.op = "CALL_NATIVE" /\ I.argc \in Nat
      /\ Cert[base][pc].height >= I.argc + 1 /\ Cert[base][pc].height \in Int
  BY ExecutingFacts, Contract DEF CallNative, At, StepOK, Stepping
<1>2. I.argc + 1 \in Nat /\ 1 <= Cert[base][pc].height
  BY <1>1
<1>3. CASE /\ DropParams(1) \/ DropParams(I.argc + 1)
           /\ UNCHANGED <<storage, crash_stack>>
  BY <1>1, <1>2, <1>3, OwnPopped
<1> QED
  BY <1>1, <1>3, UnderflowPoints DEF CallNative

\* The instructions that touch no stack
LEMMA OthersPoint ==
  ASSUME NEW n, Stepping(n), Top1 \/ Jump \/ Crash \/ HardCrash
  PROVE  PointersInv'
<1>1. I.op \in {"TOP1", "JUMP", "CRASH", "HARD_CRASH"}
  BY DEF Top1, Jump, Crash, HardCrash, At
<1>2. UNCHANGED stacks
  BY DEF Top1, Jump, Crash, HardCrash, Underflow
<1> QED
  BY <1>1, <1>2, StacksLeft

\* B_PUSH_CRASH: the new crash frame sees the parameters of now.
LEMMA PushCrashPoints ==
  ASSUME NEW n, Stepping(n), PushCrash
  PROVE  PointersInv'
<1>1. I.op = "PUSH_CRASH" /\ UNCHANGED storage /\ params' = params
  BY DEF PushCrash, At
<1>2. ControlInv /\ ControlInv' /\ PointersInv /\ TypeOK
  BY DEF Stepping, Executing, ControlInv
<1>3. crash_stack \in Seq(Pad) /\ Len(crash_stack) \in Nat /\ Len(params) \in Nat
  BY <1>2, ParamType, SeqLen DEF TypeOK
<1>4. PadsStep
  <2>1. CASE crash_stack' = crash_stack
    BY <1>3, <2>1 DEF PadsStep
  <2>2. CASE crash_stack' = Append(crash_stack,
             [pc |-> I.target, base |-> base, storage_len |-> storage_len,
              param_len |-> Len(params), param_base |-> param_base,
              owner |-> Len(frames), saved |-> params])
    <3> PICK c : c = [pc |-> I.target, base |-> base, storage_len |-> storage_len,
              param_len |-> Len(params), param_base |-> param_base,
              owner |-> Len(frames), saved |-> params]
      OBVIOUS
    <3>1. c.saved = params /\ c.param_len = Len(params)
      OBVIOUS
    <3>2. crash_stack' = Append(crash_stack, c)
      BY <2>2
    <3>3. /\ Len(crash_stack') = Len(crash_stack) + 1
          /\ crash_stack'[Len(crash_stack) + 1] = c
          /\ \A k \in 1..Len(crash_stack) : crash_stack'[k] = crash_stack[k]
      BY <1>3, <3>2
    <3> QED
      BY <1>1, <1>3, <3>1, <3>3 DEF PadsStep
  <2> QED
    BY <2>1, <2>2 DEF PushCrash
<1>5. ParamsStep
  BY <1>1, <1>3 DEF ParamsStep
<1> QED
  BY <1>1, <1>2, <1>4, <1>5, ArgsThere, ParamsChanged

\* B_POP_CRASH
LEMMA PopCrashPoints ==
  ASSUME NEW n, Stepping(n), PopCrash
  PROVE  PointersInv'
<1>1. I.op = "POP_CRASH" /\ UNCHANGED storage /\ params' = params
  BY DEF PopCrash, At
<1>2. TypeOK
  BY ExecutingFacts DEF Stepping
<1>3. crash_stack \in Seq(Pad) /\ Len(crash_stack) \in Nat
  BY <1>2, SeqLen DEF TypeOK
<1>4. CASE crash_stack' = crash_stack
  BY <1>1, <1>3, <1>4, ParamsLeft
<1>5. CASE crash_stack # <<>> /\ crash_stack' = Front(crash_stack)
  <2>1. \A k \in 1..Len(crash_stack') :
          k <= Len(crash_stack) /\ crash_stack'[k] = crash_stack[k]
    BY <1>3, <1>5 DEF Front
  <2> QED
    BY <1>1, <2>1, ParamsLeft
<1> QED
  BY <1>4, <1>5 DEF PopCrash, PopFrame

-----------------------------------------------------------------------------
(* Steps that cut the stacks.                                              *)

\* The stacks are cut to the lowest o activations, to the lowest len parameters, and
\* to storage that ends above all that these point at.
LEMMA StacksCut ==
  ASSUME ControlInv, ControlInv', PointersInv,
         NEW o \in 0..Len(frames), frames' = SubSeq(frames, 1, o),
         NEW len \in 0..Len(params), params' = SubSeq(params, 1, len),
         NEW d \in 0..Len(crash_stack), crash_stack' = SubSeq(crash_stack, 1, d),
         SlicesLive => \A i \in 1..len : params[i] < storage_len',
         mode' # "run" => \A n \in 1..o : ArgsEnd(n) <= len
  PROVE  PointersInv'
<1>1. TypeOK /\ Pads /\ TypeOK' /\ Pads'
  BY DEF ControlInv
<1>2. /\ frames \in Seq(Frame) /\ params \in Seq(Int) /\ crash_stack \in Seq(Pad)
      /\ Len(frames) \in Nat /\ Len(params) \in Nat /\ Len(crash_stack) \in Nat
      /\ storage_len \in Nat /\ storage_len' \in Nat
  BY <1>1, SeqLen DEF TypeOK
<1>3. /\ Len(frames') = o /\ \A n \in 1..o : frames'[n] = frames[n]
      /\ Len(params') = len /\ \A i \in 1..len : params'[i] = params[i]
      /\ Len(crash_stack') = d /\ \A k \in 1..d : crash_stack'[k] = crash_stack[k]
  BY <1>2, CutTo
<1>4. /\ \A n \in 1..o : n \in 1..Len(frames)
      /\ \A i \in 1..len : i \in 1..Len(params)
      /\ \A k \in 1..d : k \in 1..Len(crash_stack) /\ k <= Len(crash_stack)
  BY <1>2
<1>5. \A n \in 1..o : ArgsEnd(n)' = ArgsEnd(n)
  BY <1>3 DEF ArgsEnd
<1>6. ArgsStacked'
  BY <1>3, <1>4, <1>5 DEF PointersInv, ArgsStacked
<1>7. ArgsHeld'
  BY <1>3, <1>5 DEF ArgsHeld
<1>8. SlicesLive => ArgsOutlive'
  BY <1>3, <1>4, <1>5 DEF PointersInv, ArgsOutlive
<1>9. SlicesLive => LivePointers'
  <2>1. SUFFICES ASSUME SlicesLive, NEW i \in 1..len, params[i] # Foreign
                 PROVE  /\ params[i] \in 0..(storage_len' - 1)
                        /\ \A n \in 1..o : ~(/\ frames[n].at - RetSize <= params[i]
                                           /\ params[i] < frames[n].at)
    BY <1>3 DEF LivePointers
  <2>2. /\ params[i] \in 0..(storage_len - 1)
        /\ \A n \in 1..Len(frames) : ~(/\ frames[n].at - RetSize <= params[i]
                                      /\ params[i] < frames[n].at)
    BY <1>4, <2>1 DEF PointersInv, LivePointers
  <2>3. params[i] < storage_len'
    BY <2>1
  <2>4. params[i] \in 0..(storage_len' - 1)
    BY <1>2, <2>2, <2>3
  <2> QED
    BY <1>4, <2>2, <2>4
<1>10. PadsSeeTheirParams'
  <2>1. PadsStep
    BY <1>3, <1>4 DEF PadsStep
  <2>2. ASSUME NEW k \in 1..d, NEW i \in 1..crash_stack[k].param_len
        PROVE  params'[i] = params[i]
    <3>1. crash_stack'[k].param_len <= Len(params')
      BY <1>1, <1>3 DEF Pads, PadOK
    <3>2. crash_stack[k].param_len \in Nat
      BY <1>1, <1>4, PadFields
    <3>3. crash_stack[k].param_len <= len /\ len \in Nat
      BY <1>2, <1>3, <2>2, <3>1
    <3>4. i \in 1..len
      BY <2>2, <3>2, <3>3
    <3> QED
      BY <1>3, <3>4
  <2> QED
    BY <1>3, <2>1, <2>2, PadsSeeStep DEF PointersInv
<1> QED
  BY <1>6, <1>7, <1>8, <1>9, <1>10 DEF PointersInv

\* All of a stack is a part of it.
LEMMA AllOf ==
  ASSUME NEW S, NEW s \in Seq(S)
  PROVE  s = SubSeq(s, 1, Len(s)) /\ Len(s) \in 0..Len(s)
<1>1. Len(s) \in Nat
  BY SeqLen
<1>2. Len(s) \in 0..Len(s)
  BY <1>1
<1> QED
  BY <1>2, PrefixIs

\* B_STORAGE_ADD: a frame is only taken away with no parameter of the activation's own
\* on the stack, so that none points into it.
LEMMA StorageAddPoints ==
  ASSUME NEW n, Stepping(n), StorageAdd
  PROVE  PointersInv'
<1>1. /\ I.op = "STORAGE_ADD" /\ I.n \in Int
      /\ I.n < 0 => Cert[base][pc].height = 0
      /\ Flow(Cert[base], pc, pc + 1, I.n, 0, Cert[base][pc].pads)
  BY ExecutingFacts, Contract DEF StorageAdd, At, StepOK, Stepping
<1>2. CASE UNCHANGED <<params, crash_stack>> /\ UNCHANGED storage
  BY <1>1, <1>2, StacksLeft DEF stacks, storage
<1>3. CASE /\ UNCHANGED <<params, crash_stack>>
           /\ storage_len' = storage_len + I.n
           /\ frames' = Surviving(storage_len + I.n)
           /\ Next1
  <2>1. /\ ControlInv /\ ControlInv' /\ PointersInv /\ TypeOK /\ Stacked /\ TypeOK'
    BY DEF Stepping, Executing, ControlInv
  <2>2. /\ params \in Seq(Int) /\ frames \in Seq(Frame) /\ crash_stack \in Seq(Pad)
        /\ storage_len \in Nat /\ storage_len' \in Nat /\ RetSize \in Nat \ {0}
        /\ Len(params) \in Nat
    BY <2>1, SeqLen, RetSizeAssumption DEF TypeOK
  <2>3. n \in 1..Len(frames) /\ n = Len(frames) /\ base = frames[n].fn
    BY ExecutingFacts DEF Stepping
  <2>4. frames[n].at <= storage_len'
    <3>1. pc + 1 \in DOMAIN Cert[base] /\ base \in Func
          /\ Cert[base][pc + 1].frame = Cert[base][pc].frame + I.n
      BY <1>1, <2>1, <2>3, FrameFields DEF Flow
    <3>2. Cert[base][pc + 1].frame \in Nat
      BY <3>1, CertFacts
    <3>3. /\ frames[n].at \in Nat /\ Cert[base][pc].frame \in Nat
          /\ storage_len = frames[n].at + Cert[base][pc].frame
      BY ExecutingFacts DEF Stepping
    <3> QED
      BY <1>1, <1>3, <3>1, <3>2, <3>3
  <2>5. ASSUME NEW m \in 1..Len(frames) PROVE frames[m].at <= storage_len'
    <3> PICK x, y, z : x = frames[m].at /\ y = frames[n].at /\ z = storage_len'
      OBVIOUS
    <3>1. x \in Nat /\ y \in Nat /\ z \in Nat /\ x <= y /\ y <= z
      BY <2>1, <2>2, <2>3, <2>4, LastIsHighest, FrameFields
    <3>2. x <= z
      BY ONLY <3>1
    <3> QED
      BY <3>2
  <2>6. frames' = frames
    <3>1. storage_len + I.n \in Int
      BY <1>1, <2>2
    <3> QED
      BY <1>3, <2>1, <2>5, <3>1, SurvivingAll
  <2>7. ASSUME SlicesLive, NEW i \in 1..Len(params) PROVE params[i] < storage_len'
    <3>1. params[i] \in Int
      BY <2>1, ParamType
    <3>2. CASE I.n < 0
      <4>1. Len(params) = ArgsEnd(n)
        <5>1. ArgsEnd(n) \in Nat /\ Len(params) = ArgsEnd(n) + 0
          BY <1>1, <3>2, OwnParams DEF Stepping
        <5> QED
          BY <5>1
      <4>2. i <= ArgsEnd(n)
        BY <2>2, <4>1
      <4>3. params[i] < frames[n].at - RetSize
        BY <2>1, <2>3, <2>7, <4>2 DEF PointersInv, ArgsOutlive
      <4>4. frames[n].at \in Nat
        BY <2>1, <2>3, FrameFields
      <4> QED
        BY <2>2, <2>4, <3>1, <4>3, <4>4
    <3>3. CASE ~(I.n < 0)
      <4>1. params[i] = Foreign \/ params[i] \in 0..(storage_len - 1)
        BY <2>1, <2>7 DEF PointersInv, LivePointers
      <4>2. storage_len <= storage_len'
        BY <1>1, <1>3, <2>2, <3>3
      <4> QED
        BY <2>2, <4>1, <4>2 DEF Foreign
    <3> QED
      BY <3>2, <3>3
  <2>8. mode' = "run"
    BY <1>3, ExecutingFacts DEF Next1, Go, control, Stepping
  <2> PICK o, len, d : o = Len(frames) /\ len = Len(params) /\ d = Len(crash_stack)
    OBVIOUS
  <2>9. /\ o \in 0..Len(frames) /\ frames' = SubSeq(frames, 1, o)
        /\ len \in 0..Len(params) /\ params' = SubSeq(params, 1, len)
        /\ d \in 0..Len(crash_stack) /\ crash_stack' = SubSeq(crash_stack, 1, d)
    BY <1>3, <2>2, <2>6, AllOf
  <2> QED
    BY <2>1, <2>7, <2>8, <2>9, StacksCut
<1> QED
  BY <1>2, <1>3 DEF StorageAdd

\* B_RET: what is left on the parameter stack is from before the call.
LEMMA RetPoints ==
  ASSUME NEW n, Stepping(n), Ret
  PROVE  PointersInv'
<1>1. /\ ControlInv /\ ControlInv' /\ PointersInv /\ TypeOK /\ Stacked
  BY DEF Stepping, Executing, ControlInv
<1>2. /\ n \in 1..Len(frames) /\ n = Len(frames) /\ base = frames[n].fn /\ At("RET")
  BY ExecutingFacts DEF Stepping, Ret
<1>3. /\ storage_len' = storage_len - RetSize /\ frames' = Front(frames)
      /\ params' = params /\ crash_stack' = crash_stack
  BY <1>2, ChecksPass DEF Stepping, Ret
<1>4. /\ storage_len = frames[n].at /\ frames[n].low <= Len(params)
      /\ Len(params) = frames[n].low + Args[base] - Ins[base]
  BY <1>2, RetState DEF Stepping
<1>5. /\ params \in Seq(Int) /\ frames \in Seq(Frame) /\ crash_stack \in Seq(Pad)
      /\ Len(params) \in Nat /\ Len(frames) \in Nat
  BY <1>1, SeqLen DEF TypeOK
<1>6. Len(params) <= ArgsEnd(n)
  <2> PICK l, a, i, e, len : /\ l = frames[n].low /\ a = Args[base] /\ i = Ins[base]
                             /\ e = ArgsEnd(n) /\ len = Len(params)
    OBVIOUS
  <2>1. l \in Nat /\ a \in Nat /\ i \in Nat /\ e = l + a /\ len = l + a - i
    BY <1>1, <1>2, <1>4, FrameFields, CertifiedAssumption DEF Certified, ArgsEnd
  <2>2. len <= e
    BY ONLY <2>1
  <2> QED
    BY <2>2
<1>7. SlicesLive => \A i \in 1..Len(params) : params[i] < storage_len'
  <2>1. SUFFICES ASSUME SlicesLive, NEW i \in 1..Len(params)
                 PROVE  params[i] < frames[n].at - RetSize
    BY <1>3, <1>4
  <2>2. ArgsEnd(n) \in Nat
    BY <1>1, <1>2, ArgsEndType
  <2>3. i <= ArgsEnd(n)
    BY <1>5, <1>6, <2>2
  <2> QED
    BY <1>1, <1>2, <2>1, <2>3 DEF PointersInv, ArgsOutlive
<1> PICK o, len, d : o = n - 1 /\ len = Len(params) /\ d = Len(crash_stack)
  OBVIOUS
<1>8. /\ len \in 0..Len(params) /\ params' = SubSeq(params, 1, len)
      /\ d \in 0..Len(crash_stack) /\ crash_stack' = SubSeq(crash_stack, 1, d)
  BY <1>3, <1>5, AllOf
<1>9. o \in 0..Len(frames) /\ frames' = SubSeq(frames, 1, o)
  BY <1>2, <1>3, <1>5 DEF Front
<1>10. ASSUME NEW m \in 1..o PROVE ArgsEnd(m) <= len
  <2>1. m \in 1..Len(frames) /\ m < n
    BY <1>2, <1>5
  <2>2. ArgsEnd(m) <= frames[n].low
    BY <1>1, <1>2, <2>1 DEF PointersInv, ArgsStacked
  <2>3. ArgsEnd(m) \in Nat /\ frames[n].low \in Nat
    BY <1>1, <1>2, <2>1, ArgsEndType
  <2> QED
    BY <1>4, <1>5, <2>2, <2>3
<1> QED
  BY <1>1, <1>7, <1>8, <1>9, <1>10, StacksCut

\* The crash frame on top leaves the activations up to its owner.
LEMMA PadSurvivors ==
  ASSUME TypeOK, Stacked, Pads, NEW k \in 1..Len(crash_stack)
  PROVE  /\ Surviving(crash_stack[k].storage_len)
              = SubSeq(frames, 1, crash_stack[k].owner)
         /\ frames[crash_stack[k].owner].at <= crash_stack[k].storage_len
<1> PICK o, sl : o = crash_stack[k].owner /\ sl = crash_stack[k].storage_len
  OBVIOUS
<1>1. o \in 1..Len(frames) /\ Len(frames) \in Nat /\ sl \in Nat
  BY PadOwner, PadFields, SeqLen DEF TypeOK
<1>2. frames[o].at <= sl
  <2>1. sl = frames[o].at + Static(o, crash_stack[k].pc).frame
        /\ Static(o, crash_stack[k].pc).frame \in Nat
    BY <1>1, PadState, StaticFacts
  <2> QED
    BY <1>1, <2>1, FrameFields
<1>3. ASSUME NEW m \in 1..o PROVE frames[m].at <= sl
  <2>1. m \in 1..Len(frames)
    BY <1>1
  <2>2. frames[m].at \in Nat /\ frames[o].at \in Nat
    BY <1>1, <2>1, FrameFields
  <2>3. CASE m < o
    <3>1. frames[m].at + RetSize <= frames[o].at
      BY <1>1, <2>1, <2>3 DEF Stacked
    <3> QED
      BY <1>1, <1>2, <2>2, <3>1, RetSizeAssumption
  <2>4. CASE m = o
    BY <1>2, <2>4
  <2> QED
    BY <1>1, <2>3, <2>4
<1>4. ASSUME o < Len(frames) PROVE frames[o + 1].at > sl
  <2>1. o + 1 \in 1..Len(frames) /\ o + 1 > o
    BY <1>1, <1>4
  <2>2. sl + RetSize <= frames[o + 1].at /\ frames[o + 1].at \in Nat
    BY <2>1, FrameFields DEF Pads, PadOK
  <2> QED
    BY <1>1, <2>2, RetSizeAssumption
<1>5. o \in 0..Len(frames) /\ sl \in Int
  BY <1>1
<1> QED
  BY <1>2, <1>3, <1>4, <1>5, SurvivingIs

\* A pad is entered with the arguments of its owner on the stack, and with its frame.
LEMMA EnterPadPoints ==
  ASSUME ControlInv, ControlInv', PointersInv, EnterPad
  PROVE  PointersInv'
<1>1. TypeOK /\ Stacked /\ Pads
  BY DEF ControlInv
<1>2. /\ crash_stack \in Seq(Pad) /\ Len(crash_stack) \in Nat /\ Len(params) \in Nat
      /\ crash_stack # <<>>
  BY <1>1, SeqLen DEF TypeOK, EnterPad
<1> PICK k : k = Len(crash_stack)
  OBVIOUS
<1> PICK o, sl, len, d :
      /\ o = crash_stack[k].owner /\ sl = crash_stack[k].storage_len
      /\ len = crash_stack[k].param_len /\ d = k - 1
  OBVIOUS
<1>3. k \in 1..Len(crash_stack) /\ Last(crash_stack) = crash_stack[k]
  BY <1>2 DEF Last
<1>4. /\ storage_len' = sl /\ frames' = Surviving(sl) /\ mode' = "run"
      /\ params' = SubSeq(params, 1, len) /\ crash_stack' = SubSeq(crash_stack, 1, d)
  BY <1>3 DEF EnterPad, RestoreStacks, PopFrame, Front
<1>5. o \in 1..Len(frames) /\ len = ArgsEnd(o) /\ len \in Nat /\ len <= Len(params)
  BY <1>1, <1>3, PadArgs
<1>6. frames' = SubSeq(frames, 1, o) /\ frames[o].at <= sl
  BY <1>1, <1>3, <1>4, PadSurvivors
<1>7. ASSUME SlicesLive, NEW i \in 1..len PROVE params[i] < storage_len'
  <2>1. i \in 1..Len(params) /\ i <= len
    BY <1>2, <1>5, <1>7
  <2>2. params[i] < frames[o].at - RetSize
    BY <1>5, <1>7, <2>1 DEF PointersInv, ArgsOutlive
  <2> PICK p, at : p = params[i] /\ at = frames[o].at
    OBVIOUS
  <2>3. p \in Int /\ at \in Nat /\ sl \in Nat /\ p < at - RetSize /\ at <= sl
    BY <1>1, <1>3, <1>5, <1>6, <2>1, <2>2, ParamType, FrameFields, PadFields
  <2>4. p < sl
    BY ONLY <2>3, RetSizeAssumption
  <2> QED
    BY <1>4, <2>4
<1>8. o \in 0..Len(frames) /\ len \in 0..Len(params) /\ d \in 0..Len(crash_stack)
  BY <1>2, <1>3, <1>5
<1> QED
  BY <1>4, <1>6, <1>7, <1>8, StacksCut

\* frontend_compile_source empties the stacks between runs.
LEMMA ResetPoints ==
  ASSUME ResetStacks
  PROVE  PointersInv'
<1>1. Len(frames') = 0 /\ Len(params') = 0 /\ Len(crash_stack') = 0
  BY DEF ResetStacks
<1> QED
  BY <1>1 DEF PointersInv, ArgsStacked, ArgsHeld, ArgsOutlive, LivePointers,
    PadsSeeTheirParams

-----------------------------------------------------------------------------
(* Steps that enter a function.                                            *)

\* The new activation's ReturnFrame is above all that the parameters point at, and
\* its arguments are above those of its callers.
LEMMA EnteredPoints ==
  ASSUME ControlInv, ControlInv', PointersInv, mode' = "run",
         NEW a \in Frame, frames' = Append(frames, a),
         a.at = storage_len + RetSize, storage_len' = storage_len + RetSize,
         params' = params, crash_stack' = crash_stack,
         \A m \in 1..Len(frames) : ArgsEnd(m) <= a.low
  PROVE  PointersInv'
<1>1. TypeOK
  BY DEF ControlInv
<1>2. /\ frames \in Seq(Frame) /\ Len(frames) \in Nat /\ storage_len \in Nat
      /\ Len(crash_stack) \in Nat /\ RetSize \in Nat \ {0}
  BY <1>1, SeqLen, RetSizeAssumption DEF TypeOK
<1> PICK top : top = Len(frames) + 1
  OBVIOUS
<1>3. /\ Len(frames') = top /\ frames'[top] = a
      /\ \A m \in 1..Len(frames) : frames'[m] = frames[m]
  BY <1>2, PushOn
<1>4. \A m \in 1..Len(frames) : ArgsEnd(m)' = ArgsEnd(m)
  BY <1>3 DEF ArgsEnd
<1>5. ASSUME NEW m \in 1..Len(frames')
      PROVE  m \in 1..Len(frames) \/ m = top
  BY <1>2, <1>3
<1>6. ArgsStacked'
  <2>1. SUFFICES ASSUME NEW m \in 1..Len(frames'), NEW n \in 1..Len(frames'), m < n
                 PROVE  ArgsEnd(m)' <= frames'[n].low
    BY DEF ArgsStacked
  <2>2. m \in 1..Len(frames)
    BY <1>2, <1>3, <2>1
  <2>3. CASE n \in 1..Len(frames)
    BY <1>3, <1>4, <2>1, <2>2, <2>3 DEF PointersInv, ArgsStacked
  <2>4. CASE n = top
    BY <1>3, <1>4, <2>2, <2>4
  <2> QED
    BY <1>5, <2>3, <2>4
<1>7. ArgsHeld'
  BY DEF ArgsHeld
<1>8. ASSUME SlicesLive, NEW i \in 1..Len(params), params[i] # Foreign
      PROVE  params[i] \in 0..(storage_len - 1)
  BY <1>8 DEF PointersInv, LivePointers
<1>9. ASSUME SlicesLive, NEW i \in 1..Len(params) PROVE params[i] < a.at - RetSize
  <2>1. a.at - RetSize = storage_len
    BY <1>2
  <2> QED
    BY <1>2, <1>8, <1>9, <2>1 DEF Foreign
<1>10. SlicesLive => ArgsOutlive'
  <2>1. SUFFICES ASSUME SlicesLive, NEW n \in 1..Len(frames'), NEW i \in 1..Len(params),
                        i <= ArgsEnd(n)'
                 PROVE  params[i] < frames'[n].at - RetSize
    BY DEF ArgsOutlive
  <2>2. CASE n \in 1..Len(frames)
    BY <1>3, <1>4, <2>1, <2>2 DEF PointersInv, ArgsOutlive
  <2>3. CASE n = top
    BY <1>3, <1>9, <2>1, <2>3
  <2> QED
    BY <1>5, <2>2, <2>3
<1>11. SlicesLive => LivePointers'
  <2>1. SUFFICES ASSUME SlicesLive, NEW i \in 1..Len(params), params[i] # Foreign
                 PROVE  /\ params[i] \in 0..(storage_len' - 1)
                        /\ \A n \in 1..Len(frames') :
                             ~(/\ frames'[n].at - RetSize <= params[i]
                               /\ params[i] < frames'[n].at)
    BY DEF LivePointers
  <2>2. params[i] \in 0..(storage_len' - 1)
    BY <1>2, <1>8, <2>1
  <2>3. ASSUME NEW n \in 1..Len(frames')
        PROVE  ~(frames'[n].at - RetSize <= params[i] /\ params[i] < frames'[n].at)
    <3>1. CASE n \in 1..Len(frames)
      BY <1>3, <2>1, <3>1 DEF PointersInv, LivePointers
    <3>2. CASE n = top
      <4>1. params[i] < storage_len /\ params[i] \in Int /\ a.at - RetSize = storage_len
        BY <1>2, <1>8, <2>1
      <4> QED
        BY <1>2, <1>3, <3>2, <4>1
    <3> QED
      BY <1>5, <3>1, <3>2
  <2> QED
    BY <2>2, <2>3
<1>12. PadsSeeTheirParams'
  BY DEF PointersInv, PadsSeeTheirParams
<1> QED
  BY <1>6, <1>7, <1>10, <1>11, <1>12 DEF PointersInv

\* B_CALL: the arguments are parameters of the caller's own.
LEMMA CallPoints ==
  ASSUME NEW n, Stepping(n), Call
  PROVE  PointersInv'
<1>1. /\ I.op = "CALL" /\ I.callee \in Func /\ I.argc = Args[I.callee]
      /\ Cert[base][pc].height >= I.argc /\ I.argc \in Nat
  <2>1. DOMAIN Args = Func /\ \A f \in Func : Args[f] \in Nat
    BY CertifiedAssumption DEF Certified
  <2> QED
    BY <2>1, ExecutingFacts, Contract DEF Call, At, StepOK, Stepping
<1>2. CASE UNCHANGED stacks
  BY <1>1, <1>2, StacksLeft
<1>3. CASE /\ UNCHANGED <<params, crash_stack>>
           /\ PushReturn([pc |-> pc + 1, base |-> base,
                          param_base |-> param_base], I.callee, I.argc)
           /\ UNCHANGED control
  <2>1. ControlInv /\ ControlInv' /\ PointersInv /\ TypeOK /\ TypeOK' /\ mode' = "run"
    BY <1>3, ExecutingFacts DEF Stepping, ControlInv, control
  <2> PICK a : a = [at |-> storage_len + RetSize, pc |-> pc + 1, base |-> base,
                    param_base |-> param_base, fn |-> I.callee,
                    low |-> Len(params) - I.argc, crash |-> Len(crash_stack)]
    OBVIOUS
  <2>2. a.at = storage_len + RetSize /\ a.low = Len(params) - I.argc
    OBVIOUS
  <2>3. frames' = Append(frames, a) /\ storage_len' = storage_len + RetSize
        /\ params' = params /\ crash_stack' = crash_stack
    BY <1>3 DEF PushReturn
  <2>4. a \in Frame
    <3>1. frames \in Seq(Frame) /\ frames' \in Seq(Frame) /\ Len(frames) \in Nat
      BY <2>1, SeqLen DEF TypeOK
    <3>2. frames'[Len(frames) + 1] = a /\ Len(frames') = Len(frames) + 1
      BY <2>3, <3>1
    <3> QED
      BY <3>1, <3>2
  <2>5. ASSUME NEW m \in 1..Len(frames) PROVE ArgsEnd(m) <= a.low
    <3> PICK e, f, h, l, c : /\ e = ArgsEnd(n) /\ f = ArgsEnd(m) /\ l = Len(params)
                             /\ h = Cert[base][pc].height /\ c = I.argc
      OBVIOUS
    <3>1. e \in Nat /\ l = e + h /\ h \in Int
      BY OwnParams DEF Stepping
    <3>2. f <= e /\ f \in Nat
      BY <2>1, HighestArgs, ArgsEndType DEF Stepping, PointersInv
    <3>3. f <= l - c
      <4>1. c \in Nat /\ h >= c
        BY <1>1
      <4> QED
        BY ONLY <3>1, <3>2, <4>1
    <3> QED
      BY <2>2, <3>3
  <2> QED
    BY <2>1, <2>2, <2>3, <2>4, <2>5, EnteredPoints
<1> QED
  BY <1>1, <1>2, <1>3, UnderflowPoints DEF Call, stacks, storage

\* A run of vm_run starts above whatever the ones before left.
LEMMA VmRunPoints ==
  ASSUME ControlInv, ControlInv', PointersInv, NEW g \in Entry, VmRun(g)
  PROVE  PointersInv'
<1>1. TypeOK /\ TypeOK' /\ mode = "idle" /\ params' = params /\ crash_stack' = crash_stack
  BY DEF ControlInv, VmRun
<1>2. CASE UNCHANGED <<mode, ans, cursor, storage>>
  <2>1. frames' = frames /\ storage_len' = storage_len
    BY <1>2 DEF storage
  <2> QED
    BY <1>1, <1>2, <2>1 DEF PointersInv, ArgsStacked, ArgsHeld, ArgsOutlive, ArgsEnd,
      LivePointers, PadsSeeTheirParams
<1>3. CASE PushReturn(NullFrame, g, 0) /\ mode' = "run"
  <2> PICK a : a = [at |-> storage_len + RetSize, pc |-> NullFrame.pc,
                    base |-> NullFrame.base, param_base |-> NullFrame.param_base,
                    fn |-> g, low |-> Len(params) - 0, crash |-> Len(crash_stack)]
    OBVIOUS
  <2>1. a.at = storage_len + RetSize /\ a.low = Len(params)
    BY <1>1, ParamType
  <2>2. frames' = Append(frames, a) /\ storage_len' = storage_len + RetSize
    BY <1>3 DEF PushReturn
  <2>3. a \in Frame
    <3>1. frames \in Seq(Frame) /\ frames' \in Seq(Frame) /\ Len(frames) \in Nat
      BY <1>1, SeqLen DEF TypeOK
    <3>2. frames'[Len(frames) + 1] = a /\ Len(frames') = Len(frames) + 1
      BY <2>2, <3>1
    <3> QED
      BY <3>1, <3>2
  <2>4. \A m \in 1..Len(frames) : ArgsEnd(m) <= a.low
    BY <1>1, <2>1 DEF PointersInv, ArgsHeld
  <2> QED
    BY <1>1, <1>3, <2>1, <2>2, <2>3, <2>4, EnteredPoints
<1> QED
  BY <1>2, <1>3 DEF VmRun

-----------------------------------------------------------------------------
(* The theorems.                                                           *)

\* Looking for a pad changes nothing until one is entered.
LEMMA SearchPoints ==
  ASSUME ControlInv, ControlInv', PointersInv, Uncaught
  PROVE  PointersInv'
<1>1. frames' = frames /\ storage_len' = storage_len /\ params' = params
      /\ crash_stack' = crash_stack /\ mode = "crash"
  BY DEF Uncaught, stacks
<1> QED
  BY <1>1 DEF PointersInv, ArgsStacked, ArgsHeld, ArgsOutlive, ArgsEnd, LivePointers,
    PadsSeeTheirParams

\* Every step of the machine keeps the invariant.
LEMMA StepPoints ==
  ASSUME ControlInv, PointersInv, Next
  PROVE  PointersInv'
<1>1. ControlInv'
  BY StepKeeps
<1>2. CASE Execute
  <2> PICK n : n = Len(frames)
    OBVIOUS
  <2>1. mode = "run"
    BY <1>2 DEF Execute, Ret, StorageAdd, PushVar, PushArg, PushGlobal, DropN, Pop1,
      Index, Top1, Jump, Branch, BranchTop, PushCrash, PopCrash, Crash, HardCrash,
      Done, Call, CallNative, At
  <2>2. Executing(n)
    BY <2>1, RunningState DEF Executing, ControlInv
  <2>3. Stepping(n)
    BY <1>1, <2>2 DEF Stepping
  <2>4. ~Branch /\ ~Done
    BY <2>2, ChecksPass DEF Branch, Done, At, Compiled
  <2> QED
    BY <1>2, <2>3, <2>4, RetPoints, StorageAddPoints, PushVarPoints, PushArgPoints,
       PushGlobalPoints, DropNPoints, Pop1Points, IndexPoints, OthersPoint,
       BranchTopPoints, PushCrashPoints, PopCrashPoints, CallPoints, CallNativePoints
       DEF Execute
<1>3. CASE Uncaught
  BY <1>1, <1>3, SearchPoints
<1>4. CASE DropBadFrame
  BY <1>4, NoBadFrame DEF DropBadFrame
<1>5. CASE EnterPad
  BY <1>1, <1>5, EnterPadPoints
<1>6. CASE ResetStacks
  BY <1>6, ResetPoints
<1>7. CASE \E g \in Entry : VmRun(g)
  BY <1>1, <1>7, VmRunPoints
<1> QED
  BY <1>2, <1>3, <1>4, <1>5, <1>6, <1>7 DEF Next, Machine, Unwind

\* In every run of vm_run on certified bytecode, on whatever earlier runs left: the
\* arguments of the activations lie above each other on the parameter stack, pads find
\* their parameters, and if slices are only indexed while their targets exist, what an
\* activation was given points below its frame and no pointer is dead
\* (vm.c:999-1060, 1188-1232, 1315-1389).
THEOREM PointersSafe == Spec => []PointersInv
<1>1. Init => ControlInv /\ PointersInv
  BY InitHolds DEF Init, PointersInv, ArgsStacked, ArgsHeld, ArgsOutlive, LivePointers,
    PadsSeeTheirParams
<1>2. (ControlInv /\ PointersInv) /\ [Next]_vars => (ControlInv /\ PointersInv)'
  <2>1. ASSUME PointersInv, UNCHANGED vars PROVE PointersInv'
    BY <2>1 DEF vars, PointersInv, ArgsStacked, ArgsHeld, ArgsOutlive, ArgsEnd,
      LivePointers, PadsSeeTheirParams
  <2> QED
    BY <2>1, StepKeeps, StutterKeeps, StepPoints
<1> QED
  BY <1>1, <1>2, PTL DEF Spec

\* The machine itself lets no pointer outlive what it points at, nor point into the
\* bytes of a ReturnFrame, however storage is cut by a return, by the end of a
\* variable's scope or by a pad (vm.c:1024, 973-985, 999-1017): if no dead pointer is
\* read out of a slice, into a variable of whichever activation it points
\* (vm.c:1226-1232), there is none on the parameter stack.
THEOREM PointersLive == SlicesLive => (Spec => []LivePointers)
<1> SUFFICES ASSUME SlicesLive PROVE Spec => []LivePointers
  OBVIOUS
<1>1. PointersInv => LivePointers
  BY DEF PointersInv
<1> QED
  BY <1>1, PointersSafe, PTL

\* A crash pad finds the parameter stack as it was at the start of the protected
\* region, pointers included (vm.c:915-931, 973-985): nothing that runs in between,
\* in this function or in those it calls, replaces a parameter below.  This needs
\* nothing of slices.
THEOREM PadsFindTheirParams == Spec => []PadsSeeTheirParams
<1>1. PointersInv => PadsSeeTheirParams
  BY DEF PointersInv
<1> QED
  BY <1>1, PointersSafe, PTL

\* On certified bytecode the operands are what the machine takes them for.
LEMMA CertifiedDecoded == ControlInv => Decoded
<1> SUFFICES ASSUME ControlInv, mode = "run" PROVE Decoded
  BY DEF Decoded, At
<1> PICK n : n = Len(frames)
  OBVIOUS
<1>1. Executing(n)
  BY RunningState DEF Executing, ControlInv
<1>2. StepOK(I, Cert[base], pc, Args, Ins, base)
  BY <1>1, ExecutingFacts, Contract
<1> QED
  BY <1>2 DEF StepOK, Decoded, At

\* So looking for a pad truncates the stacks (vm.c:973-985) with nothing more assumed.
THEOREM CertifiedUnwinding == Spec => UnwindTruncates
  BY CertifiedDecoded, ControlSafe, UnwindingTruncates, PTL

\* And a run of certified bytecode that ends at label crash reports its first error
\* (vm.c:1383-1388) with nothing more assumed.
THEOREM CertifiedErrors == Spec => FirstErrorWins
  BY CertifiedDecoded, ControlSafe, ErrorsStick, PTL
=============================================================================
