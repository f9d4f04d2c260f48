-------------------------- MODULE VMSafety_proofs --------------------------
(***************************************************************************)
(* Proofs of the safety of vm_run (src/vm.c) on certified bytecode, for    *)
(* any functions, any number of runs, any native results and any failures  *)
(* of realloc.                                                             *)
(*                                                                         *)
(* ControlInv is inductive.  Most instructions only move the top           *)
(* activation from one certified state to another (OneStep), or give up    *)
(* with the stacks in an order a pad can be entered from (StopsClean,      *)
(* StopsPopped); calls, returns, pads and runs have a lemma each.  Never   *)
(* failing a run time check (NoDefects) is not inductive without it.       *)
(*                                                                         *)
(* The last section needs no certificate: on any bytecode the first error  *)
(* is reported and looking for a pad only truncates the stacks.            *)
(***************************************************************************)
EXTENDS VMSafety, TLAPS

-----------------------------------------------------------------------------
(* Sequences.                                                              *)

\* The length of a sequence is a number.
LEMMA SeqLen ==
  ASSUME NEW S, NEW s \in Seq(S)
  PROVE  Len(s) \in Nat
  OBVIOUS

-----------------------------------------------------------------------------
(* Certificates.                                                           *)

\* The parts of Certified, one function and one instruction at a time.
LEMMA CertFacts ==
  ASSUME NEW f \in Func, NEW p \in DOMAIN Cert[f]
  PROVE  /\ p \in 1..Len(Code[f])
         /\ Cert[f][p].frame \in Nat
         /\ Cert[f][p].height \in Int
         /\ Cert[f][p].pads \in Seq(Nat \ {0})
         /\ PadsOK(Cert[f], p)
         /\ StepOK(Code[f][p], Cert[f], p, Args, Ins, f)
         /\ Args[f] \in Nat /\ Ins[f] \in Nat /\ Ins[f] <= Args[f]
  BY CertifiedAssumption DEF Certified, CodeOK

\* Below the arguments of a function there is nothing of its own, and only its
\* return takes the inputs away, after the last pad.
LEMMA HeightBound ==
  ASSUME NEW f \in Func, NEW p \in DOMAIN Cert[f]
  PROVE  /\ Cert[f][p].height >= -Ins[f]
         /\ Cert[f][p].height < 0 => Cert[f][p].pads = <<>>
<1>1. StepOK(Code[f][p], Cert[f], p, Args, Ins, f)
  BY CertFacts
<1>2. /\ Code[f][p].op = "RET" =>
           Cert[f][p].height = -Ins[f] /\ Cert[f][p].pads = <<>>
      /\ Code[f][p].op # "RET" => Cert[f][p].height >= 0
  BY <1>1 DEF StepOK
<1> QED
  BY <1>2, CertFacts

\* The first instruction of a function is certified with nothing on the stacks.
LEMMA FirstInstruction ==
  ASSUME NEW f \in Func
  PROVE  /\ 1 \in DOMAIN Cert[f]
         /\ Cert[f][1].frame = 0 /\ Cert[f][1].height = 0
         /\ Cert[f][1].pads = <<>>
  BY CertifiedAssumption DEF Certified, CodeOK

-----------------------------------------------------------------------------
(* The invariant, part by part.                                            *)

\* The fields of an activation.
LEMMA FrameFields ==
  ASSUME TypeOK, NEW n \in 1..Len(frames)
  PROVE  /\ Len(frames) \in Nat
         /\ frames[n] \in Frame
         /\ frames[n].at \in Nat /\ frames[n].pc \in Nat
         /\ frames[n].base \in Func \union {NoFunc}
         /\ frames[n].param_base \in Nat
         /\ frames[n].fn \in Func
         /\ frames[n].low \in Nat /\ frames[n].crash \in Nat
<1>1. Len(frames) \in Nat /\ frames[n] \in Frame
  BY DEF TypeOK
<1> QED
  BY <1>1 DEF Frame

\* The fields of a crash frame.
LEMMA PadFields ==
  ASSUME TypeOK, NEW k \in 1..Len(crash_stack)
  PROVE  /\ Len(crash_stack) \in Nat
         /\ crash_stack[k] \in Pad
         /\ crash_stack[k].pc \in Nat \ {0} /\ crash_stack[k].base \in Func
         /\ crash_stack[k].storage_len \in Nat /\ crash_stack[k].param_len \in Nat
         /\ crash_stack[k].param_base \in Nat
         /\ crash_stack[k].owner \in Nat \ {0}
         /\ crash_stack[k].saved \in Seq(Int)
<1>1. Len(crash_stack) \in Nat /\ crash_stack[k] \in Pad
  BY DEF TypeOK
<1> QED
  BY <1>1 DEF Pad

\* The owner of a crash frame is an activation on the stack.
LEMMA PadOwner ==
  ASSUME Pads, NEW k \in 1..Len(crash_stack)
  PROVE  crash_stack[k].owner \in 1..Len(frames)
  BY DEF Pads, PadOK

\* The static state of an activation is what its function is certified for.
LEMMA StaticFacts ==
  ASSUME TypeOK, NEW n \in 1..Len(frames), NEW p \in DOMAIN Cert[frames[n].fn]
  PROVE  /\ p \in Nat \ {0}
         /\ Static(n, p).frame \in Nat
         /\ Static(n, p).height \in Int
         /\ Static(n, p).pads \in Seq(Nat \ {0})
         /\ Len(Static(n, p).pads) \in Nat
         /\ Args[frames[n].fn] \in Nat /\ Ins[frames[n].fn] \in Nat
         /\ Ins[frames[n].fn] <= Args[frames[n].fn]
         /\ Static(n, p).height >= -Ins[frames[n].fn]
         /\ Static(n, p).height < 0 => Static(n, p).pads = <<>>
         /\ \A j \in 1..Len(Static(n, p).pads) :
              /\ Static(n, p).pads[j] \in DOMAIN Cert[frames[n].fn]
              /\ Static(n, Static(n, p).pads[j]).frame <= Static(n, p).frame
<1> DEFINE f == frames[n].fn
<1>1. f \in Func
  BY FrameFields
<1> HIDE DEF f
<1>2. p \in DOMAIN Cert[f]
  BY DEF f
<1>3. Static(n, p) = Cert[f][p] /\ \A q : Static(n, q) = Cert[f][q]
  BY DEF Static, f
<1>4. /\ p \in 1..Len(Code[f])
      /\ Cert[f][p].frame \in Nat /\ Cert[f][p].height \in Int
      /\ Cert[f][p].pads \in Seq(Nat \ {0})
      /\ PadsOK(Cert[f], p)
      /\ Args[f] \in Nat /\ Ins[f] \in Nat /\ Ins[f] <= Args[f]
  BY <1>1, <1>2, CertFacts
<1>5. /\ Cert[f][p].height >= -Ins[f]
      /\ Cert[f][p].height < 0 => Cert[f][p].pads = <<>>
  BY <1>1, <1>2, HeightBound
<1>6. \A j \in 1..Len(Cert[f][p].pads) :
        /\ Cert[f][p].pads[j] \in DOMAIN Cert[f]
        /\ Cert[f][Cert[f][p].pads[j]].frame <= Cert[f][p].frame
  BY <1>4 DEF PadsOK
<1>7. Len(Cert[f][p].pads) \in Nat
  BY <1>4, SeqLen
<1>8. p \in Nat \ {0}
  BY <1>4
<1> QED
  BY <1>3, <1>4, <1>5, <1>6, <1>7, <1>8 DEF f

\* What a crash frame restores, seen from the activation that owns it.
LEMMA PadState ==
  ASSUME TypeOK, Pads, NEW n \in 1..Len(frames),
         NEW k \in 1..Len(crash_stack), crash_stack[k].owner = n
  PROVE  /\ crash_stack[k].base = frames[n].fn
         /\ crash_stack[k].pc \in DOMAIN Cert[frames[n].fn]
         /\ crash_stack[k].storage_len = frames[n].at + Static(n, crash_stack[k].pc).frame
         /\ crash_stack[k].param_len = frames[n].low + Args[frames[n].fn]
         /\ k = frames[n].crash + Len(Static(n, crash_stack[k].pc).pads) + 1
         /\ k > frames[n].crash
<1>1. PadOK(k)
  BY DEF Pads
<1>2. /\ crash_stack[k].base = frames[n].fn
      /\ Matches(n, crash_stack[k].pc, crash_stack[k].storage_len,
                 crash_stack[k].param_len, k - 1)
      /\ Static(n, crash_stack[k].pc).height = 0
  BY <1>1 DEF PadOK
<1>3. /\ crash_stack[k].pc \in DOMAIN Cert[frames[n].fn]
      /\ crash_stack[k].storage_len = frames[n].at + Static(n, crash_stack[k].pc).frame
      /\ crash_stack[k].param_len = frames[n].low + Args[frames[n].fn] + 0
      /\ k - 1 = frames[n].crash + Len(Static(n, crash_stack[k].pc).pads)
  BY <1>2 DEF Matches
<1>4. /\ frames[n].low \in Nat /\ frames[n].crash \in Nat
      /\ Args[frames[n].fn] \in Nat
      /\ Len(Static(n, crash_stack[k].pc).pads) \in Nat
  BY <1>3, FrameFields, StaticFacts
<1>5. k \in Nat
  BY PadFields
<1> QED
  BY <1>2, <1>3, <1>4, <1>5

\* While activation n is at instruction p, a pad it owns is one of those in force
\* there, so that the storage it restores is not more than n has.
LEMMA PadBelow ==
  ASSUME TypeOK, Pads, NEW n \in 1..Len(frames), NEW p \in DOMAIN Cert[frames[n].fn],
         PadsInForce(n, p),
         NEW k \in 1..Len(crash_stack), crash_stack[k].owner = n,
         k <= frames[n].crash + Len(Static(n, p).pads)
  PROVE  crash_stack[k].storage_len <= frames[n].at + Static(n, p).frame
<1> DEFINE j == k - frames[n].crash
<1>1. /\ k > frames[n].crash
      /\ crash_stack[k].storage_len = frames[n].at + Static(n, crash_stack[k].pc).frame
      /\ crash_stack[k].pc \in DOMAIN Cert[frames[n].fn]
  BY PadState
<1>2. frames[n].crash \in Nat /\ frames[n].at \in Nat /\ k \in Nat
  BY FrameFields, PadFields
<1>3. Len(Static(n, p).pads) \in Nat /\ Static(n, p).frame \in Nat
  BY StaticFacts
<1>4. j \in 1..Len(Static(n, p).pads) /\ k = frames[n].crash + j
  BY <1>1, <1>2, <1>3
<1> HIDE DEF j
<1>5. crash_stack[k].pc = Static(n, p).pads[j]
  BY <1>4 DEF PadsInForce
<1>6. Static(n, crash_stack[k].pc).frame <= Static(n, p).frame
  BY <1>4, <1>5, StaticFacts
<1>7. Static(n, crash_stack[k].pc).frame \in Nat
  BY <1>1, StaticFacts
<1> QED
  BY <1>1, <1>2, <1>3, <1>6, <1>7

-----------------------------------------------------------------------------
(* What a step leaves alone.                                               *)

\* The static state of an activation that a step does not touch.
LEMMA StaticKept ==
  ASSUME NEW n, frames'[n] = frames[n]
  PROVE  \A p : Static(n, p)' = Static(n, p)
  BY DEF Static

\* So are the pads that are in force in it, if the step leaves those alone too.
LEMMA PadsInForceKept ==
  ASSUME TypeOK, NEW n \in 1..Len(frames), frames'[n] = frames[n],
         NEW p \in DOMAIN Cert[frames[n].fn], PadsInForce(n, p),
         \A j \in 1..(frames[n].crash + Len(Static(n, p).pads)) :
           crash_stack'[j] = crash_stack[j]
  PROVE  PadsInForce(n, p)'
<1>1. Static(n, p)' = Static(n, p)
  BY StaticKept
<1>2. frames[n].crash \in Nat /\ Len(Static(n, p).pads) \in Nat
  BY FrameFields, StaticFacts
<1>3. SUFFICES ASSUME NEW j \in 1..Len(Static(n, p).pads)
               PROVE  /\ crash_stack'[frames[n].crash + j].pc = Static(n, p).pads[j]
                      /\ crash_stack'[frames[n].crash + j].owner = n
  BY <1>1 DEF PadsInForce
<1>4. frames[n].crash + j \in 1..(frames[n].crash + Len(Static(n, p).pads))
  BY <1>2
<1>5. crash_stack'[frames[n].crash + j] = crash_stack[frames[n].crash + j]
  BY <1>4
<1> QED
  BY <1>5 DEF PadsInForce

\* A return frame still resumes the activation below when both are left alone and
\* no pad below it has changed.
LEMMA ResumesKept ==
  ASSUME TypeOK, NEW n \in 1..Len(frames), Resumes(n),
         frames'[n] = frames[n], n > 1 => frames'[n - 1] = frames[n - 1],
         \A j \in 1..frames[n].crash : crash_stack'[j] = crash_stack[j]
  PROVE  Resumes(n)'
<1> DEFINE a == frames[n]
<1>1. CASE a.pc = 0 /\ Args[a.fn] = 0
  BY <1>1 DEF Resumes
<1>2. CASE /\ n > 1
           /\ a.base = frames[n - 1].fn
           /\ ArgsAt(a.base, a.param_base, frames[n - 1].low)
           /\ Matches(n - 1, a.pc, a.at - RetSize, a.low + Args[a.fn] - Ins[a.fn],
                      a.crash)
           /\ PadsInForce(n - 1, a.pc)
  <2>1. n - 1 \in 1..Len(frames) /\ frames'[n - 1] = frames[n - 1]
    BY <1>2, FrameFields
  <2>2. /\ a.pc \in DOMAIN Cert[frames[n - 1].fn]
        /\ a.crash = frames[n - 1].crash + Len(Static(n - 1, a.pc).pads)
    BY <1>2 DEF Matches
  <2>3. PadsInForce(n - 1, a.pc)'
    BY <1>2, <2>1, <2>2, PadsInForceKept
  <2>4. Static(n - 1, a.pc)' = Static(n - 1, a.pc)
    BY <2>1, StaticKept
  <2> QED
    BY <1>2, <2>1, <2>3, <2>4 DEF Resumes, Matches, ArgsAt
<1> QED
  BY <1>1, <1>2 DEF Resumes

\* A crash frame stays enterable when its owner and the pads up to it are left
\* alone and the stacks and the activations above it leave it room.
LEMMA PadKept ==
  ASSUME TypeOK, Pads, NEW k \in 1..Len(crash_stack),
         NEW n \in 1..Len(frames), crash_stack[k].owner = n,
         Len(frames') \in Nat, n <= Len(frames'), frames'[n] = frames[n],
         \A j \in 1..k : crash_stack'[j] = crash_stack[j],
         crash_stack[k].storage_len <= storage_len',
         crash_stack[k].param_len <= Len(params'),
         \A m \in 1..Len(frames') : m > n =>
           /\ crash_stack[k].storage_len + RetSize <= frames'[m].at
           /\ crash_stack[k].param_len <= frames'[m].low
           /\ k <= frames'[m].crash
  PROVE  PadOK(k)'
<1> DEFINE c == crash_stack[k]
<1>1. PadOK(k)
  BY DEF Pads
<1>2. /\ c.base = frames[n].fn
      /\ ArgsAt(c.base, c.param_base, frames[n].low)
      /\ Matches(n, c.pc, c.storage_len, c.param_len, k - 1)
      /\ PadsInForce(n, c.pc)
      /\ Static(n, c.pc).height = 0
  BY <1>1 DEF PadOK
<1>3. /\ c.pc \in DOMAIN Cert[frames[n].fn]
      /\ k - 1 = frames[n].crash + Len(Static(n, c.pc).pads)
  BY <1>2 DEF Matches
<1>4. \A j \in 1..(frames[n].crash + Len(Static(n, c.pc).pads)) :
        crash_stack'[j] = crash_stack[j]
  BY <1>3, PadFields
<1>5. PadsInForce(n, c.pc)'
  BY <1>2, <1>3, <1>4, PadsInForceKept
<1>6. Static(n, c.pc)' = Static(n, c.pc)
  BY StaticKept
<1>7. Matches(n, c.pc, c.storage_len, c.param_len, k - 1)'
  BY <1>2, <1>6 DEF Matches
<1>8. crash_stack'[k] = c
  BY PadFields
<1>9. n \in 1..Len(frames')
  BY FrameFields
<1> QED
  BY <1>2, <1>5, <1>6, <1>7, <1>8, <1>9 DEF PadOK, ArgsAt

-----------------------------------------------------------------------------
(* The running activation.                                                 *)

Running1(n) ==
  /\ n = Len(frames) /\ n \in 1..Len(frames)
  /\ base = frames[n].fn /\ base \in Func
  /\ ArgsAt(base, param_base, frames[n].low)
  /\ pc \in DOMAIN Cert[frames[n].fn]
  /\ storage_len = frames[n].at + Static(n, pc).frame
  /\ Len(params) = frames[n].low + Args[frames[n].fn] + Static(n, pc).height
  /\ Len(crash_stack) = frames[n].crash + Len(Static(n, pc).pads)
  /\ PadsInForce(n, pc)
  /\ StepOK(I, Cert[base], pc, Args, Ins, base)
  /\ Static(n, pc) = Cert[base][pc]

\* While vm_run runs, the last activation is that of the running function, in the
\* static state of the instruction about to be executed.
LEMMA RunningState ==
  ASSUME TypeOK, Running, mode = "run"
  PROVE  Running1(Len(frames))
<1> DEFINE n == Len(frames)
<1>1. /\ frames # <<>>
      /\ base = frames[n].fn
      /\ ArgsAt(base, param_base, frames[n].low)
      /\ Matches(n, pc, storage_len, Len(params), Len(crash_stack))
      /\ PadsInForce(n, pc)
  BY DEF Running
<1>2. n \in 1..Len(frames)
  BY <1>1 DEF TypeOK
<1>3. base \in Func
  BY <1>1, <1>2, FrameFields
<1>4. pc \in DOMAIN Cert[frames[n].fn]
  BY <1>1 DEF Matches
<1>5. StepOK(I, Cert[base], pc, Args, Ins, base)
  BY <1>1, <1>3, <1>4, CertFacts DEF I
<1> QED
  BY <1>1, <1>2, <1>3, <1>4, <1>5 DEF Running1, Matches, Static

\* A pad restores no more parameters than the arguments of the running function,
\* and no more storage than any state with the same pads in force has.
LEMMA PadsFit ==
  ASSUME TypeOK, Stacked, Pads, NEW n, Running1(n),
         NEW q \in DOMAIN Cert[frames[n].fn], Static(n, q).pads = Static(n, pc).pads,
         NEW k \in 1..Len(crash_stack)
  PROVE  /\ crash_stack[k].storage_len <= frames[n].at + Static(n, q).frame
         /\ crash_stack[k].param_len <= frames[n].low + Args[frames[n].fn]
         /\ crash_stack[k].param_len
              <= frames[n].low + Args[frames[n].fn] + Static(n, q).height
<1> DEFINE o == crash_stack[k].owner
<1>1. n = Len(frames) /\ n \in 1..Len(frames) /\ o \in 1..n
  BY PadOwner DEF Running1
<1>2. /\ frames[n].at \in Nat /\ frames[n].low \in Nat /\ frames[n].crash \in Nat
      /\ k \in Nat /\ crash_stack[k].storage_len \in Nat
      /\ crash_stack[k].param_len \in Nat
  BY <1>1, FrameFields, PadFields
<1>3. /\ Static(n, q).frame \in Nat /\ Static(n, q).height \in Int
      /\ Len(Static(n, q).pads) \in Nat
      /\ Args[frames[n].fn] \in Nat
      /\ Static(n, q).height >= -Ins[frames[n].fn]
      /\ Ins[frames[n].fn] \in Nat /\ Ins[frames[n].fn] <= Args[frames[n].fn]
  BY <1>1, StaticFacts
<1>4. k <= frames[n].crash + Len(Static(n, q).pads)
  BY SMTT(40) DEF Running1
<1>5. CASE o = n
  <2>1. PadsInForce(n, q)
    BY DEF Running1, PadsInForce
  <2>2. crash_stack[k].storage_len <= frames[n].at + Static(n, q).frame
    BY <1>1, <1>4, <1>5, <2>1, PadBelow
  <2>3. crash_stack[k].param_len = frames[n].low + Args[frames[n].fn]
        /\ k > frames[n].crash
    BY <1>1, <1>5, PadState
  <2>4. Len(Static(n, q).pads) > 0
    BY <1>2, <1>3, <1>4, <2>3
  <2>5. ~(Static(n, q).height < 0)
    BY <1>1, <2>4, StaticFacts
  <2> QED
    BY <1>2, <1>3, <2>2, <2>3, <2>5
<1>6. CASE o < n
  <2>1. /\ crash_stack[k].storage_len + RetSize <= frames[n].at
        /\ crash_stack[k].param_len <= frames[n].low
    BY <1>1, <1>6 DEF Pads, PadOK
  <2>2. crash_stack[k].storage_len <= frames[n].at + Static(n, q).frame
    BY SMTT(40), <1>2, <1>3, <2>1, RetSizeAssumption
  <2>3. Args[frames[n].fn] + Static(n, q).height >= 0
    BY <1>3
  <2>4. crash_stack[k].param_len <= frames[n].low + Args[frames[n].fn]
    BY <1>2, <1>3, <2>1
  <2>5. crash_stack[k].param_len
          <= frames[n].low + (Args[frames[n].fn] + Static(n, q).height)
    <3> DEFINE d == Args[frames[n].fn] + Static(n, q).height
    <3>1. d \in Int /\ d >= 0
      BY <1>3, <2>3
    <3> HIDE DEF d
    <3>2. crash_stack[k].param_len <= frames[n].low + d
      BY <1>2, <2>1, <3>1
    <3> QED
      BY <3>2 DEF d
  <2>6. frames[n].low + (Args[frames[n].fn] + Static(n, q).height)
          = frames[n].low + Args[frames[n].fn] + Static(n, q).height
    BY <1>2, <1>3
  <2> QED
    BY <2>2, <2>4, <2>5, <2>6
<1> QED
  BY <1>1, <1>5, <1>6

\* No activation starts above the last one.
LEMMA LastIsHighest ==
  ASSUME TypeOK, Stacked, NEW n, n = Len(frames), n \in 1..Len(frames),
         NEW m \in 1..Len(frames)
  PROVE  /\ frames[m].at <= frames[n].at
         /\ frames[m].low <= frames[n].low
         /\ frames[m].crash <= frames[n].crash
<1>1. /\ frames[n].at \in Nat /\ frames[n].low \in Nat /\ frames[n].crash \in Nat
      /\ frames[m].at \in Nat
  BY FrameFields
<1>2. CASE m = n
  BY <1>1, <1>2
<1>3. CASE m < n
  BY <1>1, <1>3, RetSizeAssumption DEF Stacked
<1> QED
  BY <1>2, <1>3, FrameFields

\* A step that leaves the activations and the crash frames alone, and as much of
\* the stacks as these need, keeps the order of the stacks.
LEMMA StacksKept ==
  ASSUME TypeOK, Stacked, Suspended, Pads,
         frames' = frames, crash_stack' = crash_stack,
         \A m \in 1..Len(frames) :
           frames[m].at <= storage_len' /\ frames[m].low <= Len(params'),
         \A k \in 1..Len(crash_stack) :
           /\ crash_stack[k].storage_len <= storage_len'
           /\ crash_stack[k].param_len <= Len(params')
  PROVE  Stacked' /\ Suspended' /\ Pads'
<1>1. Stacked'
  BY DEF Stacked
<1>2. ASSUME NEW n \in 1..Len(frames) PROVE Resumes(n)'
  <2>1. Resumes(n)
    BY DEF Suspended
  <2> QED
    BY <2>1, ResumesKept
<1>3. ASSUME NEW k \in 1..Len(crash_stack) PROVE PadOK(k)'
  <2>1. PICK n \in 1..Len(frames) : crash_stack[k].owner = n
    BY PadOwner
  <2>2. n <= Len(frames)
    BY <2>1, FrameFields
  <2>3. \A m \in 1..Len(frames) : m > n =>
           /\ crash_stack[k].storage_len + RetSize <= frames[m].at
           /\ crash_stack[k].param_len <= frames[m].low
           /\ k <= frames[m].crash
    BY <2>1 DEF Pads, PadOK
  <2> QED
    BY <2>1, <2>2, <2>3, FrameFields, PadKept
<1> QED
  BY <1>1, <1>2, <1>3 DEF Suspended, Pads

\* vm_run stops, or goes to label crash, with the stacks as they are.
LEMMA StopsClean ==
  ASSUME ControlInv, mode' \in {"idle", "crash"}, runs' = runs,
         UNCHANGED cursor, UNCHANGED stacks
  PROVE  ControlInv'
<1> USE DEF ControlInv, cursor, stacks
<1>1. TypeOK'
  BY DEF TypeOK
<1>2. Stacked' /\ Suspended' /\ Pads'
  <2>1. \A m \in 1..Len(frames) :
          frames[m].at <= storage_len /\ frames[m].low <= Len(params)
    BY DEF Stacked
  <2>2. \A k \in 1..Len(crash_stack) :
           /\ crash_stack[k].storage_len <= storage_len
           /\ crash_stack[k].param_len <= Len(params)
    BY DEF Pads, PadOK
  <2> QED
    BY <2>1, <2>2, StacksKept
<1> QED
  BY <1>1, <1>2 DEF Running

\* vm_run stops, or goes to label crash, after it has popped parameters above the
\* arguments of the running function.
LEMMA StopsPopped ==
  ASSUME ControlInv, mode = "run", NEW n, Running1(n),
         mode' \in {"idle", "crash"}, runs' = runs,
         UNCHANGED cursor, UNCHANGED storage, UNCHANGED crash_stack,
         params' \in Seq(Int),
         frames[n].low + Args[frames[n].fn] <= Len(params')
  PROVE  ControlInv'
<1> USE DEF ControlInv, cursor, storage
<1>1. TypeOK'
  BY DEF TypeOK
<1>2. n = Len(frames) /\ n \in 1..Len(frames) /\ pc \in DOMAIN Cert[frames[n].fn]
  BY DEF Running1
<1>3. /\ frames[n].low \in Nat /\ Args[frames[n].fn] \in Nat /\ Len(params') \in Nat
      /\ frames[n].low <= frames[n].low + Args[frames[n].fn]
  <2>1. frames[n].low \in Nat /\ Args[frames[n].fn] \in Nat
    BY <1>2, FrameFields, StaticFacts
  <2>2. Len(params') \in Nat
    BY SeqLen
  <2> QED
    BY <2>1, <2>2
<1>4. \A m \in 1..Len(frames) :
        frames[m].at <= storage_len /\ frames[m].low <= Len(params')
  <2>1. SUFFICES ASSUME NEW m \in 1..Len(frames)
                 PROVE  frames[m].at <= storage_len /\ frames[m].low <= Len(params')
    OBVIOUS
  <2>2. frames[m].low <= frames[n].low /\ frames[m].low \in Nat
    BY <1>2, LastIsHighest, FrameFields
  <2>3. frames[m].low <= Len(params')
    BY <2>2, <1>3
  <2> QED
    BY <2>3 DEF Stacked
<1>5. \A k \in 1..Len(crash_stack) :
        /\ crash_stack[k].storage_len <= storage_len
        /\ crash_stack[k].param_len <= Len(params')
  <2>1. SUFFICES ASSUME NEW k \in 1..Len(crash_stack)
                 PROVE  /\ crash_stack[k].storage_len <= storage_len
                        /\ crash_stack[k].param_len <= Len(params')
    OBVIOUS
  <2>2. crash_stack[k].param_len <= frames[n].low + Args[frames[n].fn]
    BY <1>2, PadsFit
  <2>3. crash_stack[k].param_len <= Len(params')
    BY <2>2, <1>3, PadFields
  <2> QED
    BY <2>3 DEF Pads, PadOK
<1>6. Stacked' /\ Suspended' /\ Pads'
  BY <1>4, <1>5, StacksKept
<1> QED
  BY <1>1, <1>6 DEF Running

\* The running activation moves to another certified state, under the same pads.
LEMMA OneStep ==
  ASSUME ControlInv, mode = "run", NEW n, Running1(n),
         NEW q \in DOMAIN Cert[frames[n].fn], Static(n, q).pads = Static(n, pc).pads,
         pc' = q, UNCHANGED <<base, param_base, mode, runs>>,
         UNCHANGED <<frames, crash_stack>>,
         storage_len' = frames[n].at + Static(n, q).frame,
         params' \in Seq(Int),
         Len(params') = frames[n].low + Args[frames[n].fn] + Static(n, q).height
  PROVE  ControlInv'
<1> USE DEF ControlInv
<1>1. n = Len(frames) /\ n \in 1..Len(frames) /\ pc \in DOMAIN Cert[frames[n].fn]
  BY DEF Running1
<1>2. /\ frames[n].at \in Nat /\ frames[n].low \in Nat
      /\ Static(n, q).frame \in Nat /\ Len(params') \in Nat /\ q \in Nat
  BY <1>1, FrameFields, StaticFacts, SeqLen
<1>3. frames[n].low <= Len(params')
  <2>1. /\ Args[frames[n].fn] \in Nat /\ Ins[frames[n].fn] \in Nat
        /\ Ins[frames[n].fn] <= Args[frames[n].fn]
        /\ Static(n, q).height \in Int
        /\ Static(n, q).height >= -Ins[frames[n].fn]
    BY <1>1, StaticFacts
  <2> DEFINE a == Args[frames[n].fn]
             h == Static(n, q).height
             l == frames[n].low
             len == Len(params')
  <2>2. a \in Nat /\ h \in Int /\ a + h >= 0 /\ l \in Nat /\ len = l + a + h
    BY <2>1, <1>2
  <2> HIDE DEF a, h, l, len
  <2>3. l <= len
    BY <2>2
  <2> QED
    BY <2>3 DEF l, len
<1>4. TypeOK'
  <2>1. storage_len' \in Nat
    BY <1>2
  <2> QED
    BY <1>2, <2>1 DEF TypeOK
<1>5. \A m \in 1..Len(frames) :
        frames[m].at <= storage_len' /\ frames[m].low <= Len(params')
  <2>1. SUFFICES ASSUME NEW m \in 1..Len(frames)
                 PROVE  frames[m].at <= storage_len' /\ frames[m].low <= Len(params')
    OBVIOUS
  <2>2. /\ frames[m].low <= frames[n].low /\ frames[m].low \in Nat
        /\ frames[m].at <= frames[n].at /\ frames[m].at \in Nat
    BY <1>1, LastIsHighest, FrameFields
  <2>3. frames[m].low <= Len(params')
    BY <2>2, <1>2, <1>3
  <2>4. frames[m].at <= storage_len'
    BY <2>2, <1>2
  <2> QED
    BY <2>3, <2>4
<1>6. \A k \in 1..Len(crash_stack) :
        /\ crash_stack[k].storage_len <= storage_len'
        /\ crash_stack[k].param_len <= Len(params')
  BY <1>1, PadsFit
<1>7. Stacked' /\ Suspended' /\ Pads'
  BY <1>5, <1>6, StacksKept
<1>8. Running'
  <2>1. \A p : Static(n, p)' = Static(n, p)
    BY StaticKept
  <2>2. frames' # <<>> /\ base' = frames'[n].fn /\ n = Len(frames')
    BY SMTT(40), <1>1, FrameFields DEF Running1
  <2>3. ArgsAt(base, param_base, frames[n].low)'
    BY DEF Running1, ArgsAt
  <2>4. Len(crash_stack') = frames[n].crash + Len(Static(n, q).pads)
    BY DEF Running1
  <2>5. Matches(n, pc, storage_len, Len(params), Len(crash_stack))'
    BY <2>1, <2>4 DEF Matches
  <2>6. PadsInForce(n, pc)'
    <3>1. PadsInForce(n, pc)
      BY DEF Running1
    <3>2. Static(n, pc)'.pads = Static(n, pc).pads
      BY <2>1
    <3> QED
      BY <3>1, <3>2 DEF PadsInForce
  <2> QED
    BY <2>2, <2>3, <2>5, <2>6 DEF Running
<1> QED
  BY <1>4, <1>7, <1>8

-----------------------------------------------------------------------------
(* The instructions that stay in the running activation.                   *)

\* Where control goes, in terms of the activation.
LEMMA FlowState ==
  ASSUME NEW n, Running1(n), NEW q, NEW frame, NEW height, NEW pads,
         Flow(Cert[base], pc, q, frame, height, pads)
  PROVE  /\ q \in DOMAIN Cert[frames[n].fn]
         /\ Static(n, q).frame = Static(n, pc).frame + frame
         /\ Static(n, q).height = Static(n, pc).height + height
         /\ Static(n, q).pads = pads
<1>1. base = frames[n].fn /\ Static(n, pc) = Cert[base][pc]
  BY DEF Running1
<1>2. Static(n, q) = Cert[base][q]
  BY <1>1 DEF Static
<1> QED
  BY <1>1, <1>2 DEF Flow

\* An instruction that pushes or pops parameters.
LEMMA ParamStep ==
  ASSUME ControlInv, mode = "run", NEW n, Running1(n), NEW q, NEW d \in Int,
         Flow(Cert[base], pc, q, 0, d, Cert[base][pc].pads),
         Go(q), UNCHANGED storage, UNCHANGED crash_stack,
         params' \in Seq(Int), Len(params') = Len(params) + d
  PROVE  ControlInv'
<1>1. /\ q \in DOMAIN Cert[frames[n].fn]
      /\ Static(n, q).frame = Static(n, pc).frame + 0
      /\ Static(n, q).height = Static(n, pc).height + d
      /\ Static(n, q).pads = Cert[base][pc].pads
  BY FlowState
<1>2. Static(n, pc) = Cert[base][pc]
  BY DEF Running1
<1>3. n \in 1..Len(frames) /\ pc \in DOMAIN Cert[frames[n].fn]
  BY DEF Running1
<1>4. /\ frames[n].low \in Nat /\ Args[frames[n].fn] \in Nat
      /\ Static(n, pc).frame \in Nat /\ Static(n, pc).height \in Int
  <2>1. TypeOK
    BY DEF ControlInv
  <2> QED
    BY <1>3, <2>1, FrameFields, StaticFacts
<1>5. storage_len' = frames[n].at + Static(n, q).frame
  <2>1. storage_len' = storage_len /\ storage_len = frames[n].at + Static(n, pc).frame
    BY DEF Running1, storage
  <2>2. Static(n, q).frame = Static(n, pc).frame
    BY <1>1, <1>4
  <2> QED
    BY <2>1, <2>2
<1>6. Len(params') = frames[n].low + Args[frames[n].fn] + Static(n, q).height
  <2>1. Len(params) = frames[n].low + Args[frames[n].fn] + Static(n, pc).height
    BY DEF Running1
  <2> DEFINE h == Static(n, pc).height
             a == Args[frames[n].fn]
             l == frames[n].low
             g == Static(n, q).height
             len == Len(params')
  <2>2. /\ h \in Int /\ a \in Nat /\ l \in Nat /\ g = h + d /\ len = (l + a + h) + d
    BY <1>1, <1>4, <2>1
  <2> HIDE DEF h, a, l, g, len
  <2>3. len = l + a + g
    BY <2>2
  <2> QED
    BY <2>3 DEF h, a, l, g, len
<1> QED
  BY <1>1, <1>2, <1>5, <1>6, OneStep DEF Go, control, storage

\* vm_run returns, or goes to label crash, with the stacks as they are.
LEMMA GivesUp ==
  ASSUME ControlInv, NEW r, Return(r) \/ Fault(r), UNCHANGED stacks
  PROVE  ControlInv'
  BY StopsClean DEF Return, Fault

\* Cutting a stack to a length it has.
LEMMA CutTo ==
  ASSUME NEW S, NEW s \in Seq(S), NEW k \in 0..Len(s)
  PROVE  SubSeq(s, 1, k) \in Seq(S) /\ Len(SubSeq(s, 1, k)) = k
         /\ \A i \in 1..k : SubSeq(s, 1, k)[i] = s[i]
  OBVIOUS

\* Pushing on a stack.
LEMMA PushOn ==
  ASSUME NEW S, NEW s \in Seq(S), NEW e \in S
  PROVE  /\ Append(s, e) \in Seq(S) /\ Len(Append(s, e)) = Len(s) + 1
         /\ Append(s, e)[Len(s) + 1] = e
         /\ \A i \in 1..Len(s) : Append(s, e)[i] = s[i]
  OBVIOUS

\* vm->param_stack.len -= k, when there are that many.
LEMMA DropK ==
  ASSUME TypeOK, NEW k \in Nat, k <= Len(params), DropParams(k)
  PROVE  params' \in Seq(Int) /\ Len(params') = Len(params) - k
<1>1. params \in Seq(Int) /\ Len(params) \in Nat
  BY SeqLen DEF TypeOK
<1>2. Len(params) - k \in 0..Len(params)
  BY <1>1
<1> QED
  BY <1>1, <1>2, CutTo DEF DropParams

-----------------------------------------------------------------------------
(* One lemma per instruction.                                              *)

\* What the certificate says of the instruction about to be executed.
LEMMA Contract ==
  ASSUME NEW n, Running1(n)
  PROVE  StepOK(I, Cert[base], pc, Args, Ins, base)
  BY DEF Running1

\* A state in which an instruction is executed.
Executing(n) == ControlInv /\ mode = "run" /\ Running1(n)

\* The parts of it that the instructions rely on.
LEMMA ExecutingFacts ==
  ASSUME NEW n, Executing(n)
  PROVE  /\ ControlInv /\ TypeOK /\ mode = "run" /\ Running1(n)
         /\ params \in Seq(Int) /\ Len(params) \in Nat
         /\ storage_len \in Nat /\ pc \in Nat /\ param_base \in Nat
         /\ n \in 1..Len(frames) /\ n = Len(frames) /\ Len(frames) \in Nat
         /\ pc \in DOMAIN Cert[frames[n].fn] /\ base = frames[n].fn
         /\ frames[n].low \in Nat /\ frames[n].at \in Nat
         /\ Args[base] \in Nat
         /\ Cert[base][pc].frame \in Nat /\ Cert[base][pc].height \in Int
         /\ Len(params) = frames[n].low + Args[base] + Cert[base][pc].height
         /\ storage_len = frames[n].at + Cert[base][pc].frame
<1>1. /\ ControlInv /\ TypeOK /\ mode = "run" /\ Running1(n)
  BY DEF Executing, ControlInv
<1>2. /\ params \in Seq(Int) /\ storage_len \in Nat /\ pc \in Nat /\ param_base \in Nat
  BY <1>1 DEF TypeOK
<1>3. Len(params) \in Nat
  BY <1>2, SeqLen
<1>4. /\ n \in 1..Len(frames) /\ n = Len(frames)
      /\ pc \in DOMAIN Cert[frames[n].fn] /\ base = frames[n].fn
      /\ Static(n, pc) = Cert[base][pc]
      /\ storage_len = frames[n].at + Static(n, pc).frame
      /\ Len(params) = frames[n].low + Args[frames[n].fn] + Static(n, pc).height
  BY <1>1 DEF Running1
<1>5. /\ frames[n].low \in Nat /\ frames[n].at \in Nat /\ Len(frames) \in Nat
  BY <1>1, <1>4, FrameFields
<1>6. /\ Args[frames[n].fn] \in Nat
      /\ Static(n, pc).frame \in Nat /\ Static(n, pc).height \in Int
  BY <1>1, <1>4, StaticFacts
<1> QED
  BY <1>1, <1>2, <1>3, <1>4, <1>5, <1>6

\* The three pushes.
LEMMA PushStep ==
  ASSUME NEW n, Executing(n),
         Flow(Cert[base], pc, pc + 1, 0, 1, Cert[base][pc].pads),
         \E p \in Int : Push(p)
  PROVE  ControlInv'
<1> PICK e \in Int : Push(e)
  OBVIOUS
<1>1. /\ ControlInv /\ mode = "run" /\ Running1(n) /\ params \in Seq(Int)
  BY ExecutingFacts
<1>2. CASE Fault("OOM_PARAM") /\ UNCHANGED params
  BY <1>1, <1>2, GivesUp DEF Push, stacks, storage
<1>3. CASE PushParam(e) /\ Next1
  <2>1. params' \in Seq(Int) /\ Len(params') = Len(params) + 1
    BY <1>1, <1>3, PushOn DEF PushParam
  <2> QED
    BY <1>1, <1>3, <2>1, ParamStep DEF Push, Next1
<1> QED
  BY <1>2, <1>3 DEF Push

\* B_PUSH_VAR
LEMMA PushVarKeeps ==
  ASSUME NEW n, Executing(n), PushVar
  PROVE  ControlInv'
<1>1. /\ I.off \in Int
      /\ Flow(Cert[base], pc, pc + 1, 0, 1, Cert[base][pc].pads)
  BY ExecutingFacts, Contract DEF PushVar, At, StepOK
<1>2. CASE Return("INVALID_STORAGE_OFFSET") /\ UNCHANGED stacks
  BY <1>2, ExecutingFacts, GivesUp
<1>3. CASE Push(storage_len + I.off)
  <2>1. storage_len + I.off \in Int
    BY <1>1, ExecutingFacts
  <2> QED
    BY <1>1, <1>3, <2>1, PushStep
<1> QED
  BY <1>2, <1>3 DEF PushVar

\* B_PUSH_ARG
LEMMA PushArgKeeps ==
  ASSUME NEW n, Executing(n), PushArg
  PROVE  ControlInv'
<1>1. /\ I.idx \in Nat
      /\ Flow(Cert[base], pc, pc + 1, 0, 1, Cert[base][pc].pads)
  BY ExecutingFacts, Contract DEF PushArg, At, StepOK
<1>2. CASE Return("INVALID_ARG") /\ UNCHANGED stacks
  BY <1>2, ExecutingFacts, GivesUp
<1>3. CASE /\ param_base + I.idx < Len(params)
           /\ Push(params[param_base + I.idx + 1])
  <2>1. param_base + I.idx + 1 \in 1..Len(params)
    BY <1>1, <1>3, ExecutingFacts
  <2>2. params[param_base + I.idx + 1] \in Int
    BY <2>1, ExecutingFacts
  <2> QED
    BY <1>1, <1>3, <2>2, PushStep
<1> QED
  BY <1>2, <1>3 DEF PushArg

\* B_PUSH_GLOBAL
LEMMA PushGlobalKeeps ==
  ASSUME NEW n, Executing(n), PushGlobal
  PROVE  ControlInv'
<1>1. Flow(Cert[base], pc, pc + 1, 0, 1, Cert[base][pc].pads)
  BY ExecutingFacts, Contract DEF PushGlobal, At, StepOK
<1>2. CASE Return("NULL_GLOBAL") /\ UNCHANGED stacks
  BY <1>2, ExecutingFacts, GivesUp
<1>3. CASE Push(Foreign)
  BY <1>1, <1>3, PushStep DEF Foreign
<1> QED
  BY <1>2, <1>3 DEF PushGlobal

\* An instruction that finds too few parameters
LEMMA UnderflowKeeps ==
  ASSUME NEW n, Executing(n), NEW k, Underflow(k)
  PROVE  ControlInv'
  BY ExecutingFacts, GivesUp DEF Underflow

\* An instruction that pops k parameters
LEMMA PopStep ==
  ASSUME NEW n, Executing(n), NEW q, NEW k \in Nat, k <= Len(params),
         NEW d \in Int, d = -k,
         Flow(Cert[base], pc, q, 0, d, Cert[base][pc].pads),
         DropParams(k), Go(q), UNCHANGED <<storage, crash_stack>>
  PROVE  ControlInv'
<1>1. params' \in Seq(Int) /\ Len(params') = Len(params) - k
  BY ExecutingFacts, DropK
<1>2. Len(params') = Len(params) + d
  BY <1>1, ExecutingFacts
<1> QED
  BY <1>1, <1>2, ExecutingFacts, ParamStep

\* B_DROP_N
LEMMA DropNKeeps ==
  ASSUME NEW n, Executing(n), DropN
  PROVE  ControlInv'
<1>1. /\ I.n \in Nat
      /\ Flow(Cert[base], pc, pc + 1, 0, -I.n, Cert[base][pc].pads)
  BY ExecutingFacts, Contract DEF DropN, At, StepOK
<1>2. CASE Underflow(I.n)
  BY <1>2, ExecutingFacts, GivesUp DEF Underflow
<1>3. CASE /\ Len(params) >= I.n
           /\ DropParams(I.n) /\ Next1
           /\ UNCHANGED <<storage, crash_stack>>
  <2>1. PICK k \in Nat, d \in Int : k = I.n /\ d = -I.n
    BY <1>1
  <2> QED
    BY <1>1, <1>3, <2>1, PopStep DEF Next1
<1> QED
  BY <1>2, <1>3 DEF DropN

\* Popping one parameter, or some, of the function's own
LEMMA PopStops ==
  ASSUME NEW n, Executing(n), NEW k \in Nat, Cert[base][pc].height >= k,
         DropParams(k), UNCHANGED <<storage, crash_stack>>,
         \E r : Return(r) \/ Fault(r)
  PROVE  ControlInv'
<1>1. k <= Len(params) /\ frames[n].low + Args[base] <= Len(params) - k
  BY ExecutingFacts
<1>2. params' \in Seq(Int) /\ Len(params') = Len(params) - k
  BY <1>1, ExecutingFacts, DropK
<1> QED
  BY <1>1, <1>2, ExecutingFacts, StopsPopped DEF Return, Fault

\* B_COPY, the arithmetic and the other instructions that pop a source
LEMMA Pop1Keeps ==
  ASSUME NEW n, Executing(n), Pop1
  PROVE  ControlInv'
<1>1. /\ Cert[base][pc].height >= 2
      /\ Flow(Cert[base], pc, pc + 1, 0, -1, Cert[base][pc].pads)
  BY ExecutingFacts, Contract DEF Pop1, At, StepOK
<1>2. CASE Underflow(2)
  BY <1>2, UnderflowKeeps
<1>3. CASE /\ Len(params) >= 2
           /\ DropParams(1)
           /\ UNCHANGED <<storage, crash_stack>>
           /\ \E r \in I.faults : Fault(r)
  <2>1. Cert[base][pc].height >= 1
    BY <1>1, ExecutingFacts
  <2> QED
    BY <1>3, <2>1, PopStops
<1>4. CASE /\ Len(params) >= 2
           /\ DropParams(1)
           /\ UNCHANGED <<storage, crash_stack>>
           /\ Next1
  <2>1. PICK d \in Int : d = -1
    OBVIOUS
  <2> QED
    BY <1>1, <1>4, <2>1, PopStep DEF Next1
<1> QED
  BY <1>2, <1>3, <1>4 DEF Pop1

\* A pointer out of a slice is one, whatever it points at.
LEMMA SliceTargetsType == SliceTargets \subseteq Int
<1>1. 0..(MaxStorage - 1) \subseteq Int
  BY StorageAssumption
<1> QED
  BY <1>1 DEF SliceTargets, Foreign

\* B_PUSH_ARR_AT and B_PUSH_SLICE_AT
LEMMA IndexKeeps ==
  ASSUME NEW n, Executing(n), Index
  PROVE  ControlInv'
<1>1. /\ Cert[base][pc].height >= 2
      /\ Flow(Cert[base], pc, pc + 1, 0, -1, Cert[base][pc].pads)
  BY ExecutingFacts, Contract DEF Index, At, StepOK
<1>2. CASE Underflow(2)
  BY <1>2, UnderflowKeeps
<1>3. CASE /\ UNCHANGED <<storage, crash_stack>>
           /\ Fault("ARRAY_BOUNDS") /\ DropParams(1)
  <2>1. Cert[base][pc].height >= 1
    BY <1>1, ExecutingFacts
  <2> QED
    BY <1>3, <2>1, PopStops
<1>4. CASE /\ Len(params) >= 2
           /\ UNCHANGED <<storage, crash_stack>>
           /\ \E p \in IF I.slice THEN SliceTargets ELSE {params[Len(params) - 1]} :
                params' = Append(SubSeq(params, 1, Len(params) - 2), p)
           /\ Next1
  <2>1. PICK e \in Int : params' = Append(SubSeq(params, 1, Len(params) - 2), e)
    BY <1>4, SliceTargetsType, ExecutingFacts
  <2>2. Len(params) - 2 \in 0..Len(params)
    BY <1>4, ExecutingFacts
  <2>3. /\ SubSeq(params, 1, Len(params) - 2) \in Seq(Int)
        /\ Len(SubSeq(params, 1, Len(params) - 2)) = Len(params) - 2
    BY <2>2, ExecutingFacts, CutTo
  <2>4. params' \in Seq(Int) /\ Len(params') = Len(params) - 2 + 1
    BY <1>4, <2>1, <2>3, PushOn
  <2>5. PICK d \in Int : d = -1
    OBVIOUS
  <2>6. Len(params') = Len(params) + d
    BY <2>4, <2>5, ExecutingFacts
  <2> QED
    BY <1>1, <1>4, <2>4, <2>5, <2>6, ExecutingFacts, ParamStep DEF Next1
<1> QED
  BY <1>2, <1>3, <1>4 DEF Index

\* An instruction that leaves the stacks alone
LEMMA StayStep ==
  ASSUME NEW n, Executing(n), NEW q,
         Flow(Cert[base], pc, q, 0, 0, Cert[base][pc].pads),
         Go(q), UNCHANGED stacks
  PROVE  ControlInv'
<1>1. PICK d \in Int : d = 0
  OBVIOUS
<1>2. params' = params /\ UNCHANGED storage /\ UNCHANGED crash_stack
  BY DEF stacks, storage
<1>3. params' \in Seq(Int) /\ Len(params') = Len(params) + d
  BY <1>1, <1>2, ExecutingFacts
<1> QED
  BY <1>1, <1>2, <1>3, ExecutingFacts, ParamStep

\* B_BIT_NOT and B_PUSH_STRUCT_AT
LEMMA Top1Keeps ==
  ASSUME NEW n, Executing(n), Top1
  PROVE  ControlInv'
<1>1. Flow(Cert[base], pc, pc + 1, 0, 0, Cert[base][pc].pads)
  BY ExecutingFacts, Contract DEF Top1, At, StepOK
<1>2. CASE Underflow(1)
  BY <1>2, UnderflowKeeps
<1>3. CASE Next1 /\ UNCHANGED stacks
  BY <1>1, <1>3, StayStep DEF Next1
<1> QED
  BY <1>2, <1>3 DEF Top1

\* B_JUMP
LEMMA JumpKeeps ==
  ASSUME NEW n, Executing(n), Jump
  PROVE  ControlInv'
<1>1. Flow(Cert[base], pc, I.target, 0, 0, Cert[base][pc].pads)
  BY ExecutingFacts, Contract DEF Jump, At, StepOK
<1> QED
  BY <1>1, StayStep DEF Jump

\* B_BRANCH_TOP
LEMMA BranchTopKeeps ==
  ASSUME NEW n, Executing(n), BranchTop
  PROVE  ControlInv'
<1>1. /\ Flow(Cert[base], pc, I.yes, 0, -1, Cert[base][pc].pads)
      /\ Flow(Cert[base], pc, I.no, 0, -1, Cert[base][pc].pads)
  BY ExecutingFacts, Contract DEF BranchTop, At, StepOK
<1>2. CASE Underflow(1)
  BY <1>2, UnderflowKeeps
<1>3. CASE /\ Len(params) >= 1
           /\ DropParams(1)
           /\ Go(I.yes) \/ Go(I.no)
           /\ UNCHANGED <<storage, crash_stack>>
  <2>1. PICK d \in Int : d = -1
    OBVIOUS
  <2>2. PICK q : Go(q) /\ Flow(Cert[base], pc, q, 0, d, Cert[base][pc].pads)
    BY <1>1, <1>3, <2>1
  <2> QED
    BY <1>3, <2>1, <2>2, PopStep
<1> QED
  BY <1>2, <1>3 DEF BranchTop

\* B_CALL_NATIVE
LEMMA CallNativeKeeps ==
  ASSUME NEW n, Executing(n), CallNative
  PROVE  ControlInv'
<1>1. /\ I.argc \in Nat /\ Cert[base][pc].height >= I.argc + 1
      /\ Flow(Cert[base], pc, pc + 1, 0, -(I.argc + 1), Cert[base][pc].pads)
  BY ExecutingFacts, Contract DEF CallNative, At, StepOK
<1>2. CASE Underflow(1)
  BY <1>2, UnderflowKeeps
<1>3. CASE /\ UNCHANGED <<storage, crash_stack>>
           /\ DropParams(1)
           /\ \E r : Return(r) \/ Fault(r)
  <2>1. Cert[base][pc].height >= 1
    BY <1>1, ExecutingFacts
  <2> QED
    BY <1>3, <2>1, PopStops
<1>4. CASE /\ Len(params) - 1 >= I.argc
           /\ UNCHANGED <<storage, crash_stack>>
           /\ DropParams(I.argc + 1) /\ Next1
  <2>1. PICK k \in Nat, d \in Int : k = I.argc + 1 /\ d = -(I.argc + 1)
    BY <1>1
  <2>2. k <= Len(params) /\ d = -k
    BY <1>1, <1>4, <2>1, ExecutingFacts
  <2> QED
    BY <1>1, <1>4, <2>1, <2>2, PopStep DEF Next1
<1> QED
  BY <1>2, <1>3, <1>4 DEF CallNative

\* B_CRASH and B_HARD_CRASH
LEMMA CrashKeeps ==
  ASSUME NEW n, Executing(n), Crash \/ HardCrash
  PROVE  ControlInv'
  BY ExecutingFacts, GivesUp DEF Crash, HardCrash

-----------------------------------------------------------------------------
(* Storage.                                                                *)

\* The return frames that survive a cut of storage are the lowest ones, if these
\* end below the cut and the next one does not.
LEMMA SurvivingIs ==
  ASSUME TypeOK, NEW len \in Int, NEW k \in 0..Len(frames),
         \A i \in 1..k : frames[i].at <= len,
         k < Len(frames) => frames[k + 1].at > len
  PROVE  Surviving(len) = SubSeq(frames, 1, k)
<1> DEFINE P(m) == /\ \A i \in 1..m : frames[i].at <= len
                   /\ m < Len(frames) => frames[m + 1].at > len
<1>1. k \in Nat /\ Len(frames) \in Nat /\ k \in 0..Len(frames) /\ P(k)
  <2>1. Len(frames) \in Nat
    BY SeqLen DEF TypeOK
  <2> QED
    BY <2>1
<1>2. ASSUME NEW m \in 0..Len(frames), P(m) PROVE m = k
  <2>1. CASE m < k
    <3>1. m + 1 \in 1..k /\ m + 1 \in 1..Len(frames)
      BY <1>1, <2>1
    <3>2. frames[m + 1].at <= len /\ frames[m + 1].at > len
      BY <1>1, <1>2, <2>1, <3>1
    <3> QED
      BY <3>1, <3>2, FrameFields
  <2>2. CASE k < m
    <3>1. k + 1 \in 1..m /\ k + 1 \in 1..Len(frames)
      BY <1>1, <2>2
    <3>2. frames[k + 1].at <= len /\ frames[k + 1].at > len
      BY <1>1, <1>2, <2>2, <3>1
    <3> QED
      BY <3>1, <3>2, FrameFields
  <2> QED
    BY <1>1, <2>1, <2>2
<1>3. (CHOOSE m \in 0..Len(frames) : P(m)) = k
  <2> HIDE DEF P
  <2> QED
    BY <1>1, <1>2
<1> QED
  BY <1>3 DEF Surviving

\* They are all of them if all end below the cut.
LEMMA SurvivingAll ==
  ASSUME TypeOK, NEW len \in Int, \A i \in 1..Len(frames) : frames[i].at <= len
  PROVE  Surviving(len) = frames
<1>1. Len(frames) \in Nat /\ frames \in Seq(Frame)
  BY SeqLen DEF TypeOK
<1>2. Surviving(len) = SubSeq(frames, 1, Len(frames))
  BY <1>1, SurvivingIs
<1> QED
  BY <1>1, <1>2

\* B_STORAGE_ADD
LEMMA StorageAddKeeps ==
  ASSUME NEW n, Executing(n), StorageAdd
  PROVE  ControlInv'
<1>1. /\ I.n \in Int
      /\ Flow(Cert[base], pc, pc + 1, I.n, 0, Cert[base][pc].pads)
  BY ExecutingFacts, Contract DEF StorageAdd, At, StepOK
<1>2. CASE /\ UNCHANGED <<params, crash_stack>>
           /\ UNCHANGED storage
           /\ \E r : Fault(r)
  BY <1>2, ExecutingFacts, GivesUp DEF stacks, storage
<1>3. CASE /\ UNCHANGED <<params, crash_stack>>
           /\ storage_len' = storage_len + I.n
           /\ frames' = Surviving(storage_len + I.n)
           /\ Next1
  <2> DEFINE q == pc + 1
             len == storage_len + I.n
  <2>1. /\ q \in DOMAIN Cert[frames[n].fn]
        /\ Static(n, q).frame = Static(n, pc).frame + I.n
        /\ Static(n, q).height = Static(n, pc).height + 0
        /\ Static(n, q).pads = Static(n, pc).pads
    BY <1>1, ExecutingFacts, FlowState DEF Running1
  <2>2. /\ TypeOK /\ Stacked /\ Running1(n) /\ ControlInv /\ mode = "run"
    BY ExecutingFacts DEF ControlInv
  <2>3. /\ n \in 1..Len(frames) /\ n = Len(frames)
        /\ pc \in DOMAIN Cert[frames[n].fn]
        /\ storage_len = frames[n].at + Static(n, pc).frame
        /\ Len(params) = frames[n].low + Args[frames[n].fn] + Static(n, pc).height
    BY <2>2 DEF Running1
  <2>4. /\ frames[n].at \in Nat
        /\ Static(n, pc).frame \in Nat /\ Static(n, pc).height \in Int
        /\ Static(n, q).frame \in Nat
    BY <2>1, <2>2, <2>3, FrameFields, StaticFacts
  <2>5. len = frames[n].at + Static(n, q).frame
    <3> DEFINE d == I.n
               f == Static(n, pc).frame
    <3>1. d \in Int /\ f \in Int /\ Static(n, q).frame = f + d
      BY <1>1, <2>1, <2>4
    <3>2. len = (frames[n].at + f) + d
      BY <2>3
    <3> HIDE DEF d, f, len
    <3> QED
      BY <2>4, <3>1, <3>2
  <2>6. Static(n, q).height = Static(n, pc).height
    BY <2>1, <2>4
  <2>7. ASSUME NEW m \in 1..Len(frames) PROVE frames[m].at <= len
    <3>1. frames[m].at <= frames[n].at /\ frames[m].at \in Nat
      BY <2>2, <2>3, LastIsHighest, FrameFields
    <3> QED
      BY <2>4, <2>5, <3>1
  <2>8. frames' = frames
    <3>1. len \in Int
      BY <2>4, <2>5
    <3>2. Surviving(len) = frames
      BY <2>2, <2>7, <3>1, SurvivingAll
    <3> QED
      BY <1>3, <3>2
  <2>9. /\ params' \in Seq(Int) /\ storage_len' = frames[n].at + Static(n, q).frame
        /\ Len(params') = frames[n].low + Args[frames[n].fn] + Static(n, q).height
    BY <1>3, <2>3, <2>5, <2>6, ExecutingFacts
  <2>10. pc' = q /\ UNCHANGED <<base, param_base, mode, runs>>
    BY <1>3 DEF Next1, Go, control
  <2> HIDE DEF q
  <2> QED
    BY <1>3, <2>1, <2>2, <2>8, <2>9, <2>10, OneStep
<1> QED
  BY <1>2, <1>3 DEF StorageAdd

-----------------------------------------------------------------------------
(* Crash pads.                                                             *)

\* A step that changes only the crash stack, above all that any caller relies on.
LEMMA CrashStackChanged ==
  ASSUME TypeOK, Stacked, Suspended, Pads,
         frames' = frames, storage_len' = storage_len, params' = params,
         NEW d \in Nat, d <= Len(crash_stack), d <= Len(crash_stack'),
         Len(crash_stack') \in Nat,
         \A j \in 1..d : crash_stack'[j] = crash_stack[j],
         \A m \in 1..Len(frames) : frames[m].crash <= d
  PROVE  Stacked' /\ Suspended' /\ \A k \in 1..d : PadOK(k)'
<1>1. Stacked'
  <2>1. ASSUME NEW m \in 1..Len(frames) PROVE frames[m].crash <= Len(crash_stack')
    BY FrameFields
  <2> QED
    BY <2>1 DEF Stacked
<1>2. ASSUME NEW n \in 1..Len(frames) PROVE Resumes(n)'
  <2>1. Resumes(n)
    BY DEF Suspended
  <2>2. \A j \in 1..frames[n].crash : j \in 1..d
    BY FrameFields
  <2> QED
    BY <2>1, <2>2, ResumesKept
<1>3. ASSUME NEW k \in 1..d PROVE PadOK(k)'
  <2>1. k \in 1..Len(crash_stack) /\ \A j \in 1..k : j \in 1..d
    BY SeqLen DEF TypeOK
  <2>2. PICK n \in 1..Len(frames) : crash_stack[k].owner = n
    BY <2>1, PadOwner
  <2>3. n <= Len(frames) /\ Len(frames) \in Nat
    BY <2>2, FrameFields
  <2>4. /\ crash_stack[k].storage_len <= storage_len
        /\ crash_stack[k].param_len <= Len(params)
        /\ \A m \in 1..Len(frames) : m > n =>
             /\ crash_stack[k].storage_len + RetSize <= frames[m].at
             /\ crash_stack[k].param_len <= frames[m].low
             /\ k <= frames[m].crash
    BY <2>1, <2>2 DEF Pads, PadOK
  <2> QED
    BY <2>1, <2>2, <2>3, <2>4, PadKept
<1> QED
  BY <1>1, <1>2, <1>3 DEF Suspended

\* B_POP_CRASH
LEMMA PopCrashKeeps ==
  ASSUME NEW n, Executing(n), PopCrash
  PROVE  ControlInv'
<1>1. /\ Cert[base][pc].pads # <<>>
      /\ Flow(Cert[base], pc, pc + 1, 0, 0,
              SubSeq(Cert[base][pc].pads, 1, Len(Cert[base][pc].pads) - 1))
  BY ExecutingFacts, Contract DEF PopCrash, At, StepOK
<1>2. CASE /\ UNCHANGED <<storage, params>>
           /\ Return("CRASH_UNDERFLOW") /\ UNCHANGED crash_stack
  BY <1>2, ExecutingFacts, GivesUp DEF stacks, storage
<1>3. CASE /\ UNCHANGED <<storage, params>>
           /\ PopFrame /\ Next1
  <2> DEFINE q == pc + 1
             old == Static(n, pc).pads
             new == Static(n, q).pads
             d == Len(crash_stack) - 1
  <2>1. /\ TypeOK /\ Stacked /\ Suspended /\ Pads /\ Running1(n) /\ mode = "run"
        /\ n = Len(frames) /\ n \in 1..Len(frames)
        /\ pc \in DOMAIN Cert[frames[n].fn] /\ old = Cert[base][pc].pads
        /\ Len(crash_stack) = frames[n].crash + Len(old)
    BY ExecutingFacts DEF ControlInv, Running1
  <2>2. /\ q \in DOMAIN Cert[frames[n].fn]
        /\ Static(n, q).frame = Static(n, pc).frame + 0
        /\ Static(n, q).height = Static(n, pc).height + 0
        /\ new = SubSeq(old, 1, Len(old) - 1)
    <3>1. PICK cut, z : cut = SubSeq(old, 1, Len(old) - 1) /\ z = 0
      OBVIOUS
    <3>2. Flow(Cert[base], pc, q, z, z, cut)
      BY <1>1, <2>1, <3>1
    <3> HIDE DEF q
    <3>3. /\ q \in DOMAIN Cert[frames[n].fn]
          /\ Static(n, q).frame = Static(n, pc).frame + z
          /\ Static(n, q).height = Static(n, pc).height + z
          /\ Static(n, q).pads = cut
      BY <2>1, <3>2, FlowState
    <3> QED
      BY <3>1, <3>3
  <2>3. old \in Seq(Nat \ {0}) /\ old # <<>>
    BY <1>1, <2>1, StaticFacts
  <2>4. Len(old) \in Nat \ {0}
    BY <2>3
  <2>5. /\ Len(new) = Len(old) - 1
        /\ \A j \in 1..Len(new) : new[j] = old[j] /\ j \in 1..Len(old)
    <3>1. Len(old) - 1 \in 0..Len(old)
      BY <2>4
    <3> HIDE DEF old, new
    <3>2. Len(new) = Len(old) - 1 /\ \A j \in 1..(Len(old) - 1) : new[j] = old[j]
      BY <2>2, <2>3, <3>1, CutTo
    <3> QED
      BY <2>4, <3>2
  <2>6. crash_stack \in Seq(Pad) /\ frames[n].crash \in Nat /\ Len(crash_stack) \in Nat
    BY <2>1, FrameFields, SeqLen DEF TypeOK
  <2>7. d \in 0..Len(crash_stack) /\ d = frames[n].crash + Len(new) /\ d \in Nat
    <3>1. Len(crash_stack) = frames[n].crash + Len(old)
      BY <2>1
    <3>2. Len(new) = Len(old) - 1
      BY <2>5
    <3> HIDE DEF old, new
    <3> QED
      BY <2>4, <2>6, <3>1, <3>2
  <2>8. /\ crash_stack' \in Seq(Pad) /\ Len(crash_stack') = d
        /\ \A j \in 1..d : crash_stack'[j] = crash_stack[j]
    BY <1>3, <2>6, <2>7, CutTo DEF PopFrame, Front
  <2>9. frames' = frames /\ storage_len' = storage_len /\ params' = params
    BY <1>3 DEF storage
  <2> HIDE DEF old, new, d, q
  <2>10. ASSUME NEW m \in 1..Len(frames) PROVE frames[m].crash <= d
    <3>1. frames[m].crash <= frames[n].crash /\ frames[m].crash \in Nat
      BY <2>1, LastIsHighest, FrameFields
    <3>2. Len(new) \in Nat
      BY <2>4, <2>5
    <3> QED
      BY <2>6, <2>7, <3>1, <3>2
  <2>11. Stacked' /\ Suspended' /\ \A k \in 1..d : PadOK(k)'
    <3>1. d <= Len(crash_stack) /\ d <= Len(crash_stack') /\ Len(crash_stack') \in Nat
      BY <2>7, <2>8
    <3> QED
      BY <2>1, <2>7, <2>8, <2>9, <2>10, <3>1, CrashStackChanged
  <2>12. TypeOK'
    <3>1. q \in Nat
      BY <2>1, <2>2, StaticFacts
    <3>2. pc' = q /\ UNCHANGED <<base, param_base, mode, runs>>
      BY <1>3 DEF Next1, Go, control, q
    <3> QED
      BY <2>1, <2>8, <2>9, <3>1, <3>2 DEF TypeOK
  <2>13. Running'
    <3>1. \A p : Static(n, p)' = Static(n, p)
      BY <2>9, StaticKept
    <3>2. pc' = q /\ UNCHANGED <<base, param_base, mode, runs>>
      BY <1>3 DEF Next1, Go, control, q
    <3>3. /\ frames' # <<>> /\ base' = frames'[n].fn /\ n = Len(frames')
          /\ ArgsAt(base, param_base, frames[n].low)'
      <4>1. frames' = frames /\ base' = base /\ param_base' = param_base
        BY <2>9, <3>2
      <4>2. n = Len(frames) /\ n \in 1..Len(frames)
        BY ExecutingFacts
      <4>3. base = frames[n].fn /\ ArgsAt(base, param_base, frames[n].low)
        BY ExecutingFacts DEF Running1
      <4> QED
        BY <4>1, <4>2, <4>3 DEF ArgsAt
    <3>4. /\ storage_len = frames[n].at + Static(n, pc).frame
          /\ Len(params) = frames[n].low + Args[frames[n].fn] + Static(n, pc).height
      BY <2>1 DEF Running1
    <3>5. Static(n, q).frame = Static(n, pc).frame
          /\ Static(n, q).height = Static(n, pc).height
      BY <2>1, <2>2, StaticFacts
    <3>6. Matches(n, pc, storage_len, Len(params), Len(crash_stack))'
      BY <2>2, <2>7, <2>8, <2>9, <3>1, <3>2, <3>4, <3>5 DEF Matches, new
    <3>7. PadsInForce(n, pc)'
      <4>1. SUFFICES ASSUME NEW j \in 1..Len(new)
                     PROVE  /\ crash_stack'[frames[n].crash + j].pc = new[j]
                            /\ crash_stack'[frames[n].crash + j].owner = n
        BY <2>9, <3>1, <3>2 DEF PadsInForce, new
      <4>2. frames[n].crash + j \in 1..d
        BY <2>4, <2>5, <2>6, <2>7
      <4>3. /\ crash_stack[frames[n].crash + j].pc = old[j]
            /\ crash_stack[frames[n].crash + j].owner = n
        BY <2>1, <2>5 DEF Running1, PadsInForce, old
      <4> QED
        BY <2>5, <2>8, <4>2, <4>3
    <3> QED
      BY <3>3, <3>6, <3>7 DEF Running
  <2> QED
    BY <2>8, <2>11, <2>12, <2>13 DEF ControlInv, Pads
<1> QED
  BY <1>2, <1>3 DEF PopCrash

\* B_PUSH_CRASH
LEMMA PushCrashKeeps ==
  ASSUME NEW n, Executing(n), PushCrash
  PROVE  ControlInv'
<1>1. /\ Cert[base][pc].height = 0
      /\ Flow(Cert[base], pc, pc + 1, 0, 0, Append(Cert[base][pc].pads, I.target))
      /\ Flow(Cert[base], pc, I.target, 0, 0, Cert[base][pc].pads)
  BY ExecutingFacts, Contract DEF PushCrash, At, StepOK
<1>2. CASE /\ UNCHANGED <<storage, params>>
           /\ Fault("OOM_CRASH") /\ UNCHANGED crash_stack
  BY <1>2, ExecutingFacts, GivesUp DEF stacks, storage
<1>3. CASE /\ UNCHANGED <<storage, params>>
           /\ crash_stack' = Append(crash_stack,
                [pc |-> I.target, base |-> base, storage_len |-> storage_len,
                 param_len |-> Len(params), param_base |-> param_base,
                 owner |-> Len(frames), saved |-> params])
           /\ Next1
  <2> PICK t, d : t = I.target /\ d = Len(crash_stack)
    OBVIOUS
  <2> DEFINE q == pc + 1
             old == Static(n, pc).pads
             new == Static(n, q).pads
             c == [pc |-> t, base |-> base, storage_len |-> storage_len,
                   param_len |-> Len(params), param_base |-> param_base,
                   owner |-> n, saved |-> params]
  <2>1. /\ TypeOK /\ Stacked /\ Suspended /\ Pads /\ Running1(n) /\ mode = "run"
        /\ n = Len(frames) /\ n \in 1..Len(frames)
        /\ pc \in DOMAIN Cert[frames[n].fn] /\ old = Cert[base][pc].pads
        /\ Len(crash_stack) = frames[n].crash + Len(old)
        /\ ArgsAt(base, param_base, frames[n].low) /\ base = frames[n].fn
        /\ PadsInForce(n, pc)
        /\ storage_len = frames[n].at + Static(n, pc).frame
        /\ Len(params) = frames[n].low + Args[frames[n].fn] + Static(n, pc).height
        /\ Static(n, pc).height = Cert[base][pc].height
    BY ExecutingFacts DEF ControlInv, Running1
  <2>2. /\ q \in DOMAIN Cert[frames[n].fn]
        /\ Static(n, q).frame = Static(n, pc).frame + 0
        /\ Static(n, q).height = Static(n, pc).height + 0
        /\ new = Append(old, t)
    <3>1. PICK more, z : more = Append(old, t) /\ z = 0
      OBVIOUS
    <3>2. Flow(Cert[base], pc, q, z, z, more)
      BY <1>1, <2>1, <3>1
    <3> HIDE DEF q
    <3>3. /\ q \in DOMAIN Cert[frames[n].fn]
          /\ Static(n, q).frame = Static(n, pc).frame + z
          /\ Static(n, q).height = Static(n, pc).height + z
          /\ Static(n, q).pads = more
      BY SMTT(40), <2>1, <3>2, FlowState
    <3> QED
      BY <3>1, <3>3
  <2>3. /\ t \in DOMAIN Cert[frames[n].fn]
        /\ Static(n, t).frame = Static(n, pc).frame + 0
        /\ Static(n, t).height = Static(n, pc).height + 0
        /\ Static(n, t).pads = old
    <3>1. PICK z, u : z = 0 /\ u = t
      OBVIOUS
    <3>2. Flow(Cert[base], pc, u, z, z, old)
      BY <1>1, <2>1, <3>1
    <3>3. /\ u \in DOMAIN Cert[frames[n].fn]
          /\ Static(n, u).frame = Static(n, pc).frame + z
          /\ Static(n, u).height = Static(n, pc).height + z
          /\ Static(n, u).pads = old
      BY SMTT(40), <2>1, <3>2, FlowState
    <3> QED
      BY <3>1, <3>3
  <2>4. /\ Static(n, pc).frame \in Nat /\ Static(n, pc).height \in Int
        /\ old \in Seq(Nat \ {0}) /\ Len(old) \in Nat
        /\ t \in Nat \ {0} /\ q \in Nat
    BY <2>1, <2>2, <2>3, StaticFacts
  <2>5. /\ crash_stack \in Seq(Pad) /\ d \in Nat /\ frames[n].crash \in Nat
        /\ Len(frames) \in Nat /\ base \in Func
    BY <2>1, FrameFields, SeqLen DEF TypeOK
  <2>6. /\ d = frames[n].crash + Len(old) /\ d \in Nat
         /\ frames[n].crash \in Nat /\ Len(old) \in Nat
    BY <2>1, <2>4, <2>5
  <2>7. /\ crash_stack' = Append(crash_stack, c)
        /\ frames' = frames /\ storage_len' = storage_len /\ params' = params
        /\ pc' = q /\ UNCHANGED <<base, param_base, mode, runs>>
    BY <1>3, <2>1 DEF storage, Next1, Go, control
  <2>8. c \in Pad
    <3>1. /\ storage_len \in Nat /\ params \in Seq(Int) /\ Len(params) \in Nat
          /\ param_base \in Nat
      BY ExecutingFacts
    <3>2. n \in Nat \ {0}
      BY SMTT(40), <2>1, <2>5
    <3> QED
      BY <2>4, <2>5, <3>1, <3>2 DEF Pad
  <2>9. /\ c.pc = t /\ c.base = base /\ c.storage_len = storage_len
        /\ c.param_len = Len(params) /\ c.param_base = param_base /\ c.owner = n
    OBVIOUS
  <2> HIDE DEF old, new, q, c
  <2>10. /\ crash_stack' \in Seq(Pad) /\ Len(crash_stack') = d + 1
        /\ crash_stack'[d + 1] = c
        /\ \A j \in 1..d : crash_stack'[j] = crash_stack[j]
    BY <2>5, <2>7, <2>8, PushOn
  <2>11. /\ Len(new) = Len(old) + 1 /\ new[Len(old) + 1] = t
         /\ \A j \in 1..Len(old) : new[j] = old[j]
    BY <2>2, <2>4, PushOn
  <2>12. TypeOK'
    BY <2>1, <2>4, <2>7, <2>10 DEF TypeOK
  <2>13. Stacked' /\ Suspended' /\ \A k \in 1..d : PadOK(k)'
    <3>1. /\ d <= Len(crash_stack) /\ d <= Len(crash_stack')
          /\ Len(crash_stack') \in Nat
      BY <2>5, <2>10
    <3>2. \A m \in 1..Len(frames) : frames[m].crash <= d
      BY <2>1 DEF Stacked
    <3> QED
      BY <2>1, <2>5, <2>7, <2>10, <3>1, <3>2, CrashStackChanged
  <2>14. \A p : Static(n, p)' = Static(n, p)
    BY <2>7, StaticKept
  <2>15. ASSUME NEW j \in 1..Len(old)
         PROVE  /\ crash_stack'[frames[n].crash + j].pc = old[j]
                /\ crash_stack'[frames[n].crash + j].owner = n
    <3>1. frames[n].crash + j \in 1..d
      BY <2>6
    <3>2. PadsInForce(n, pc)
      BY <2>1
    <3>3. /\ crash_stack[frames[n].crash + j].pc = old[j]
          /\ crash_stack[frames[n].crash + j].owner = n
      BY <3>2 DEF PadsInForce, old
    <3> QED
      BY <2>10, <3>1, <3>3
  <2>16. PadOK(d + 1)'
    <3>1. PadsInForce(n, t)'
      BY ZenonT(60), <2>3, <2>7, <2>14, <2>15 DEF PadsInForce
    <3>2. /\ Static(n, t).frame = Static(n, pc).frame
          /\ Static(n, t).height = Static(n, pc).height
      BY <2>3, <2>4
    <3>3. Static(n, t).height = 0
      BY <1>1, <2>1, <3>2
    <3>4. (d + 1) - 1 = frames[n].crash + Len(old)
      BY <2>6
    <3>5. Matches(n, t, storage_len, Len(params), (d + 1) - 1)'
      BY <2>1, <2>3, <2>7, <2>14, <3>2, <3>4 DEF Matches
    <3>6. /\ crash_stack'[d + 1].pc = t /\ crash_stack'[d + 1].base = base
          /\ crash_stack'[d + 1].storage_len = storage_len'
          /\ crash_stack'[d + 1].param_len = Len(params')
          /\ crash_stack'[d + 1].param_base = param_base
          /\ crash_stack'[d + 1].owner = n
      BY <2>7, <2>9, <2>10
    <3>7. /\ n \in 1..Len(frames') /\ \A m \in 1..Len(frames') : ~(m > n)
          /\ storage_len' <= storage_len' /\ Len(params') <= Len(params')
      <4>1. storage_len \in Nat /\ Len(params) \in Nat
        BY ExecutingFacts
      <4> QED
        BY SMTT(40), <2>1, <2>5, <2>7, <4>1
    <3>8. ArgsAt(base, param_base, frames'[n].low) /\ base = frames'[n].fn
      BY <2>1, <2>7
    <3>9. Static(n, t)'.height = 0
      BY <2>14, <3>3
    <3> QED
      BY <3>1, <3>5, <3>6, <3>7, <3>8, <3>9 DEF PadOK, ArgsAt
  <2>17. Running'
    <3>1. /\ Static(n, q).frame = Static(n, pc).frame
          /\ Static(n, q).height = Static(n, pc).height
      BY <2>2, <2>4
    <3>2. d + 1 = frames[n].crash + Len(new)
      <4>1. Len(new) = Len(old) + 1
        BY <2>11
      <4> QED
        BY <2>6, <4>1
    <3>3. Matches(n, pc, storage_len, Len(params), Len(crash_stack))'
      BY <2>1, <2>2, <2>7, <2>10, <2>14, <3>1, <3>2 DEF Matches, new
    <3>4. PadsInForce(n, pc)'
      <4>1. SUFFICES ASSUME NEW j \in 1..Len(new)
                     PROVE  /\ crash_stack'[frames[n].crash + j].pc = new[j]
                            /\ crash_stack'[frames[n].crash + j].owner = n
        BY <2>7, <2>14 DEF PadsInForce, new
      <4>2. CASE j = Len(old) + 1
        <5>1. frames[n].crash + j = d + 1
          BY <2>6, <4>2
        <5> QED
          BY <2>9, <2>10, <2>11, <4>2, <5>1
      <4>3. CASE j \in 1..Len(old)
        BY <2>11, <2>15, <4>3
      <4> QED
        BY <2>4, <2>11, <4>2, <4>3
    <3> QED
      BY SMTT(40), <2>1, <2>7, <3>3, <3>4 DEF Running, ArgsAt
  <2>18. Pads'
    <3>1. ASSUME NEW k \in 1..(d + 1) PROVE k \in 1..d \/ k = d + 1
      BY <2>6
    <3> QED
      BY <2>10, <2>13, <2>16, <3>1 DEF Pads
  <2> QED
    BY <2>12, <2>13, <2>17, <2>18 DEF ControlInv
<1> QED
  BY <1>2, <1>3 DEF PushCrash

-----------------------------------------------------------------------------
(* Calls, returns and runs.                                                *)

\* A new activation is opened on top of the others, at the first instruction of
\* its function and with its arguments on the parameter stack.
LEMMA Entered ==
  ASSUME ControlInv, NEW n, n = Len(frames) + 1, NEW a \in Frame,
         frames' = Append(frames, a), params' = params, crash_stack' = crash_stack,
         a.at = storage_len + RetSize, storage_len' = a.at,
         a.crash = Len(crash_stack), Len(params) = a.low + Args[a.fn],
         \A m \in 1..Len(frames) : frames[m].low <= a.low,
         \A k \in 1..Len(crash_stack) : crash_stack[k].param_len <= a.low,
         Resumes(n)',
         mode' = "run", base' = a.fn, pc' = 1, param_base' \in Nat, runs' \in Nat,
         ArgsAt(a.fn, param_base', a.low)
  PROVE  ControlInv'
<1>1. TypeOK /\ Stacked /\ Suspended /\ Pads
  BY DEF ControlInv
<1>2. /\ frames \in Seq(Frame) /\ Len(frames) \in Nat /\ storage_len \in Nat
      /\ Len(params) \in Nat /\ Len(crash_stack) \in Nat
  BY <1>1, SeqLen DEF TypeOK
<1>3. /\ a.at \in Nat /\ a.low \in Nat /\ a.crash \in Nat /\ a.fn \in Func
      /\ RetSize \in Nat /\ RetSize > 0 /\ Args[a.fn] \in Nat
  BY RetSizeAssumption, CertifiedAssumption DEF Frame, Certified
<1>4. /\ frames' \in Seq(Frame) /\ Len(frames') = n
      /\ frames'[n] = a /\ \A m \in 1..Len(frames) : frames'[m] = frames[m]
  BY <1>2, PushOn
<1>5. /\ n \in Nat \ {0} /\ n \in 1..n
      /\ \A m \in 1..n : m \in 1..Len(frames) \/ m = n
      /\ \A m \in 1..Len(frames) : m < n /\ m <= n
      /\ \A m \in 1..Len(frames) : m > 1 => m - 1 \in 1..Len(frames)
  BY <1>2
<1>6. TypeOK'
  BY <1>1, <1>3, <1>4 DEF TypeOK
<1>7. storage_len <= storage_len' /\ storage_len + RetSize <= a.at
      /\ a.low <= Len(params) /\ RetSize <= a.at
  BY SMTT(40), <1>2, <1>3
<1>8. ASSUME NEW m \in 1..Len(frames)
      PROVE  /\ frames[m].at >= RetSize /\ frames[m].at <= storage_len'
             /\ frames[m].at + RetSize <= a.at
             /\ frames[m].low <= Len(params) /\ frames[m].crash <= Len(crash_stack)
  <2>1. /\ frames[m].at >= RetSize /\ frames[m].at <= storage_len
        /\ frames[m].low <= Len(params) /\ frames[m].crash <= Len(crash_stack)
        /\ frames[m].at \in Nat
    BY <1>1, FrameFields DEF Stacked
  <2> QED
    BY SMTT(40), <1>2, <1>3, <1>7, <2>1
<1>9. Stacked'
  <2>1. ASSUME NEW m \in 1..n
        PROVE  /\ frames'[m].at >= RetSize /\ frames'[m].at <= storage_len'
               /\ frames'[m].low <= Len(params') /\ frames'[m].crash <= Len(crash_stack')
    <3>1. CASE m = n
      BY <1>2, <1>3, <1>4, <1>7, <3>1
    <3>2. CASE m \in 1..Len(frames)
      BY <1>4, <1>8, <3>2
    <3> QED
      BY <1>5, <3>1, <3>2
  <2>2. ASSUME NEW m \in 1..n, NEW l \in 1..n, m < l
        PROVE  /\ frames'[m].at + RetSize <= frames'[l].at
               /\ frames'[m].low <= frames'[l].low
               /\ frames'[m].crash <= frames'[l].crash
    <3>1. m \in 1..Len(frames)
      BY <1>2, <2>2
    <3>2. CASE l = n
      BY <1>4, <1>8, <3>1, <3>2
    <3>3. CASE l \in 1..Len(frames)
      BY <1>1, <1>4, <2>2, <3>1, <3>3 DEF Stacked
    <3> QED
      BY <1>5, <3>2, <3>3
  <2> QED
    BY <1>4, <2>1, <2>2 DEF Stacked
<1>10. Suspended'
  <2>1. ASSUME NEW m \in 1..Len(frames) PROVE Resumes(m)'
    <3>1. Resumes(m)
      BY <1>1 DEF Suspended
    <3> QED
      BY <1>1, <1>4, <1>5, <3>1, ResumesKept
  <2> QED
    BY <1>4, <1>5, <2>1 DEF Suspended
<1>11. Pads'
  <2>1. SUFFICES ASSUME NEW k \in 1..Len(crash_stack) PROVE PadOK(k)'
    BY DEF Pads
  <2>2. PICK o \in 1..Len(frames) : crash_stack[k].owner = o
    BY <1>1, PadOwner
  <2>3. /\ crash_stack[k].storage_len <= storage_len
        /\ crash_stack[k].param_len <= Len(params)
        /\ \A m \in 1..Len(frames) : m > o =>
             /\ crash_stack[k].storage_len + RetSize <= frames[m].at
             /\ crash_stack[k].param_len <= frames[m].low
             /\ k <= frames[m].crash
    BY <1>1, <2>2 DEF Pads, PadOK
  <2>4. crash_stack[k].storage_len \in Nat /\ k <= Len(crash_stack)
    BY SMTT(40), <1>1, PadFields
  <2>5. /\ crash_stack[k].storage_len <= storage_len'
        /\ crash_stack[k].storage_len + RetSize <= a.at
    BY SMTT(40), <1>2, <1>3, <1>7, <2>3, <2>4
  <2>6. ASSUME NEW m \in 1..n, m > o
        PROVE  /\ crash_stack[k].storage_len + RetSize <= frames'[m].at
               /\ crash_stack[k].param_len <= frames'[m].low
               /\ k <= frames'[m].crash
    <3>1. CASE m = n
      BY <1>4, <2>4, <2>5, <3>1
    <3>2. CASE m \in 1..Len(frames)
      BY <1>4, <2>3, <2>6, <3>2
    <3> QED
      BY <1>5, <3>1, <3>2
  <2>7. o <= n /\ n \in Nat
    BY <1>5
  <2> QED
    BY <1>1, <1>4, <2>2, <2>3, <2>5, <2>6, <2>7, PadKept
<1>12. Running'
  <2>1. Static(n, 1)' = Cert[a.fn][1]
    BY <1>4 DEF Static
  <2>2. /\ 1 \in DOMAIN Cert[a.fn]
        /\ Cert[a.fn][1].frame = 0 /\ Cert[a.fn][1].height = 0
        /\ Cert[a.fn][1].pads = <<>>
    BY <1>3, FirstInstruction
  <2>3. /\ a.at = a.at + Cert[a.fn][1].frame
        /\ a.low + Args[a.fn] = a.low + Args[a.fn] + Cert[a.fn][1].height
    BY <1>3, <2>2
  <2>4. Len(Cert[a.fn][1].pads) = 0
    BY <2>2
  <2>5. a.crash = a.crash + Len(Cert[a.fn][1].pads)
    BY <1>3, <2>4
  <2>6. Matches(n, pc, storage_len, Len(params), Len(crash_stack))'
    BY <1>4, <2>1, <2>2, <2>3, <2>5 DEF Matches
  <2>7. PadsInForce(n, pc)'
    BY <2>1, <2>4 DEF PadsInForce
  <2>8. frames' # <<>>
    BY <1>4, <1>5
  <2>9. ArgsAt(base, param_base, frames[n].low)'
    BY <1>4 DEF ArgsAt
  <2> QED
    BY <1>4, <2>6, <2>7, <2>8, <2>9 DEF Running
<1> QED
  BY <1>6, <1>9, <1>10, <1>11, <1>12 DEF ControlInv

\* B_CALL
LEMMA CallKeeps ==
  ASSUME NEW n, Executing(n), Call
  PROVE  ControlInv'
<1>1. /\ I.callee \in Func /\ I.argc = Args[I.callee]
      /\ Cert[base][pc].height >= I.argc
      /\ Flow(Cert[base], pc, pc + 1, 0, -Ins[I.callee], Cert[base][pc].pads)
  <2>1. DOMAIN Args = Func
    BY CertifiedAssumption DEF Certified
  <2> QED
    BY <2>1, ExecutingFacts, Contract DEF Call, At, StepOK
<1>2. CASE UNCHANGED stacks /\ \E r : Return(r) \/ Fault(r)
  BY <1>2, ExecutingFacts, GivesUp
<1>3. CASE /\ UNCHANGED <<params, crash_stack>>
           /\ PushReturn([pc |-> pc + 1, base |-> base,
                          param_base |-> param_base], I.callee, I.argc)
           /\ base' = I.callee /\ pc' = 1
           /\ param_base' = Arguments(I.argc)
           /\ UNCHANGED control
  <2> PICK g, top, s : g = I.callee /\ top = n + 1 /\ s = pc + 1
    OBVIOUS
  <2> DEFINE a == [at |-> storage_len + RetSize, pc |-> s, base |-> base,
                   param_base |-> param_base, fn |-> g,
                   low |-> Len(params) - I.argc, crash |-> Len(crash_stack)]
  <2>1. /\ TypeOK /\ Stacked /\ Suspended /\ Pads /\ Running1(n) /\ mode = "run"
        /\ ControlInv /\ n = Len(frames) /\ n \in 1..Len(frames)
        /\ base = frames[n].fn /\ base \in Func /\ ArgsAt(base, param_base, frames[n].low)
        /\ PadsInForce(n, pc) /\ Static(n, pc).pads = Cert[base][pc].pads
        /\ Len(crash_stack) = frames[n].crash + Len(Static(n, pc).pads)
        /\ runs \in Nat
    BY ExecutingFacts DEF ControlInv, Running1, TypeOK
  <2>2. /\ I.argc \in Nat /\ Args[g] \in Nat /\ Ins[g] \in Nat /\ g \in Func
    BY <1>1, CertifiedAssumption DEF Certified
  <2>3. /\ Len(params) \in Nat /\ storage_len \in Nat /\ pc \in Nat /\ param_base \in Nat
        /\ frames[n].low + Args[base] <= Len(params) - I.argc
        /\ frames[n].low <= Len(params) - I.argc
        /\ Len(params) - I.argc \in Nat
    <3>1. /\ Len(params) \in Nat /\ storage_len \in Nat /\ pc \in Nat
          /\ param_base \in Nat
          /\ frames[n].low \in Nat /\ Args[base] \in Nat /\ Cert[base][pc].height \in Int
          /\ Len(params) = frames[n].low + Args[base] + Cert[base][pc].height
      BY ExecutingFacts
    <3>2. frames[n].low + Args[base] <= Len(params) - I.argc
      BY SMTT(40), <1>1, <2>2, <3>1
    <3> DEFINE l == frames[n].low
               b == Args[base]
               c == I.argc
               len == Len(params)
    <3>3. l \in Nat /\ b \in Nat /\ c \in Nat /\ len \in Nat /\ l + b <= len - c
      BY <2>2, <3>1, <3>2
    <3> HIDE DEF l, b, c, len
    <3>4. l <= len - c /\ len - c \in Nat
      BY <3>3
    <3> QED
      BY <3>1, <3>2, <3>4 DEF l, c, len
  <2>4. Len(crash_stack) \in Nat /\ Len(frames) \in Nat /\ RetSize \in Nat
    BY <2>1, SeqLen, RetSizeAssumption DEF TypeOK
  <2>5. a \in Frame
    <3>1. s \in Nat /\ storage_len + RetSize \in Nat
      BY <2>3, <2>4
    <3> QED
      BY <2>1, <2>2, <2>3, <2>4, <3>1 DEF Frame
  <2>6. /\ a.at = storage_len + RetSize /\ a.pc = s /\ a.base = base
        /\ a.param_base = param_base /\ a.fn = g
        /\ a.low = Len(params) - I.argc /\ a.crash = Len(crash_stack)
    OBVIOUS
  <2>7. /\ frames' = Append(frames, a) /\ storage_len' = storage_len + RetSize
        /\ params' = params /\ crash_stack' = crash_stack
        /\ mode' = "run" /\ runs' = runs /\ base' = g /\ pc' = 1
        /\ param_base' = Len(params) - I.argc
    BY <1>3, <2>1 DEF PushReturn, Arguments, control
  <2> HIDE DEF a
  <2>8. /\ s \in DOMAIN Cert[frames[n].fn]
        /\ Static(n, s).frame = Static(n, pc).frame + 0
        /\ Static(n, s).height = Static(n, pc).height + (-Ins[g])
        /\ Static(n, s).pads = Static(n, pc).pads
    <3>1. PICK d, z : d = -Ins[g] /\ z = 0
      OBVIOUS
    <3>2. Flow(Cert[base], pc, s, z, d, Cert[base][pc].pads)
      BY <1>1, <3>1
    <3>3. /\ s \in DOMAIN Cert[frames[n].fn]
          /\ Static(n, s).frame = Static(n, pc).frame + z
          /\ Static(n, s).height = Static(n, pc).height + d
          /\ Static(n, s).pads = Cert[base][pc].pads
      BY SMTT(40), <2>1, <3>2, FlowState
    <3> QED
      BY <2>1, <3>1, <3>3
  <2>9. /\ \A m \in 1..Len(frames) : frames[m].low <= a.low
        /\ \A k \in 1..Len(crash_stack) : crash_stack[k].param_len <= a.low
    <3>1. frames[n].low \in Nat /\ Args[base] \in Nat
      BY ExecutingFacts
    <3>2. ASSUME NEW m \in 1..Len(frames) PROVE frames[m].low <= a.low
      <4>1. frames[m].low <= frames[n].low /\ frames[m].low \in Nat
        BY <2>1, LastIsHighest, FrameFields
      <4> QED
        BY <2>3, <2>6, <3>1, <4>1
    <3>3. ASSUME NEW k \in 1..Len(crash_stack) PROVE crash_stack[k].param_len <= a.low
      <4>1. crash_stack[k].param_len <= frames[n].low + Args[base]
        BY <2>1, ExecutingFacts, PadsFit
      <4>2. crash_stack[k].param_len \in Nat
        BY <2>1, PadFields
      <4> QED
        BY <2>3, <2>6, <3>1, <4>1, <4>2
    <3> QED
      BY <3>2, <3>3
  <2>10. Len(params) = a.low + Args[a.fn]
    BY <1>1, <2>2, <2>3, <2>6
  <2>11. Resumes(top)'
    <3>1. /\ frames'[top] = a /\ frames'[n] = frames[n] /\ top - 1 = n /\ top > 1
      BY <2>1, <2>4, <2>5, <2>7, PushOn DEF TypeOK
    <3>2. \A p : Static(n, p)' = Static(n, p)
      BY <3>1, StaticKept
    <3>3. PadsInForce(n, s)'
      BY SMTT(40), <2>1, <2>7, <2>8, <3>1, <3>2 DEF PadsInForce
    <3>4. /\ frames[n].at \in Nat /\ frames[n].low \in Nat /\ Args[base] \in Nat
          /\ Cert[base][pc].frame \in Nat /\ Cert[base][pc].height \in Int
          /\ Len(params) = frames[n].low + Args[base] + Cert[base][pc].height
          /\ storage_len = frames[n].at + Cert[base][pc].frame
          /\ Static(n, pc) = Cert[base][pc]
      BY <2>1, ExecutingFacts DEF Running1
    <3>5. a.at - RetSize = frames[n].at + Static(n, s).frame
      <4>1. a.at - RetSize = storage_len
        BY <2>3, <2>4, <2>6
      <4>2. Static(n, s).frame = Cert[base][pc].frame
        BY <2>8, <3>4
      <4> QED
        BY <3>4, <4>1, <4>2
    <3>6. a.low + Args[a.fn] - Ins[a.fn]
            = frames[n].low + Args[base] + Static(n, s).height
      <4> DEFINE h == Cert[base][pc].height
                 l == frames[n].low
                 b == Args[base]
                 len == Len(params)
                 i == Ins[g]
                 new == Static(n, s).height
      <4>1. /\ h \in Int /\ l \in Nat /\ b \in Nat /\ i \in Nat /\ len \in Nat
            /\ len = l + b + h
        BY <2>2, <2>3, <3>4
      <4>2. new = h + (-i)
        BY <2>8, <3>4
      <4>3. a.low + Args[a.fn] - Ins[a.fn] = len - i
        <5>1. a.fn = g
          BY <2>6
        <5> DEFINE low == a.low
                   args == Args[g]
        <5>2. /\ low \in Int /\ args \in Int /\ i \in Int /\ len \in Int
              /\ len = low + args
          <6>1. low \in Int
            BY <2>3, <2>6
          <6>2. args \in Int /\ i \in Int /\ len \in Int
            BY <2>2, <2>3
          <6>3. len = low + args
            BY <2>10, <5>1
          <6> QED
            BY <6>1, <6>2, <6>3
        <5> HIDE DEF low, args, i, len
        <5>3. low + args - i = len - i
          BY <5>2
        <5> QED
          BY <5>1, <5>3 DEF low, args, i
      <4> HIDE DEF h, l, b, len, i, new
      <4>4. len - i = l + b + new
        BY <4>1, <4>2
      <4> QED
        BY <4>3, <4>4 DEF l, b, new
    <3>7. /\ a.pc = s /\ frames'[n].fn = base /\ s \in DOMAIN Cert[frames'[n].fn]
          /\ a.crash = frames'[n].crash + Len(Static(n, s).pads)
          /\ a.at - RetSize = frames'[n].at + Static(n, s).frame
          /\ a.low + Args[a.fn] - Ins[a.fn]
               = frames'[n].low + Args[frames'[n].fn] + Static(n, s).height
      BY <2>1, <2>6, <2>8, <3>1, <3>5, <3>6
    <3>8. ArgsAt(a.base, a.param_base, frames'[n].low) /\ a.base = frames'[n].fn
      BY <2>1, <2>6, <3>1
    <3> QED
      BY <3>1, <3>2, <3>3, <3>7, <3>8 DEF Resumes, Matches, ArgsAt
  <2>12. ArgsAt(a.fn, param_base', a.low)
    BY <2>6, <2>7 DEF ArgsAt
  <2>13. param_base' \in Nat
    BY <2>3, <2>7
  <2> QED
    BY <2>1, <2>5, <2>6, <2>7, <2>9, <2>10, <2>11, <2>12, <2>13, Entered
<1> QED
  BY <1>2, <1>3 DEF Call, Underflow, stacks, storage

\* vm_run is called: on whatever stacks the last run has left behind.
LEMMA VmRunKeeps ==
  ASSUME ControlInv, NEW f \in Entry, VmRun(f)
  PROVE  ControlInv'
<1>1. /\ f \in Func /\ Args[f] = 0
      /\ TypeOK /\ Stacked /\ Suspended /\ Pads /\ mode = "idle"
  BY EntryAssumption, CertifiedAssumption DEF Certified, ControlInv, VmRun
<1>2. CASE UNCHANGED <<mode, ans, cursor, storage>>
  <2>1. runs' \in Nat /\ UNCHANGED stacks
    BY <1>1, <1>2 DEF VmRun, TypeOK, stacks, storage
  <2>2. TypeOK'
    BY <1>1, <1>2, <2>1 DEF TypeOK, stacks, cursor
  <2>3. Stacked' /\ Suspended' /\ Pads'
    <3>1. \A m \in 1..Len(frames) :
            frames[m].at <= storage_len /\ frames[m].low <= Len(params)
      BY <1>1 DEF Stacked
    <3>2. \A k \in 1..Len(crash_stack) :
             /\ crash_stack[k].storage_len <= storage_len
             /\ crash_stack[k].param_len <= Len(params)
      BY <1>1 DEF Pads, PadOK
    <3> QED
      BY <1>1, <2>1, <3>1, <3>2, StacksKept DEF stacks
  <2> QED
    BY <1>1, <1>2, <2>2, <2>3 DEF ControlInv, Running
<1>3. CASE /\ PushReturn(NullFrame, f, 0)
           /\ mode' = "run" /\ base' = f /\ pc' = 1 /\ param_base' = 0
  <2> PICK top : top = Len(frames) + 1
    OBVIOUS
  <2> DEFINE a == [at |-> storage_len + RetSize, pc |-> 0, base |-> NoFunc,
                   param_base |-> 0, fn |-> f,
                   low |-> Len(params) - 0, crash |-> Len(crash_stack)]
  <2>1. /\ storage_len \in Nat /\ Len(params) \in Nat /\ Len(crash_stack) \in Nat
        /\ frames \in Seq(Frame) /\ Len(frames) \in Nat /\ RetSize \in Nat
    BY <1>1, SeqLen, RetSizeAssumption DEF TypeOK
  <2>2. a \in Frame
    <3>1. storage_len + RetSize \in Nat /\ Len(params) - 0 \in Nat
      BY <2>1
    <3> QED
      BY <1>1, <2>1, <3>1 DEF Frame
  <2>3. /\ a.at = storage_len + RetSize /\ a.pc = 0 /\ a.fn = f
        /\ a.low = Len(params) /\ a.crash = Len(crash_stack)
    BY <2>1
  <2>4. /\ frames' = Append(frames, a) /\ storage_len' = storage_len + RetSize
        /\ params' = params /\ crash_stack' = crash_stack /\ runs' \in Nat
    BY <1>1, <1>3 DEF PushReturn, NullFrame, VmRun, TypeOK
  <2> HIDE DEF a
  <2>5. Resumes(top)'
    <3>1. frames'[top] = a
      BY <2>1, <2>2, <2>4, PushOn
    <3> QED
      BY <1>1, <2>3, <3>1 DEF Resumes
  <2>6. /\ \A m \in 1..Len(frames) : frames[m].low <= a.low
        /\ \A k \in 1..Len(crash_stack) : crash_stack[k].param_len <= a.low
    BY <1>1, <2>3 DEF Stacked, Pads, PadOK
  <2>7. Len(params) = a.low + Args[a.fn]
    BY <1>1, <2>1, <2>3
  <2>8. ArgsAt(a.fn, param_base', a.low)
    BY <1>1, <2>3 DEF ArgsAt
  <2> QED
    BY <1>3, <2>2, <2>3, <2>4, <2>5, <2>6, <2>7, <2>8, Entered
<1> QED
  BY <1>2, <1>3 DEF VmRun

\* frontend_compile_source empties the stacks between runs.
LEMMA ResetKeeps ==
  ASSUME ControlInv, ResetStacks
  PROVE  ControlInv'
<1> USE DEF ControlInv, ResetStacks, cursor, control
<1>1. TypeOK'
  BY DEF TypeOK
<1>2. Len(frames') = 0 /\ Len(crash_stack') = 0
  OBVIOUS
<1>3. Stacked' /\ Suspended' /\ Pads'
  BY <1>2 DEF Stacked, Suspended, Pads
<1> QED
  BY <1>1, <1>3 DEF Running

\* Cutting the activations down to the lowest o of them, and the crash stack to the
\* d pads that those own, at lengths they all have room in.
LEMMA CutDown ==
  ASSUME TypeOK, Stacked, Suspended, Pads,
         NEW o \in 0..Len(frames), frames' = SubSeq(frames, 1, o),
         NEW d \in 0..Len(crash_stack), crash_stack' = SubSeq(crash_stack, 1, d),
         \A m \in 1..o : /\ frames[m].at <= storage_len'
                         /\ frames[m].low <= Len(params')
                         /\ frames[m].crash <= d,
         \A k \in 1..d : /\ crash_stack[k].owner <= o
                         /\ crash_stack[k].storage_len <= storage_len'
                         /\ crash_stack[k].param_len <= Len(params')
  PROVE  /\ Stacked' /\ Suspended' /\ Pads'
         /\ frames' \in Seq(Frame) /\ crash_stack' \in Seq(Pad)
         /\ Len(frames') = o /\ Len(crash_stack') = d
         /\ \A m \in 1..o : frames'[m] = frames[m]
         /\ \A k \in 1..d : crash_stack'[k] = crash_stack[k]
<1>1. /\ frames \in Seq(Frame) /\ crash_stack \in Seq(Pad)
      /\ Len(frames) \in Nat /\ Len(crash_stack) \in Nat /\ o \in Nat /\ d \in Nat
  BY SeqLen DEF TypeOK
<1>2. /\ frames' \in Seq(Frame) /\ crash_stack' \in Seq(Pad)
      /\ Len(frames') = o /\ Len(crash_stack') = d
      /\ \A m \in 1..o : frames'[m] = frames[m]
      /\ \A k \in 1..d : crash_stack'[k] = crash_stack[k]
  BY <1>1, CutTo
<1>3. /\ \A m \in 1..o : m \in 1..Len(frames) /\ (m > 1 => m - 1 \in 1..o)
      /\ \A k \in 1..d : k \in 1..Len(crash_stack) /\ \A j \in 1..k : j \in 1..d
  BY <1>1
<1>4. Stacked'
  BY <1>2, <1>3 DEF Stacked
<1>5. ASSUME NEW m \in 1..o PROVE Resumes(m)'
  <2>1. Resumes(m) /\ m \in 1..Len(frames)
    BY <1>3 DEF Suspended
  <2>2. \A j \in 1..frames[m].crash : j \in 1..d
    BY <1>1, <2>1, FrameFields
  <2> QED
    BY <1>2, <1>3, <2>1, <2>2, ResumesKept
<1>6. ASSUME NEW k \in 1..d PROVE PadOK(k)'
  <2>1. k \in 1..Len(crash_stack)
    BY <1>3
  <2>2. PICK w \in 1..Len(frames) : crash_stack[k].owner = w
    BY <2>1, PadOwner
  <2>3. w \in 1..o
    BY <1>1, <2>2
  <2>4. \A m \in 1..o : m > w =>
             /\ crash_stack[k].storage_len + RetSize <= frames[m].at
             /\ crash_stack[k].param_len <= frames[m].low
             /\ k <= frames[m].crash
    BY <1>3, <2>1, <2>2 DEF Pads, PadOK
  <2>5. w <= Len(frames') /\ Len(frames') \in Nat
    BY <1>1, <1>2, <2>3
  <2>6. \A m \in 1..Len(frames') : m > w =>
             /\ crash_stack[k].storage_len + RetSize <= frames'[m].at
             /\ crash_stack[k].param_len <= frames'[m].low
             /\ k <= frames'[m].crash
    BY <1>2, <2>4
  <2> QED
    BY <1>2, <1>3, <2>1, <2>2, <2>3, <2>5, <2>6, PadKept
<1> QED
  BY <1>2, <1>4, <1>5, <1>6 DEF Suspended, Pads

\* At B_RET the activation has given back its frame, its pads and its inputs.
LEMMA RetState ==
  ASSUME NEW n, Executing(n), At("RET")
  PROVE  /\ Static(n, pc).pads = <<>>
         /\ storage_len = frames[n].at
         /\ Len(params) = frames[n].low + Args[base] - Ins[base]
         /\ frames[n].low <= Len(params)
         /\ Len(crash_stack) = frames[n].crash
<1> DEFINE a == frames[n]
<1>1. /\ Cert[base][pc].frame = 0 /\ Cert[base][pc].height = -Ins[base]
      /\ Cert[base][pc].pads = <<>>
  BY ExecutingFacts, Contract DEF At, StepOK
<1>2. /\ TypeOK /\ n \in 1..Len(frames) /\ base = a.fn /\ base \in Func
      /\ Static(n, pc).pads = <<>>
      /\ Len(crash_stack) = a.crash + Len(Static(n, pc).pads)
  BY <1>1, ExecutingFacts DEF Running1
<1>3. a.at \in Nat /\ a.low \in Nat /\ a.crash \in Nat
  BY <1>2, FrameFields
<1>4. storage_len = a.at
  <2>1. storage_len = a.at + 0
    BY <1>1, ExecutingFacts
  <2> QED
    BY <1>3, <2>1
<1>5. Len(crash_stack) = a.crash
  <2>1. Len(Static(n, pc).pads) = 0
    BY <1>2
  <2>2. Len(crash_stack) = a.crash + 0
    BY <1>2, <2>1
  <2> QED
    BY <1>3, <2>2
<1>6. Args[base] \in Nat /\ Ins[base] \in Nat /\ Ins[base] <= Args[base]
  BY <1>2, CertifiedAssumption DEF Certified
<1>7. Len(params) = a.low + Args[base] + (-Ins[base])
  BY <1>1, ExecutingFacts
<1>8. a.low <= Len(params) /\ Len(params) = a.low + Args[base] - Ins[base]
  <2> DEFINE l == a.low
             b == Args[base]
             i == Ins[base]
             len == Len(params)
  <2>1. /\ l \in Nat /\ b \in Nat /\ i \in Nat /\ i <= b /\ len = l + b + (-i)
    BY <1>3, <1>6, <1>7
  <2> HIDE DEF l, b, i, len
  <2>2. l <= len /\ len = l + b - i
    BY <2>1
  <2> QED
    BY <2>2 DEF l, b, i, len
<1> QED
  BY <1>2, <1>4, <1>5, <1>8

\* A pad whose owner returns would have been popped before: the certificate has no
\* pad in force at B_RET.
LEMMA RetKeeps ==
  ASSUME NEW n, Executing(n), Ret
  PROVE  ControlInv'
<1>1. Static(n, pc).pads = <<>>
  BY RetState DEF Ret
<1>2. CASE /\ UNCHANGED <<params, crash_stack>> /\ UNCHANGED storage
           /\ Return("STORAGE_UNDERFLOW")
  BY <1>2, ExecutingFacts, GivesUp DEF stacks, storage
<1>3. CASE /\ UNCHANGED <<params, crash_stack>>
           /\ storage_len' = storage_len - RetSize
           /\ frames' = Front(frames)
           /\ \/ /\ frames[n].pc = 0
                 /\ Return("OK")
              \/ /\ frames[n].pc # 0
                 /\ pc' = frames[n].pc
                 /\ base' = frames[n].base
                 /\ param_base' = frames[n].param_base
                 /\ UNCHANGED control
  <2> PICK o, d, r : o = n - 1 /\ d = Len(crash_stack) /\ r = frames[n].pc
    OBVIOUS
  <2> DEFINE a == frames[n]
  <2>1. /\ TypeOK /\ Stacked /\ Suspended /\ Pads /\ mode = "run"
        /\ n = Len(frames) /\ n \in 1..Len(frames) /\ base = a.fn /\ base \in Func
        /\ Static(n, pc).pads = <<>>
        /\ Len(crash_stack) = a.crash + Len(Static(n, pc).pads)
    BY <1>1, ExecutingFacts DEF ControlInv, Running1
  <2>2. /\ Len(frames) \in Nat /\ a.at \in Nat /\ a.low \in Nat /\ a.crash \in Nat
        /\ a.pc \in Nat /\ a.base \in Func \union {NoFunc} /\ a.param_base \in Nat
        /\ d \in Nat
    BY <2>1, FrameFields, SeqLen DEF TypeOK
  <2>3. /\ storage_len = a.at /\ d = a.crash
        /\ Len(params) = a.low + Args[base] - Ins[base] /\ a.low <= Len(params)
    BY <2>1, RetState DEF Ret
  <2>4. /\ o \in 0..Len(frames) /\ o \in Nat /\ d \in 0..Len(crash_stack)
        /\ \A m \in 1..o : m \in 1..Len(frames) /\ m < n
    BY <2>1, <2>2
  <2>5. /\ frames' = SubSeq(frames, 1, o) /\ crash_stack' = SubSeq(crash_stack, 1, d)
        /\ params' = params /\ storage_len' = a.at - RetSize
    <3>1. crash_stack = SubSeq(crash_stack, 1, Len(crash_stack))
      BY <2>1 DEF TypeOK
    <3> QED
      BY <1>3, <2>1, <2>3, <3>1 DEF Front
  <2>6. ASSUME NEW m \in 1..o
        PROVE  /\ frames[m].at <= storage_len' /\ frames[m].low <= Len(params')
               /\ frames[m].crash <= d
    <3>1. m \in 1..Len(frames) /\ m < n
      BY <2>4
    <3>2. /\ frames[m].at + RetSize <= a.at /\ frames[m].low <= a.low
          /\ frames[m].crash <= a.crash
      BY <2>1, <3>1 DEF Stacked
    <3>3. frames[m].at \in Nat /\ frames[m].low \in Nat /\ frames[m].crash \in Nat
      BY <2>1, <3>1, FrameFields
    <3>4. frames[m].at <= storage_len'
      BY SMTT(40), <2>2, <2>5, <3>2, <3>3, RetSizeAssumption
    <3>5. Len(params) \in Nat
      BY ExecutingFacts
    <3>6. frames[m].low <= Len(params')
      BY <2>2, <2>3, <2>5, <3>2, <3>3, <3>5
    <3> QED
      BY <2>3, <3>2, <3>4, <3>6
  <2>7. ASSUME NEW k \in 1..d
        PROVE  /\ crash_stack[k].owner <= o
               /\ crash_stack[k].storage_len <= storage_len'
               /\ crash_stack[k].param_len <= Len(params')
    <3>1. k \in 1..Len(crash_stack) /\ k <= a.crash
      BY <2>2, <2>3
    <3>2. PICK w \in 1..Len(frames) : crash_stack[k].owner = w
      BY <2>1, <3>1, PadOwner
    <3>3. crash_stack[k].storage_len \in Nat /\ crash_stack[k].param_len \in Nat
      BY <2>1, <3>1, PadFields
    <3>4. w # n
      <4>1. SUFFICES ASSUME w = n PROVE FALSE
        OBVIOUS
      <4>2. k > a.crash
        BY <2>1, <3>1, <3>2, <4>1, PadState
      <4> QED
        BY <2>2, <3>1, <4>2
    <3>5. w < n /\ w <= o
      BY <2>1, <2>2, <3>2, <3>4
    <3>6. /\ crash_stack[k].storage_len + RetSize <= a.at
          /\ crash_stack[k].param_len <= a.low
      BY <2>1, <3>1, <3>2, <3>5 DEF Pads, PadOK
    <3>7. crash_stack[k].storage_len <= storage_len'
      BY <2>2, <2>5, <3>3, <3>6, RetSizeAssumption
    <3>8. Len(params) \in Nat
      BY ExecutingFacts
    <3>9. crash_stack[k].param_len <= Len(params')
      BY <2>2, <2>3, <2>5, <3>3, <3>6, <3>8
    <3> QED
      BY <3>2, <3>5, <3>7, <3>9
  <2>8. /\ Stacked' /\ Suspended' /\ Pads'
        /\ frames' \in Seq(Frame) /\ crash_stack' \in Seq(Pad)
        /\ Len(frames') = o /\ Len(crash_stack') = d
        /\ \A m \in 1..o : frames'[m] = frames[m]
        /\ \A k \in 1..d : crash_stack'[k] = crash_stack[k]
    BY <2>1, <2>4, <2>5, <2>6, <2>7, CutDown
  <2>9. storage_len' \in Nat
    <3>1. a.at >= RetSize
      BY <2>1 DEF Stacked
    <3> QED
      BY <2>2, <2>5, <3>1, RetSizeAssumption
  <2>10. CASE a.pc = 0 /\ Return("OK")
    <3>1. TypeOK'
      BY <2>1, <2>5, <2>8, <2>9, <2>10 DEF TypeOK, Return, cursor
    <3> QED
      BY <2>8, <2>10, <3>1 DEF ControlInv, Running, Return
  <2>11. CASE /\ a.pc # 0 /\ pc' = a.pc /\ base' = a.base
              /\ param_base' = a.param_base /\ UNCHANGED control
    <3>1. TypeOK'
      BY <2>1, <2>2, <2>5, <2>8, <2>9, <2>11 DEF TypeOK, control
    <3>2. /\ n > 1 /\ a.base = frames[o].fn
          /\ ArgsAt(a.base, a.param_base, frames[o].low)
          /\ Matches(o, a.pc, a.at - RetSize, a.low + Args[a.fn] - Ins[a.fn], a.crash)
          /\ PadsInForce(o, a.pc)
      BY <2>1, <2>11 DEF Suspended, Resumes
    <3>3. o \in 1..o /\ o \in 1..Len(frames) /\ frames'[o] = frames[o]
      BY <2>1, <2>2, <2>8, <3>2
    <3>4. \A p : Static(o, p)' = Static(o, p)
      BY <3>3, StaticKept
    <3>5. /\ a.pc \in DOMAIN Cert[frames[o].fn]
          /\ a.at - RetSize = frames[o].at + Static(o, a.pc).frame
          /\ a.low + Args[a.fn] - Ins[a.fn]
               = frames[o].low + Args[frames[o].fn] + Static(o, a.pc).height
          /\ a.crash = frames[o].crash + Len(Static(o, a.pc).pads)
      BY <3>2 DEF Matches
    <3>6. Matches(o, pc, storage_len, Len(params), Len(crash_stack))'
      BY SMTT(40), <2>1, <2>3, <2>5, <2>8, <2>11, <3>3, <3>4, <3>5 DEF Matches
    <3>7. PadsInForce(o, r)'
      <4>1. \A j \in 1..(frames[o].crash + Len(Static(o, r).pads)) :
              crash_stack'[j] = crash_stack[j]
        BY <2>3, <2>8, <3>5
      <4>2. r \in DOMAIN Cert[frames[o].fn] /\ PadsInForce(o, r)
        BY <3>2, <3>5
      <4> QED
        BY <2>1, <3>3, <4>1, <4>2, PadsInForceKept
    <3>8. PadsInForce(o, pc)'
      BY <2>11, <3>4, <3>7 DEF PadsInForce
    <3>9. /\ mode' = "run" /\ base' = frames'[o].fn /\ o = Len(frames')
          /\ ArgsAt(base, param_base, frames[o].low)' /\ frames' # <<>>
      BY <2>1, <2>8, <2>11, <3>2, <3>3 DEF control, ArgsAt
    <3> QED
      BY <2>8, <3>1, <3>6, <3>8, <3>9 DEF ControlInv, Running
  <2> QED
    BY <1>3, <2>10, <2>11
<1>4. Last(frames) = frames[n]
  BY ExecutingFacts DEF Last
<1> QED
  BY <1>2, <1>3, <1>4 DEF Ret

\* A crash frame always fits under what is left of the stacks, so that the pad it
\* stands for is entered, in the activation that installed it.
LEMMA EnterPadKeeps ==
  ASSUME ControlInv, EnterPad
  PROVE  ControlInv'
<1>1. PICK k, c : k = Len(crash_stack) /\ c = crash_stack[k]
  OBVIOUS
<1>2. PICK o, d, q, sl, pl :
       /\ o = c.owner /\ d = k - 1
       /\ q = c.pc /\ sl = c.storage_len /\ pl = c.param_len
  OBVIOUS
<1>3. /\ TypeOK /\ Stacked /\ Suspended /\ Pads /\ Last(crash_stack) = c
      /\ crash_stack # <<>> /\ crash_stack \in Seq(Pad)
  BY <1>1 DEF ControlInv, EnterPad, TypeOK, Last
<1>4. k \in 1..Len(crash_stack) /\ k \in Nat \ {0}
  BY <1>3, <1>1
<1>5. /\ q \in Nat \ {0} /\ c.base \in Func
      /\ sl \in Nat /\ pl \in Nat /\ c.param_base \in Nat
  BY <1>3, <1>4, <1>1, <1>2, PadFields
<1>6. PadOK(k)
  BY <1>3, <1>4 DEF Pads
<1>7. /\ o \in 1..Len(frames)
      /\ c.base = frames[o].fn /\ ArgsAt(c.base, c.param_base, frames[o].low)
      /\ Matches(o, q, sl, pl, k - 1)
      /\ PadsInForce(o, q)
      /\ pl <= Len(params)
      /\ \A n \in 1..Len(frames) : n > o =>
           /\ sl + RetSize <= frames[n].at
           /\ pl <= frames[n].low
           /\ k <= frames[n].crash
  BY <1>6, <1>1, <1>2 DEF PadOK
<1>8. /\ q \in DOMAIN Cert[frames[o].fn]
      /\ sl = frames[o].at + Static(o, q).frame
      /\ d = frames[o].crash + Len(Static(o, q).pads)
  BY <1>7, <1>2 DEF Matches
<1>9. /\ frames[o].at \in Nat /\ frames[o].low \in Nat /\ frames[o].crash \in Nat
      /\ Len(frames) \in Nat /\ Static(o, q).frame \in Nat
      /\ Len(Static(o, q).pads) \in Nat /\ Args[frames[o].fn] \in Nat
      /\ o \in 0..Len(frames) /\ o \in Nat \ {0}
  <2>1. /\ Static(o, q).frame \in Nat /\ Len(Static(o, q).pads) \in Nat
        /\ Args[frames[o].fn] \in Nat
    BY <1>3, <1>7, <1>8, StaticFacts
  <2>2. /\ frames[o].at \in Nat /\ frames[o].low \in Nat /\ frames[o].crash \in Nat
        /\ Len(frames) \in Nat
    BY <1>3, <1>7, FrameFields
  <2>3. o \in 0..Len(frames) /\ o \in Nat \ {0}
    BY <1>7, <2>2
  <2> QED
    BY <2>1, <2>2, <2>3
<1>10. pl = frames[o].low + Args[frames[o].fn]
  BY <1>3, <1>4, <1>7, <1>1, <1>2, PadState
<1>11. PICK at, low, below, frame, pads, args :
       /\ at = frames[o].at /\ low = frames[o].low /\ below = frames[o].crash
       /\ frame = Static(o, q).frame /\ pads = Len(Static(o, q).pads)
       /\ args = Args[frames[o].fn]
  OBVIOUS
<1>12. /\ at \in Nat /\ low \in Nat /\ below \in Nat
       /\ frame \in Nat /\ pads \in Nat /\ args \in Nat
       /\ sl = at + frame /\ pl = low + args /\ d = below + pads
  BY <1>8, <1>9, <1>10, <1>11
<1>13. at <= sl /\ low <= pl /\ below <= d /\ sl \in Nat /\ pl \in Nat /\ d \in Nat
  BY <1>12
<1>14. d \in 0..Len(crash_stack) /\ d < k
  BY <1>4, <1>13, <1>1, <1>2
<1>15. ASSUME NEW m \in 1..o
       PROVE  /\ m \in 1..Len(frames)
              /\ frames[m].at <= sl /\ frames[m].low <= pl
              /\ frames[m].crash <= d
  <2>1. m \in 1..Len(frames)
    BY <1>9
  <2>2. frames[m].at \in Nat /\ frames[m].low \in Nat /\ frames[m].crash \in Nat
    BY <1>3, <2>1, FrameFields
  <2>3. CASE m = o
    BY <1>13, <1>11, <2>1, <2>3
  <2>4. CASE m < o
    <3>1. /\ frames[m].at + RetSize <= at /\ frames[m].low <= low
          /\ frames[m].crash <= below
      BY <1>3, <1>7, <1>11, <2>1, <2>4 DEF Stacked
    <3>2. frames[m].at <= sl
      BY <1>13, <1>12, <2>2, <3>1, RetSizeAssumption
    <3>3. frames[m].low <= pl
      BY <1>13, <1>12, <2>2, <3>1
    <3>4. frames[m].crash <= d
      BY <1>13, <1>12, <2>2, <3>1
    <3> QED
      BY <2>1, <3>2, <3>3, <3>4
  <2> QED
    BY <1>9, <2>3, <2>4
<1>16. Surviving(sl) = SubSeq(frames, 1, o)
  <2>1. ASSUME o < Len(frames) PROVE frames[o + 1].at > sl
    <3>1. o + 1 \in 1..Len(frames) /\ o + 1 > o
      BY <1>9, <2>1
    <3>2. sl + RetSize <= frames[o + 1].at /\ frames[o + 1].at \in Nat
      BY <1>3, <1>7, <3>1, FrameFields
    <3> QED
      BY SMTT(40), <1>5, <3>2, RetSizeAssumption
  <2>2. \A i \in 1..o : frames[i].at <= sl
    BY <1>15
  <2>3. sl \in Int /\ o \in 0..Len(frames)
    BY <1>9, <1>13
  <2> QED
    BY <1>3, <2>1, <2>2, <2>3, SurvivingIs
<1>17. /\ frames' = SubSeq(frames, 1, o) /\ crash_stack' = SubSeq(crash_stack, 1, d)
       /\ storage_len' = sl /\ params' = SubSeq(params, 1, pl)
       /\ pc' = q /\ base' = c.base /\ param_base' = c.param_base
       /\ mode' = "run" /\ runs' = runs
  BY <1>3, <1>16, <1>1, <1>2 DEF EnterPad, RestoreStacks, RestoreCursor, PopFrame, Front
<1>18. params' \in Seq(Int) /\ Len(params') = pl
  <2>1. params \in Seq(Int) /\ Len(params) \in Nat
    BY <1>3, SeqLen DEF TypeOK
  <2>2. pl \in 0..Len(params)
    BY <1>5, <1>7, <2>1
  <2> QED
    BY <1>17, <2>1, <2>2, CutTo
<1>19. ASSUME NEW j \in 1..d
       PROVE  /\ crash_stack[j].owner <= o
              /\ crash_stack[j].storage_len <= sl
              /\ crash_stack[j].param_len <= pl
  <2>1. j \in 1..Len(crash_stack) /\ j <= d /\ j < k /\ j \in Nat
    BY <1>4, <1>14
  <2>2. PICK w \in 1..Len(frames) : crash_stack[j].owner = w
    BY <1>3, <2>1, PadOwner
  <2>3. /\ crash_stack[j].storage_len \in Nat /\ crash_stack[j].param_len \in Nat
    BY <1>3, <2>1, PadFields
  <2>4. ~(w > o)
    <3>1. SUFFICES ASSUME w > o PROVE FALSE
      OBVIOUS
    <3>2. k <= frames[w].crash /\ frames[w].crash \in Nat
      BY <1>3, <1>7, <3>1, FrameFields
    <3>3. j > frames[w].crash
      BY <1>3, <2>1, <2>2, PadState
    <3> QED
      BY <1>4, <2>1, <3>2, <3>3
  <2>5. CASE w = o
    <3>1. crash_stack[j].storage_len <= frames[o].at + Static(o, q).frame
      BY <1>3, <1>7, <1>8, <2>1, <2>2, <2>5, PadBelow
    <3>2. crash_stack[j].param_len = frames[o].low + Args[frames[o].fn]
      BY <1>3, <1>7, <2>1, <2>2, <2>5, PadState
    <3>3. crash_stack[j].param_len <= pl
      BY <1>5, <1>10, <3>2
    <3>4. o <= o
      BY <1>9
    <3> QED
      BY <1>8, <2>2, <2>5, <3>1, <3>3, <3>4
  <2>6. CASE w < o
    <3>1. /\ crash_stack[j].storage_len + RetSize <= at
          /\ crash_stack[j].param_len <= low
      BY <1>3, <1>7, <1>11, <2>1, <2>2, <2>6 DEF Pads, PadOK
    <3>2. crash_stack[j].storage_len <= sl
      BY <1>13, <1>12, <2>3, <3>1, RetSizeAssumption
    <3>3. crash_stack[j].param_len <= pl
      BY <1>13, <1>12, <2>3, <3>1
    <3>4. w <= o
      BY <1>9, <2>6
    <3> QED
      BY <2>2, <3>2, <3>3, <3>4
  <2> QED
    BY <1>9, <2>4, <2>5, <2>6
<1>20. /\ Stacked' /\ Suspended' /\ Pads'
       /\ frames' \in Seq(Frame) /\ crash_stack' \in Seq(Pad)
       /\ Len(frames') = o /\ Len(crash_stack') = d
       /\ \A m \in 1..o : frames'[m] = frames[m]
       /\ \A j \in 1..d : crash_stack'[j] = crash_stack[j]
  <2>1. /\ o \in 0..Len(frames) /\ d \in 0..Len(crash_stack)
        /\ frames' = SubSeq(frames, 1, o) /\ crash_stack' = SubSeq(crash_stack, 1, d)
    BY <1>9, <1>14, <1>17
  <2>2. storage_len' = sl /\ Len(params') = pl
    BY <1>17, <1>18
  <2> QED
    BY <1>3, <1>15, <1>19, <2>1, <2>2, CutDown
<1>21. TypeOK'
  BY <1>3, <1>5, <1>17, <1>18, <1>20 DEF TypeOK
<1>22. Running'
  <2>1. o \in 1..o /\ frames'[o] = frames[o] /\ frames' # <<>>
    BY <1>9, <1>20
  <2>2. \A p : Static(o, p)' = Static(o, p)
    BY <2>1, StaticKept
  <2>3. ArgsAt(base, param_base, frames[o].low)' /\ base' = frames'[o].fn
    BY <1>7, <1>17, <2>1 DEF ArgsAt
  <2>4. Matches(o, pc, storage_len, Len(params), Len(crash_stack))'
    BY <1>7, <1>17, <1>18, <1>20, <1>2, <2>1, <2>2 DEF Matches
  <2>5. PadsInForce(o, q)'
    BY <1>3, <1>7, <1>8, <1>20, <2>1, PadsInForceKept
  <2>6. PadsInForce(o, pc)'
    BY <1>17, <2>2, <2>5 DEF PadsInForce
  <2> QED
    BY <1>20, <2>1, <2>3, <2>4, <2>6 DEF Running
<1> QED
  BY <1>20, <1>21, <1>22 DEF ControlInv

\* So a bad crash frame is never met.
LEMMA NoBadFrame ==
  ASSUME ControlInv, crash_stack # <<>>
  PROVE  ~BadFrame(Last(crash_stack))
<1> PICK k : k = Len(crash_stack)
  OBVIOUS
<1>1. TypeOK /\ Pads /\ crash_stack \in Seq(Pad)
  BY DEF ControlInv, TypeOK
<1>2. k \in 1..Len(crash_stack) /\ Last(crash_stack) = crash_stack[k]
  BY <1>1 DEF Last
<1>3. /\ crash_stack[k].storage_len <= storage_len
      /\ crash_stack[k].param_len <= Len(params)
  BY <1>1, <1>2 DEF Pads, PadOK
<1>4. /\ storage_len \in Nat /\ Len(params) \in Nat
      /\ crash_stack[k].storage_len \in Nat /\ crash_stack[k].param_len \in Nat
  BY <1>1, <1>2, PadFields, SeqLen DEF TypeOK
<1> QED
  BY <1>2, <1>3, <1>4 DEF BadFrame

-----------------------------------------------------------------------------
(* The theorems.                                                           *)

\* Every step of the machine keeps the invariant.
LEMMA StepKeeps ==
  ASSUME ControlInv, Next
  PROVE  ControlInv'
<1>1. CASE Execute
  <2>1. PICK n : n = Len(frames)
    OBVIOUS
  <2>2. mode = "run"
    BY <1>1 DEF Execute, Ret, StorageAdd, PushVar, PushArg, PushGlobal, DropN, Pop1,
      Index, Top1, Jump, Branch, BranchTop, PushCrash, PopCrash, Crash, HardCrash,
      Done, Call, CallNative, At
  <2>3. Executing(n)
    BY <2>1, <2>2, RunningState DEF Executing, ControlInv
  <2>4. I.op \in Compiled
    BY <2>3, ExecutingFacts, Contract DEF StepOK
  <2>5. ~Branch /\ ~Done
    BY <2>4 DEF Branch, Done, At, Compiled
  <2> QED
    BY <1>1, <2>3, <2>5, RetKeeps, StorageAddKeeps, PushVarKeeps, PushArgKeeps,
       PushGlobalKeeps, DropNKeeps, Pop1Keeps, IndexKeeps, Top1Keeps, JumpKeeps,
       BranchTopKeeps, PushCrashKeeps, PopCrashKeeps, CrashKeeps, CallKeeps,
       CallNativeKeeps DEF Execute
<1>2. CASE Uncaught
  BY <1>2, StopsClean DEF Uncaught, Return
<1>3. CASE DropBadFrame
  BY <1>3, NoBadFrame DEF DropBadFrame
<1>4. CASE EnterPad
  BY <1>4, EnterPadKeeps
<1>5. CASE ResetStacks
  BY <1>5, ResetKeeps
<1>6. CASE \E f \in Entry : VmRun(f)
  BY <1>6, VmRunKeeps
<1> QED
  BY <1>1, <1>2, <1>3, <1>4, <1>5, <1>6 DEF Next, Machine, Unwind

\* So does a step that changes none of its variables.
LEMMA StutterKeeps ==
  ASSUME ControlInv, UNCHANGED vars
  PROVE  ControlInv'
<1>1. UNCHANGED <<mode, base, pc, param_base, runs, storage_len, frames, params,
                  crash_stack>>
  BY DEF vars
<1>2. \A n, p : Static(n, p)' = Static(n, p)
  BY <1>1 DEF Static
<1> QED
  BY <1>1, <1>2 DEF ControlInv, TypeOK, Stacked, Suspended, Resumes, Running, Pads,
    PadOK, Matches, PadsInForce, ArgsAt

\* The stacks of a new VM are empty.
LEMMA InitHolds == Init => ControlInv
  BY DEF Init, ControlInv, TypeOK, Stacked, Suspended, Running, Pads

\* In every run of vm_run on certified bytecode, whatever earlier runs left on the
\* stacks: the types of the machine's state (vm.h), the activations lie on the
\* stacks in order, each suspended one can be resumed, the running one is in the
\* state the compiler computed for the instruction it is at, and every crash frame
\* restores such a state.
THEOREM ControlSafe == Spec => []ControlInv
<1>1. ControlInv /\ [Next]_vars => ControlInv'
  BY StepKeeps, StutterKeeps
<1> QED
  BY <1>1, InitHolds, PTL DEF Spec

\* The state of the machine (vm.h, struct VM, and the locals of vm_run) has the
\* types of its declarations in all runs.
THEOREM TypeSafe == Spec => []TypeOK
<1>1. ControlInv => TypeOK
  BY DEF ControlInv
<1> QED
  BY <1>1, ControlSafe, PTL

-----------------------------------------------------------------------------
(* What follows for the run time checks.                                   *)

\* A crash has an error to report.
Reported == NoDefects /\ (mode = "crash" => ans # "OK")

\* Return and `goto crash' with an error of the program
LEMMA ReportsOther ==
  ASSUME Reported, NEW r, r \notin Defects, r # "OK", Return(r) \/ Fault(r)
  PROVE  Reported'
  BY DEF Reported, NoDefects, Return, Fault, Sticky

\* Leaving vm_run, or staying in it, with no new error
LEMMA ReportsNothing ==
  ASSUME Reported, mode' # "crash", UNCHANGED <<ans, result>>
  PROVE  Reported'
  BY DEF Reported, NoDefects

\* Going on to the next instruction
LEMMA GoReports ==
  ASSUME Reported, NEW q, Go(q), mode = "run"
  PROVE  Reported'
  BY DEF Reported, NoDefects, Go, control

\* The errors that are no defects of the stacks
LEMMA OtherErrors ==
  /\ \A r \in {"OOM_STORAGE", "OOM_PARAM", "OOM_CRASH", "ARRAY_BOUNDS", "CRASH",
               "HARD_CRASH", "NULL_NATIVE_FUNC"} : r \notin Defects /\ r # "OK"
  /\ "OK" \notin Defects
  BY DEF Defects

\* No instruction finds its operands missing.
LEMMA ChecksPass ==
  ASSUME NEW n, Executing(n)
  PROVE  /\ At("STORAGE_ADD") => ~(storage_len + I.n < 0)
         /\ At("PUSH_VAR") => ~BadOffset(I.off)
         /\ At("PUSH_ARG") => param_base + I.idx < Len(params)
         /\ At("PUSH_GLOBAL") => ~I.null
         /\ At("DROP_N") => ~(Len(params) < I.n)
         /\ At("POP1") \/ At("INDEX") => ~(Len(params) < 2)
         /\ At("TOP1") \/ At("BRANCH_TOP") => ~(Len(params) < 1)
         /\ At("POP_CRASH") => crash_stack # <<>>
         /\ At("CALL") => I.callee # NoFunc /\ ~(Len(params) < I.argc)
         /\ At("CALL_NATIVE") =>
              ~(Len(params) < 1) /\ ~(Len(params) - 1 < I.argc)
         /\ At("RET") => ~(storage_len < RetSize)
         /\ I.op \in Compiled
<1> DEFINE height == Cert[base][pc].height
           frame == Cert[base][pc].frame
           low == frames[n].low
           at == frames[n].at
           args == Args[base]
           len == Len(params)
<1>1. /\ storage_len \in Nat /\ param_base \in Nat /\ len \in Nat /\ low \in Nat
      /\ at \in Nat /\ args \in Nat /\ frame \in Nat /\ height \in Int
      /\ len = low + args + height /\ storage_len = at + frame
  BY ExecutingFacts
<1>2. StepOK(I, Cert[base], pc, Args, Ins, base)
  BY ExecutingFacts, Contract
<1>3. ASSUME NEW k \in Nat, height >= k PROVE ~(len < k)
  <2> HIDE DEF height, frame, low, at, args, len
  <2> QED
    BY <1>1, <1>3
<1>4. At("STORAGE_ADD") => ~(storage_len + I.n < 0)
  <2> HAVE At("STORAGE_ADD")
  <2>1. I.n \in Int /\ Flow(Cert[base], pc, pc + 1, I.n, 0, Cert[base][pc].pads)
    BY <1>2 DEF At, StepOK
  <2>2. pc + 1 \in DOMAIN Cert[base] /\ Cert[base][pc + 1].frame = frame + I.n
    BY <2>1 DEF Flow
  <2>3. Cert[base][pc + 1].frame \in Nat
    BY <2>2, ExecutingFacts, CertFacts DEF Running1
  <2> DEFINE d == I.n
             next == Cert[base][pc + 1].frame
  <2>4. d \in Int /\ next \in Nat /\ next = frame + d
    BY <2>1, <2>2, <2>3
  <2> HIDE DEF height, frame, low, at, args, len, d, next
  <2>5. ~(storage_len + d < 0)
    BY <1>1, <2>4
  <2> QED
    BY <2>5 DEF d
<1>5. At("PUSH_VAR") => ~BadOffset(I.off)
  <2> HAVE At("PUSH_VAR")
  <2> DEFINE off == I.off
  <2>1. off \in Int /\ off < 0 /\ frame + off >= 0
    BY <1>2 DEF At, StepOK
  <2> HIDE DEF height, frame, low, at, args, len, off
  <2>2. ~(off > 0 \/ storage_len + off < 0)
    BY <1>1, <2>1
  <2> QED
    BY <2>2 DEF BadOffset, off
<1>6. At("PUSH_ARG") => param_base + I.idx < Len(params)
  <2> HAVE At("PUSH_ARG")
  <2> DEFINE idx == I.idx
  <2>1. idx \in Nat /\ idx < args /\ height >= 0
    BY <1>2 DEF At, StepOK
  <2>2. param_base = low \/ args = 0
    BY ExecutingFacts DEF Running1, ArgsAt
  <2> HIDE DEF height, frame, low, at, args, len, idx
  <2>3. param_base = low
    BY <1>1, <2>1, <2>2
  <2>4. param_base + idx < len
    BY <1>1, <2>1, <2>3
  <2> QED
    BY <2>4 DEF idx, len
<1>7. At("DROP_N") => ~(Len(params) < I.n)
  <2> HAVE At("DROP_N")
  <2> DEFINE k == I.n
             ins == Ins[base]
  <2>1. k \in Nat /\ (k <= height \/ (height = 0 /\ k = ins))
    <3>1. I.op = "DROP_N"
      BY DEF At
    <3>2. /\ I.n \in Nat
          /\ \/ I.n <= Cert[base][pc].height
             \/ Cert[base][pc].height = 0 /\ I.n = Ins[base]
      BY <1>2, <3>1 DEF StepOK
    <3> QED
      BY <3>2
  <2>2. ins \in Nat /\ ins <= args
    BY ExecutingFacts, CertifiedAssumption DEF Certified, Running1
  <2> HIDE DEF height, frame, low, at, args, len, k, ins
  <2>3. ~(len < k)
    BY <1>1, <2>1, <2>2
  <2> QED
    BY <2>3 DEF len, k
<1>8. At("POP1") \/ At("INDEX") => ~(Len(params) < 2)
  BY <1>2, <1>3 DEF At, StepOK
<1>9. At("TOP1") \/ At("BRANCH_TOP") => ~(Len(params) < 1)
  BY <1>2, <1>3 DEF At, StepOK
<1>10. At("POP_CRASH") => crash_stack # <<>>
  <2> HAVE At("POP_CRASH")
  <2>1. Cert[base][pc].pads # <<>>
    BY <1>2 DEF At, StepOK
  <2>2. /\ Static(n, pc) = Cert[base][pc]
        /\ Len(crash_stack) = frames[n].crash + Len(Static(n, pc).pads)
        /\ pc \in DOMAIN Cert[frames[n].fn] /\ n \in 1..Len(frames) /\ TypeOK
    BY ExecutingFacts DEF Running1
  <2>3. Static(n, pc).pads \in Seq(Nat \ {0}) /\ frames[n].crash \in Nat
    BY <2>2, StaticFacts, FrameFields
  <2>4. Len(Static(n, pc).pads) \in Nat \ {0}
    BY <2>1, <2>2, <2>3
  <2>5. Len(crash_stack) # 0
    BY <2>2, <2>3, <2>4
  <2> QED
    BY <2>5
<1>11. At("CALL") => I.callee # NoFunc /\ ~(Len(params) < I.argc)
  <2> HAVE At("CALL")
  <2>1. I.callee \in DOMAIN Args /\ I.argc = Args[I.callee] /\ height >= I.argc
    BY <1>2 DEF At, StepOK
  <2>2. Args \in [Func -> Nat]
    BY CertifiedAssumption DEF Certified
  <2>3. I.callee \in Func /\ I.argc \in Nat
    BY <2>1, <2>2
  <2> QED
    BY <1>3, <2>1, <2>3, NoFuncAssumption
<1>12. At("CALL_NATIVE") => ~(Len(params) < 1) /\ ~(Len(params) - 1 < I.argc)
  <2> HAVE At("CALL_NATIVE")
  <2> DEFINE argc == I.argc
  <2>1. argc \in Nat /\ height >= argc + 1
    BY <1>2 DEF At, StepOK
  <2> HIDE DEF height, frame, low, at, args, len, argc
  <2>2. ~(len < 1) /\ ~(len - 1 < argc)
    BY <1>1, <2>1
  <2> QED
    BY <2>2 DEF len, argc
<1>13. At("RET") => ~(storage_len < RetSize)
  <2>1. frames[n].at >= RetSize
    BY ExecutingFacts DEF ControlInv, Stacked
  <2> HIDE DEF height, frame, low, args, len
  <2> QED
    BY <1>1, <2>1, RetSizeAssumption
<1>14. At("PUSH_GLOBAL") => ~I.null
  BY <1>2 DEF At, StepOK
<1>15. I.op \in Compiled
  BY <1>2 DEF StepOK
<1> QED
  BY <1>4, <1>5, <1>6, <1>7, <1>8, <1>9, <1>10, <1>11, <1>12, <1>13, <1>14, <1>15

\* No instruction reports a defect of the stacks.
LEMMA ExecuteReports ==
  ASSUME NEW n, Executing(n), Reported, Execute
  PROVE  Reported'
<1> USE DEF NoDefects
<1>1. mode = "run" /\ I.op \in Compiled
  BY ExecutingFacts, ChecksPass
<1>2. CASE Ret
  <2>1. Return("OK") \/ UNCHANGED control
    BY <1>2, ChecksPass DEF Ret
  <2> QED
    BY <1>1, <2>1, OtherErrors DEF Reported, Return, control
<1>3. CASE StorageAdd
  BY <1>1, <1>3, ChecksPass, OtherErrors, ReportsOther, GoReports DEF StorageAdd, Next1
<1>4. ASSUME NEW p, Push(p) PROVE Reported'
  BY <1>1, <1>4, OtherErrors, ReportsOther, GoReports DEF Push, Next1
<1>5. CASE PushVar
  BY <1>4, <1>5, ChecksPass DEF PushVar
<1>6. CASE PushArg
  <2>1. Push(params[param_base + I.idx + 1])
    <3>1. param_base + I.idx < Len(params) /\ I.idx \in Int /\ param_base \in Nat
          /\ Len(params) \in Nat
      BY <1>6, ChecksPass, ExecutingFacts, Contract DEF PushArg, At, StepOK
    <3> QED
      BY <1>6, <3>1 DEF PushArg
  <2> QED
    BY <1>4, <2>1
<1>7. CASE PushGlobal
  BY <1>4, <1>7, ChecksPass DEF PushGlobal
<1>8. CASE DropN
  BY <1>1, <1>8, ChecksPass, GoReports DEF DropN, Underflow, Next1
<1>9. CASE Pop1
  <2>1. I.faults \cap (Defects \union {"OK"}) = {}
    BY <1>9, ExecutingFacts, Contract DEF Pop1, At, StepOK
  <2>2. ASSUME NEW r \in I.faults, Fault(r) PROVE Reported'
    BY <2>1, <2>2, ReportsOther
  <2> QED
    BY <1>1, <1>9, <2>2, ChecksPass, GoReports DEF Pop1, Underflow, Next1
<1>10. CASE Index
  BY <1>1, <1>10, ChecksPass, OtherErrors, ReportsOther, GoReports
    DEF Index, Underflow, Next1
<1>11. CASE Top1
  BY <1>1, <1>11, ChecksPass, GoReports DEF Top1, Underflow, Next1
<1>12. CASE Jump
  BY <1>1, <1>12, GoReports DEF Jump
<1>13. CASE BranchTop
  BY <1>1, <1>13, ChecksPass, GoReports DEF BranchTop, Underflow
<1>14. CASE PushCrash
  BY <1>1, <1>14, OtherErrors, ReportsOther, GoReports DEF PushCrash, Next1
<1>15. CASE PopCrash
  BY <1>1, <1>15, ChecksPass, GoReports DEF PopCrash, Next1
<1>16. CASE Crash
  BY <1>16, OtherErrors, ReportsOther DEF Crash
<1>17. CASE HardCrash
  BY <1>17, OtherErrors, ReportsOther DEF HardCrash
<1>18. CASE Call
  <2>1. Fault("OOM_STORAGE") \/ UNCHANGED control
    BY <1>18, ChecksPass DEF Call, Underflow
  <2>2. CASE Fault("OOM_STORAGE")
    BY <2>2, OtherErrors, ReportsOther
  <2>3. CASE UNCHANGED control
    BY <1>1, <2>3 DEF Reported, control
  <2> QED
    BY <2>1, <2>2, <2>3
<1>19. CASE CallNative
  <2>1. ASSUME NEW r, r \in NativeResults, r # "OK", Return(r) \/ Fault(r)
        PROVE  Reported'
    BY <2>1, NativeAssumption, ReportsOther
  <2>2. ASSUME NEW r, r \in NativeResults \cap {"NULL_NATIVE_FUNC", "HARD_CRASH"},
               Return(r)
        PROVE  Reported'
    BY <2>1, <2>2
  <2>3. ASSUME NEW r, r \in NativeResults \ {"OK", "NULL_NATIVE_FUNC", "HARD_CRASH"},
               Fault(r)
        PROVE  Reported'
    BY <2>1, <2>3
  <2>4. CASE Next1
    BY <1>1, <2>4, GoReports DEF Next1
  <2> QED
    BY <1>19, <2>2, <2>3, <2>4, ChecksPass DEF CallNative, Underflow
<1>20. ~Branch /\ ~Done
  BY <1>1 DEF Branch, Done, At, Compiled
<1> QED
  BY <1>2, <1>3, <1>5, <1>6, <1>7, <1>8, <1>9, <1>10, <1>11, <1>12, <1>13, <1>14,
     <1>15, <1>16, <1>17, <1>18, <1>19, <1>20 DEF Execute

\* Nor does any other step of the machine.
LEMMA StepReports ==
  ASSUME ControlInv, Reported, Next
  PROVE  Reported'
<1>1. CASE Execute
  <2>1. PICK n : n = Len(frames)
    OBVIOUS
  <2>2. mode = "run"
    BY <1>1 DEF Execute, Ret, StorageAdd, PushVar, PushArg, PushGlobal, DropN, Pop1,
      Index, Top1, Jump, Branch, BranchTop, PushCrash, PopCrash, Crash, HardCrash,
      Done, Call, CallNative, At
  <2>3. Executing(n)
    BY <2>1, <2>2, RunningState DEF Executing, ControlInv
  <2> QED
    BY <1>1, <2>3, ExecuteReports
<1>2. CASE Uncaught
  BY <1>2 DEF Uncaught, Return, Sticky, Reported, NoDefects
<1>3. CASE DropBadFrame
  BY <1>3, NoBadFrame DEF DropBadFrame
<1>4. CASE EnterPad
  BY <1>4 DEF EnterPad, Reported, NoDefects
<1>5. CASE ResetStacks
  BY <1>5 DEF ResetStacks, control, Reported, NoDefects
<1>6. ASSUME NEW f \in Entry, VmRun(f) PROVE Reported'
  BY <1>6, OtherErrors DEF VmRun, Reported, NoDefects
<1> QED
  BY <1>1, <1>2, <1>3, <1>4, <1>5, <1>6 DEF Next, Machine, Unwind

\* The run time checks of vm_run on its own stacks (vm.c:974-978, 1013, 1022-1034,
\* 1056, 1326, 1343, 1357-1373) never fail on certified bytecode: no run ends with one of
\* their errors, not even one on stacks that earlier runs left behind.
THEOREM ChecksNeverFail == Spec => []NoDefects
<1>1. Init => ControlInv /\ Reported
  BY InitHolds, OtherErrors DEF Init, Reported, NoDefects
<1>2. (ControlInv /\ Reported) /\ [Next]_vars => (ControlInv /\ Reported)'
  <2>1. ASSUME Reported, UNCHANGED vars PROVE Reported'
    BY <2>1 DEF vars, Reported, NoDefects
  <2> QED
    BY <2>1, StepKeeps, StutterKeeps, StepReports
<1>3. ControlInv /\ Reported => NoDefects
  BY DEF Reported
<1> QED
  BY <1>1, <1>2, <1>3, PTL DEF Spec

\* vm_run never fetches an instruction from outside the code of a function, and
\* never takes bytes for a ReturnFrame that are none (vm.c:992, 1000-1006),
\* which are the two things it does not check.
THEOREM NeverUndefined == Spec => []Defined
<1>1. ASSUME ControlInv PROVE Defined
  <2>1. SUFFICES ASSUME mode = "run"
                 PROVE  pc \in 1..Len(Code[base]) /\ (At("RET") => FrameOnTop)
    BY DEF Defined
  <2>2. PICK n : n = Len(frames)
    OBVIOUS
  <2>3. Executing(n)
    BY <1>1, <2>1, <2>2, RunningState DEF Executing, ControlInv
  <2>4. pc \in 1..Len(Code[base])
    BY <2>3, ExecutingFacts, CertFacts DEF Running1
  <2>5. At("RET") => FrameOnTop
    BY <2>3, ExecutingFacts, RetState DEF FrameOnTop, Last
  <2> QED
    BY <2>4, <2>5
<1> QED
  BY <1>1, ControlSafe, PTL

\* A function returns with the calling convention of the README's IR Model kept: its
\* frame, its pads and its inputs are gone, and nothing else (vm.c:999-1007, 1345-1351).
THEOREM ReturnsBalanced == Spec => BalancedReturns
<1> DEFINE Kept == At("RET") =>
       LET a == Last(frames) IN
         /\ storage_len' = a.at - RetSize
         /\ Len(params') = a.low + Args[a.fn] - Ins[a.fn]
         /\ Len(crash_stack') = a.crash
<1>1. ASSUME ControlInv, Next PROVE Kept
  <2>1. SUFFICES ASSUME At("RET")
                 PROVE  /\ storage_len' = Last(frames).at - RetSize
                        /\ Len(params') = Last(frames).low + Args[Last(frames).fn]
                                            - Ins[Last(frames).fn]
                        /\ Len(crash_stack') = Last(frames).crash
    OBVIOUS
  <2>2. mode = "run" /\ I.op = "RET"
    BY <2>1 DEF At
  <2>3. Ret
    BY <1>1, <2>2 DEF Next, Machine, Execute, Unwind, Uncaught, DropBadFrame, EnterPad,
      ResetStacks, VmRun, StorageAdd, PushVar, PushArg, PushGlobal, DropN, Pop1, Index,
      Top1, Jump, Branch, BranchTop, PushCrash, PopCrash, Crash, HardCrash, Done, Call,
      CallNative, At
  <2>4. PICK n : n = Len(frames)
    OBVIOUS
  <2>5. Executing(n)
    BY <1>1, <2>2, <2>4, RunningState DEF Executing, ControlInv
  <2>6. storage_len' = storage_len - RetSize /\ UNCHANGED <<params, crash_stack>>
    BY <2>1, <2>3, <2>5, ChecksPass DEF Ret
  <2>7. Last(frames) = frames[n] /\ base = frames[n].fn
    BY <2>5, ExecutingFacts DEF Last
  <2> QED
    BY <2>1, <2>5, <2>6, <2>7, RetState
<1>2. ControlInv /\ [Next]_vars => [Kept]_vars
  BY <1>1
<1> QED
  BY <1>2, ControlSafe, PTL DEF Spec, BalancedReturns

-----------------------------------------------------------------------------
(* Any bytecode.                                                           *)

\* The operands that decide how far a stack is cut are numbers: they are copied out of
\* the code as such, whatever bytes are there (vm.c:104-122, 1011, 1055, 1356).  What a
\* failed check of the operands reports is an error (vm.c:1116, 1151, 1169, 1248, 1258).
Decoded ==
  /\ At("STORAGE_ADD") => I.n \in Int
  /\ At("DROP_N") => I.n \in Nat
  /\ At("CALL_NATIVE") => I.argc \in Nat
  /\ At("POP1") => "OK" \notin I.faults

-----------------------------------------------------------------------------
(* Errors.                                                                 *)

\* A run that ends at label crash reports the first error there was (vm.c:1383-1388),
\* on any bytecode whose operands decode, without a certificate: neither a pad that
\* crashes itself nor a bad crash frame replaces it, and there is one.
THEOREM ErrorsStick == Spec /\ []Decoded => FirstErrorWins
<1> DEFINE Recorded == mode = "crash" => ans # "OK"
<1> DEFINE Sticks == (ans # "OK" => ans' = ans) /\ Recorded'
<1> DEFINE Wins == /\ mode # "idle" /\ ans # "OK" => ans' = ans
                   /\ mode = "crash" /\ mode' = "idle" => ans # "OK" /\ result' = ans
<1>1. ASSUME NEW r, Return(r) PROVE Sticks
  BY <1>1 DEF Return
<1>2. ASSUME NEW r, r # "OK", Fault(r) PROVE Sticks
  BY <1>2 DEF Fault, Sticky
<1>3. ASSUME mode = "run", UNCHANGED control PROVE Sticks
  BY <1>3 DEF control
<1>4. ASSUME mode = "run", NEW q, Go(q) PROVE Sticks
  BY <1>3, <1>4 DEF Go
<1>5. ASSUME NEW k, Underflow(k) PROVE Sticks
  BY <1>1, <1>5 DEF Underflow
<1>6. ASSUME mode = "run", NEW p, Push(p) PROVE Sticks
  BY <1>2, <1>4, <1>6 DEF Push, Next1
<1> HIDE DEF Sticks
<1>7. Execute => mode = "run"
  BY DEF Execute, Ret, StorageAdd, PushVar, PushArg, PushGlobal, DropN, Pop1, Index,
    Top1, Jump, Branch, BranchTop, PushCrash, PopCrash, Crash, HardCrash, Done, Call,
    CallNative, At
<1>8. ASSUME Execute, Decoded PROVE Sticks
  <2>1. mode = "run"
    BY <1>7, <1>8
  <2>2. Ret \/ StorageAdd \/ Call => Sticks
    BY <1>1, <1>2, <1>3, <1>4, <1>5, <2>1 DEF Ret, StorageAdd, Call, Next1
  <2>3. PushVar \/ PushArg \/ PushGlobal => Sticks
    BY <1>1, <1>6, <2>1 DEF PushVar, PushArg, PushGlobal
  <2>4. DropN \/ Index \/ Top1 => Sticks
    BY <1>2, <1>4, <1>5, <2>1 DEF DropN, Index, Top1, Next1
  <2>5. Pop1 => Sticks
    BY <1>2, <1>4, <1>5, <1>8, <2>1 DEF Pop1, Next1, Decoded
  <2>6. Jump \/ Branch \/ BranchTop \/ PushCrash \/ PopCrash => Sticks
    BY <1>1, <1>2, <1>4, <1>5, <2>1 DEF Jump, Branch, BranchTop, PushCrash, PopCrash,
      Next1
  <2>7. Crash \/ HardCrash \/ Done => Sticks
    BY <1>1, <1>2 DEF Crash, HardCrash, Done
  <2>8. CallNative => Sticks
    BY <1>1, <1>2, <1>4, <1>5, <2>1 DEF CallNative, Next1
  <2> QED
    BY <1>8, <2>2, <2>3, <2>4, <2>5, <2>6, <2>7, <2>8 DEF Execute
<1>9. Unwind /\ Recorded => Recorded' /\ Wins
  BY DEF Unwind, Uncaught, DropBadFrame, EnterPad, Return, Sticky
<1>10. ResetStacks => Recorded' /\ Wins
  BY DEF ResetStacks, control
<1>11. (\E f \in Entry : VmRun(f)) => Recorded' /\ Wins
  BY DEF VmRun
<1>12. Recorded /\ Decoded /\ [Next]_vars => Recorded' /\ [Wins]_vars
  <2>1. Execute /\ Decoded => Recorded' /\ Wins
    BY <1>7, <1>8 DEF Sticks
  <2>2. UNCHANGED vars /\ Recorded => Recorded'
    BY DEF vars
  <2> QED
    BY <1>9, <1>10, <1>11, <2>1, <2>2 DEF Next, Machine
<1>13. Init => Recorded
  BY DEF Init
<1> HIDE DEF Recorded
<1> QED
  BY <1>12, <1>13, PTL DEF Spec, FirstErrorWins, Wins

-----------------------------------------------------------------------------
(* Stacks.                                                                 *)

\* What holds of the stacks without any check: storage may end anywhere, and a crash
\* frame may lie above it and above the parameters.
StacksTyped ==
  /\ storage_len \in Int
  /\ \E S : params \in Seq(S)
  /\ \E S : crash_stack \in Seq(S)
  /\ \A k \in 1..Len(crash_stack) :
       crash_stack[k].storage_len \in Int /\ crash_stack[k].param_len \in Nat

\* The length of the parameter stack is a number, and what is left of it when it is cut
\* is a stack again.
LEMMA ParamsCut ==
  ASSUME NEW S, params \in Seq(S)
  PROVE  /\ Len(params) \in Nat
         /\ \A len \in 0..Len(params) :
              SubSeq(params, 1, len) \in Seq(S) /\ Len(SubSeq(params, 1, len)) = len
  OBVIOUS

\* vm->param_stack.len -= n, when there are that many.
LEMMA ParamsDropped ==
  ASSUME StacksTyped, NEW n \in Nat, Len(params) >= n, DropParams(n)
  PROVE  \E S : params' \in Seq(S)
<1> PICK S : params \in Seq(S)
  BY DEF StacksTyped
<1>1. Len(params) - n \in 0..Len(params)
  BY ParamsCut
<1> QED
  BY <1>1, ParamsCut DEF DropParams

\* A step that leaves the crash stack alone.
LEMMA PadsLeft ==
  ASSUME StacksTyped, UNCHANGED crash_stack, storage_len' \in Int,
         \E S : params' \in Seq(S)
  PROVE  StacksTyped'
  BY DEF StacksTyped

\* A step that leaves all stacks alone.
LEMMA AllLeft ==
  ASSUME StacksTyped, UNCHANGED stacks
  PROVE  StacksTyped'
  BY DEF StacksTyped, stacks

\* The crash frame on top of the stack is popped.
LEMMA PadPopped ==
  ASSUME StacksTyped, crash_stack # <<>>, PopFrame, storage_len' \in Int,
         \E S : params' \in Seq(S)
  PROVE  /\ StacksTyped' /\ Len(crash_stack') < Len(crash_stack)
         /\ Last(crash_stack).storage_len \in Int /\ Last(crash_stack).param_len \in Nat
<1> PICK S : crash_stack \in Seq(S)
  BY DEF StacksTyped
<1>1. /\ Len(crash_stack) \in Nat /\ crash_stack' \in Seq(S)
      /\ Len(crash_stack') = Len(crash_stack) - 1
      /\ \A k \in 1..Len(crash_stack') : crash_stack'[k] = crash_stack[k]
  <2> PICK len : len = Len(crash_stack) - 1
    OBVIOUS
  <2>1. Len(crash_stack) \in Nat /\ len \in 0..Len(crash_stack)
    OBVIOUS
  <2>2. crash_stack' = SubSeq(crash_stack, 1, len)
    BY DEF PopFrame, Front
  <2> QED
    BY <2>1, <2>2
<1>2. Len(crash_stack) \in 1..Len(crash_stack)
  BY <1>1
<1>3. \A k \in 1..Len(crash_stack') : k \in 1..Len(crash_stack)
  BY <1>1
<1> QED
  BY <1>1, <1>2, <1>3 DEF StacksTyped, Last

\* The three pushes.
LEMMA PushTyped ==
  ASSUME StacksTyped, NEW p, Push(p)
  PROVE  StacksTyped'
<1>1. UNCHANGED <<storage_len, crash_stack>>
  BY DEF Push, storage
<1>2. \E S : params' \in Seq(S)
  <2> PICK S : params \in Seq(S)
    BY DEF StacksTyped
  <2>1. params \in Seq(S \union {p}) /\ Append(params, p) \in Seq(S \union {p})
    OBVIOUS
  <2> QED
    BY <2>1 DEF Push, PushParam
<1> QED
  BY <1>1, <1>2, PadsLeft DEF StacksTyped

\* push_crash
LEMMA PushCrashTyped ==
  ASSUME StacksTyped, PushCrash
  PROVE  StacksTyped'
<1>1. storage_len' = storage_len /\ params' = params
  BY DEF PushCrash, storage
<1>2. CASE UNCHANGED crash_stack
  BY <1>1, <1>2 DEF StacksTyped
<1>3. CASE ~UNCHANGED crash_stack
  <2> PICK S : crash_stack \in Seq(S)
    BY DEF StacksTyped
  <2> PICK c : c = [pc |-> I.target, base |-> base, storage_len |-> storage_len,
              param_len |-> Len(params), param_base |-> param_base,
              owner |-> Len(frames), saved |-> params]
    OBVIOUS
  <2>1. c.storage_len = storage_len /\ c.param_len = Len(params)
    OBVIOUS
  <2>2. crash_stack' = Append(crash_stack, c)
    BY <1>3 DEF PushCrash
  <2>3. crash_stack \in Seq(S \union {c}) /\ c \in S \union {c}
    OBVIOUS
  <2>4. /\ crash_stack' \in Seq(S \union {c}) /\ Len(crash_stack) \in Nat
        /\ Len(crash_stack') = Len(crash_stack) + 1
        /\ crash_stack'[Len(crash_stack) + 1] = c
        /\ \A k \in 1..Len(crash_stack) : crash_stack'[k] = crash_stack[k]
    BY <2>2, <2>3
  <2>5. Len(params) \in Nat
    BY ParamsCut DEF StacksTyped
  <2> QED
    BY <1>1, <2>1, <2>4, <2>5 DEF StacksTyped
<1> QED
  BY <1>2, <1>3

\* Every instruction keeps the types of the stacks.
LEMMA ExecuteTyped ==
  ASSUME StacksTyped, Decoded, Execute
  PROVE  StacksTyped'
<1>1. Ret => StacksTyped'
  BY RetSizeAssumption, PadsLeft DEF Ret, StacksTyped, storage
<1>2. StorageAdd => StacksTyped'
  BY PadsLeft DEF StorageAdd, StacksTyped, storage, Decoded
<1>3. PushVar \/ PushArg \/ PushGlobal => StacksTyped'
  BY PushTyped, AllLeft DEF PushVar, PushArg, PushGlobal
<1>4. ASSUME NEW n, Underflow(n) PROVE StacksTyped'
  BY <1>4, AllLeft DEF Underflow
<1>5. ASSUME NEW n \in Nat, Len(params) >= n, DropParams(n), UNCHANGED storage,
             UNCHANGED crash_stack
      PROVE  StacksTyped'
  BY <1>5, ParamsDropped, PadsLeft DEF storage, StacksTyped
<1>6. DropN => StacksTyped'
  BY <1>4, <1>5 DEF DropN, Decoded
<1>7. Pop1 \/ BranchTop => StacksTyped'
  <2>1. Len(params) \in Nat
    BY ParamsCut DEF StacksTyped
  <2> QED
    BY <2>1, <1>4, <1>5 DEF Pop1, BranchTop
<1>8. Index => StacksTyped'
  <2> SUFFICES ASSUME Index PROVE StacksTyped'
    OBVIOUS
  <2>1. Len(params) \in Nat
    BY ParamsCut DEF StacksTyped
  <2>2. CASE Len(params) >= 2 /\ UNCHANGED <<storage, crash_stack>> /\ DropParams(1)
    BY <2>1, <2>2, <1>5
  <2>3. CASE /\ Len(params) >= 2 /\ UNCHANGED <<storage, crash_stack>>
             /\ \E p : params' = Append(SubSeq(params, 1, Len(params) - 2), p)
    <3> PICK S : params \in Seq(S)
      BY DEF StacksTyped
    <3> PICK p : params' = Append(SubSeq(params, 1, Len(params) - 2), p)
      BY <2>3
    <3>1. Len(params) - 2 \in 0..Len(params)
      BY <2>1, <2>3
    <3>2. SubSeq(params, 1, Len(params) - 2) \in Seq(S)
      BY <3>1, ParamsCut
    <3>3. params' \in Seq(S \union {p})
      BY <3>2
    <3> QED
      BY <2>3, <3>3, PadsLeft DEF storage, StacksTyped
  <2> QED
    BY <2>2, <2>3, <1>4 DEF Index
<1>9. Top1 \/ Jump \/ Branch \/ Crash \/ HardCrash \/ Done => StacksTyped'
  BY <1>4, AllLeft DEF Top1, Jump, Branch, Crash, HardCrash, Done
<1>10. PopCrash => StacksTyped'
  <2> SUFFICES ASSUME PopCrash PROVE StacksTyped'
    OBVIOUS
  <2>1. storage_len' \in Int /\ \E S : params' \in Seq(S)
    BY DEF PopCrash, storage, StacksTyped
  <2> QED
    BY <2>1, PadPopped, PadsLeft DEF PopCrash
<1>11. Call => StacksTyped'
  <2> SUFFICES ASSUME Call PROVE StacksTyped'
    OBVIOUS
  <2>1. UNCHANGED <<params, crash_stack>>
    BY DEF Call, Underflow, stacks
  <2>2. storage_len' = storage_len \/ storage_len' = storage_len + RetSize
    BY DEF Call, Underflow, stacks, storage, PushReturn
  <2> QED
    BY <2>1, <2>2, RetSizeAssumption, PadsLeft DEF StacksTyped
<1>12. CallNative => StacksTyped'
  <2> SUFFICES ASSUME CallNative PROVE StacksTyped'
    OBVIOUS
  <2>1. Len(params) \in Nat /\ I.argc \in Nat
    BY ParamsCut DEF StacksTyped, Decoded, CallNative
  <2>2. CASE Len(params) >= 1 /\ UNCHANGED <<storage, crash_stack>> /\ DropParams(1)
    BY <2>1, <2>2, <1>5
  <2>3. CASE /\ Len(params) >= 1 /\ UNCHANGED <<storage, crash_stack>>
             /\ Len(params) - 1 >= I.argc /\ DropParams(I.argc + 1)
    BY <2>1, <2>3, <1>5
  <2> QED
    BY <2>2, <2>3, <1>4 DEF CallNative
<1> QED
  BY <1>1, <1>2, <1>3, <1>6, <1>7, <1>8, <1>9, <1>10, <1>11, <1>12, PushCrashTyped
     DEF Execute

\* What a step of the search for a pad does to the stacks.
Truncates ==
  /\ storage_len' <= storage_len
  /\ Len(params') <= Len(params)
  /\ Len(crash_stack') < Len(crash_stack) \/ mode' = "idle"

\* vm_set_crash_frame takes a frame only if neither stack gets longer.
LEMMA UnwindTyped ==
  ASSUME StacksTyped, Unwind
  PROVE  StacksTyped' /\ Truncates
<1> PICK S : params \in Seq(S)
  BY DEF StacksTyped
<1>1. Len(params) \in Nat /\ storage_len \in Int
  BY ParamsCut DEF StacksTyped
<1>2. CASE Uncaught
  <2>1. UNCHANGED stacks /\ mode' = "idle"
    BY <1>2 DEF Uncaught, Return
  <2> QED
    BY <1>1, <2>1, AllLeft DEF stacks, Truncates
<1>3. CASE DropBadFrame
  <2>1. /\ storage_len' = storage_len /\ params' = params
        /\ crash_stack # <<>> /\ PopFrame
    BY <1>3 DEF DropBadFrame, storage
  <2> QED
    BY <1>1, <2>1, PadPopped DEF Truncates
<1>4. CASE EnterPad
  <2> PICK c, sl, pl : c = Last(crash_stack) /\ sl = c.storage_len /\ pl = c.param_len
    OBVIOUS
  <2>1. /\ storage_len' = sl /\ params' = SubSeq(params, 1, pl)
        /\ crash_stack # <<>> /\ PopFrame
        /\ ~(sl > storage_len) /\ ~(pl > Len(params))
    BY <1>4 DEF EnterPad, RestoreStacks, BadFrame
  <2>2. sl \in Int /\ pl \in Nat
    <3> PICK R : crash_stack \in Seq(R)
      BY DEF StacksTyped
    <3>1. Len(crash_stack) \in 1..Len(crash_stack)
      BY <2>1
    <3> QED
      BY <3>1 DEF StacksTyped, Last
  <2>3. pl \in 0..Len(params) /\ sl <= storage_len
    BY <1>1, <2>1, <2>2
  <2>4. params' \in Seq(S) /\ Len(params') = pl
    BY <2>1, <2>3, ParamsCut
  <2>5. storage_len' \in Int /\ \E R : params' \in Seq(R)
    BY <2>1, <2>2, <2>4
  <2>6. StacksTyped' /\ Len(crash_stack') < Len(crash_stack)
    BY <2>1, <2>5, PadPopped
  <2> QED
    BY <1>1, <2>1, <2>3, <2>4, <2>6 DEF Truncates
<1> QED
  BY <1>2, <1>3, <1>4 DEF Unwind

\* Every step keeps the types of the stacks.
LEMMA StepTyped ==
  ASSUME StacksTyped, Decoded, [Next]_vars
  PROVE  StacksTyped'
<1>1. CASE UNCHANGED vars
  BY <1>1, AllLeft DEF vars, stacks
<1>2. CASE ResetStacks
  <2>1. /\ storage_len' = 0 /\ params' = <<>> /\ crash_stack' = <<>>
    BY <1>2 DEF ResetStacks
  <2>2. params' \in Seq({}) /\ crash_stack' \in Seq({}) /\ Len(crash_stack') = 0
    BY <2>1
  <2> QED
    BY <2>1, <2>2 DEF StacksTyped
<1>3. CASE \E f \in Entry : VmRun(f)
  <2>1. UNCHANGED <<params, crash_stack>>
    BY <1>3 DEF VmRun
  <2>2. storage_len' = storage_len \/ storage_len' = storage_len + RetSize
    BY <1>3 DEF VmRun, storage, PushReturn
  <2> QED
    BY <2>1, <2>2, RetSizeAssumption, PadsLeft DEF StacksTyped
<1> QED
  BY <1>1, <1>2, <1>3, ExecuteTyped, UnwindTyped DEF Next, Machine

\* Looking for a pad only ever takes things off the stacks (vm.c:973-985), on any
\* bytecode: a crash frame that the code below it has undercut is dropped, and never
\* makes a stack longer, which would bring dead cells back to life.
THEOREM UnwindingTruncates == Spec /\ []Decoded => UnwindTruncates
<1>1. Init => StacksTyped
  <2> SUFFICES ASSUME Init PROVE StacksTyped
    OBVIOUS
  <2>1. storage_len = 0 /\ params = <<>> /\ crash_stack = <<>>
    BY DEF Init
  <2>2. params \in Seq({}) /\ crash_stack \in Seq({}) /\ Len(crash_stack) = 0
    BY <2>1
  <2> QED
    BY <2>1, <2>2 DEF StacksTyped
<1>2. StacksTyped /\ Decoded /\ [Next]_vars => StacksTyped'
  BY StepTyped
<1>3. StacksTyped /\ [Next]_vars => [mode = "crash" => Truncates]_vars
  <2> SUFFICES ASSUME StacksTyped, Next, mode = "crash" PROVE Truncates
    OBVIOUS
  <2>1. Unwind
    BY DEF Next, Machine, Execute, ResetStacks, VmRun, Ret, StorageAdd, PushVar, PushArg,
      PushGlobal, DropN, Pop1, Index, Top1, Jump, Branch, BranchTop, PushCrash, PopCrash,
      Crash, HardCrash, Done, Call, CallNative, At
  <2> QED
    BY <2>1, UnwindTyped
<1> QED
  BY <1>1, <1>2, <1>3, PTL DEF Spec, UnwindTruncates, Truncates
=============================================================================
