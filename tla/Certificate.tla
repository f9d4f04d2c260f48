---------------------------- MODULE Certificate ----------------------------
(***************************************************************************)
(* What the bytecode of a function must satisfy for vm_run to be safe on   *)
(* it: the contract between the compiler and the machine of src/vm.c.      *)
(*                                                                         *)
(* vm_run takes on trust what the compiler computed: the frame size, the   *)
(* height of the parameter stack and the installed crash pads before each  *)
(* instruction (frame_size, params.len and crash_depth of struct Compiler).*)
(* A certificate c of a function is that state: c[p] for instruction p, a  *)
(* record [frame, height, pads], defined for the instructions control can  *)
(* reach.  height counts the parameters above the function's own arguments *)
(* and pads are the places of the crash pads in force, outermost first.    *)
(***************************************************************************)
EXTENDS Integers, SequencesExt

\* The instructions the compiler emits: all but B_DONE and B_BRANCH.
Compiled == {"RET", "STORAGE_ADD", "PUSH_VAR", "PUSH_ARG", "PUSH_GLOBAL",
  "DROP_N", "POP1", "INDEX", "TOP1", "JUMP", "BRANCH_TOP", "PUSH_CRASH",
  "POP_CRASH", "CRASH", "HARD_CRASH", "CALL", "CALL_NATIVE"}

\* The results by which vm_run reports that its own stacks are wrong.
Defects == {"PARAM_UNDERFLOW", "STORAGE_UNDERFLOW", "CRASH_UNDERFLOW",
            "BAD_CRASH_FRAME", "INVALID_STORAGE_OFFSET", "INVALID_ARG",
            "NULL_GLOBAL", "NULL_CALL_TARGET"}

\* Control may go from p to q with these changes.
Flow(c, p, q, frame, height, pads) ==
  /\ q \in DOMAIN c
  /\ c[q].frame = c[p].frame + frame
  /\ c[q].height = c[p].height + height
  /\ c[q].pads = pads

\* A pad is entered with no parameter of the function's own on the stack, at a
\* frame no larger than where it is in force, and under the pads below it.
PadsOK(c, p) ==
  \A j \in 1..Len(c[p].pads) :
    LET q == c[p].pads[j] IN
      /\ q \in DOMAIN c
      /\ c[q].height = 0
      /\ c[q].frame <= c[p].frame
      /\ c[q].pads = SubSeq(c[p].pads, 1, j - 1)

\* The operands instruction i at p needs are the function's own (no operation
\* reaches below the height the function was entered with), and its successors
\* are certified with the state it leaves.  args[g] is the number of outputs
\* and inputs of function g, ins[g] that of its inputs, self this function.
StepOK(i, c, p, args, ins, self) ==
  LET frame == c[p].frame
      height == c[p].height
      pads == c[p].pads
  IN
  /\ i.op \in Compiled
  /\ i.op = "RET" => frame = 0 /\ height = -ins[self] /\ pads = <<>>
  /\ i.op # "RET" => height >= 0
  /\ i.op = "STORAGE_ADD" =>
       /\ i.n \in Int
       /\ i.n < 0 => height = 0
       /\ Flow(c, p, p + 1, i.n, 0, pads)
  /\ i.op = "PUSH_VAR" =>
       /\ i.off \in Int /\ i.off < 0 /\ frame + i.off >= 0
       /\ Flow(c, p, p + 1, 0, 1, pads)
  /\ i.op = "PUSH_ARG" =>
       /\ i.idx \in Nat /\ i.idx < args[self]
       /\ Flow(c, p, p + 1, 0, 1, pads)
  /\ i.op = "PUSH_GLOBAL" =>
       /\ i.null = FALSE
       /\ Flow(c, p, p + 1, 0, 1, pads)
  /\ i.op = "DROP_N" =>
       /\ i.n \in Nat
       /\ \/ i.n <= height
          \/ height = 0 /\ i.n = ins[self] /\ pads = <<>> /\ frame = 0
       /\ Flow(c, p, p + 1, 0, -i.n, pads)
  /\ i.op = "POP1" => i.faults \cap (Defects \union {"OK"}) = {}
  /\ i.op \in {"POP1", "INDEX"} =>
       /\ height >= 2
       /\ Flow(c, p, p + 1, 0, -1, pads)
  /\ i.op = "TOP1" =>
       /\ height >= 1
       /\ Flow(c, p, p + 1, 0, 0, pads)
  /\ i.op = "JUMP" => Flow(c, p, i.target, 0, 0, pads)
  /\ i.op = "BRANCH_TOP" =>
       /\ height >= 1
       /\ Flow(c, p, i.yes, 0, -1, pads)
       /\ Flow(c, p, i.no, 0, -1, pads)
  /\ i.op = "PUSH_CRASH" =>
       /\ height = 0
       /\ Flow(c, p, p + 1, 0, 0, Append(pads, i.target))
       /\ Flow(c, p, i.target, 0, 0, pads)
  /\ i.op = "POP_CRASH" =>
       /\ pads # <<>>
       /\ Flow(c, p, p + 1, 0, 0, SubSeq(pads, 1, Len(pads) - 1))
  /\ i.op = "CALL" =>
       /\ i.callee \in DOMAIN args
       /\ i.argc = args[i.callee]
       /\ height >= i.argc
       /\ Flow(c, p, p + 1, 0, -ins[i.callee], pads)
  /\ i.op = "CALL_NATIVE" =>
       /\ i.argc \in Nat /\ height >= i.argc + 1
       /\ Flow(c, p, p + 1, 0, -(i.argc + 1), pads)

\* Certificate c is a certificate of the code of function self.
CodeOK(code, c, args, ins, self) ==
  /\ DOMAIN c \subseteq 1..Len(code)
  /\ 1 \in DOMAIN c
  /\ c[1].frame = 0 /\ c[1].height = 0 /\ c[1].pads = <<>>
  /\ \A p \in DOMAIN c :
       /\ c[p].frame \in Nat
       /\ c[p].height \in Int
       /\ c[p].pads \in Seq(Nat \ {0})
       /\ PadsOK(c, p)
       /\ StepOK(code[p], c, p, args, ins, self)
=============================================================================
