------------------------------- MODULE MCRaw -------------------------------
(***************************************************************************)
(* The machine on bytecode no compiler has checked: every program of two   *)
(* instructions from a set with operands that vm_run refuses and operands  *)
(* that it takes, and every program of four instructions that install      *)
(* pads, crash, and shrink the stacks under the pads.  A program is        *)
(* followed by B_DONE, and the function it may call is B_DONE alone.       *)
(* All jumps are forward, so that every program comes to an end.  A slice  *)
(* may refer to anything.  Left out are RET, whose check is about whole    *)
(* ReturnFrames, failed allocations, and bytes that are no instruction.    *)
(***************************************************************************)
EXTENDS VM

Checked ==
  {[op |-> "STORAGE_ADD", n |-> 1], [op |-> "PUSH_ARG", idx |-> 0],
   [op |-> "DROP_N", n |-> 1], [op |-> "POP1", faults |-> {"ARRAY_BOUNDS"}],
   [op |-> "INDEX", slice |-> TRUE], [op |-> "TOP1"],
   [op |-> "BRANCH_TOP", yes |-> 3, no |-> 3], [op |-> "JUMP", target |-> 3],
   [op |-> "POP_CRASH"], [op |-> "HARD_CRASH"],
   [op |-> "CALL", callee |-> NoFunc, argc |-> 0],
   [op |-> "CALL", callee |-> <<>>, argc |-> 1],
   [op |-> "CALL_NATIVE", argc |-> 1]}
  \union {[op |-> "PUSH_VAR", off |-> n] : n \in {-3, -1, 1}}
  \union {[op |-> "PUSH_GLOBAL", null |-> b] : b \in BOOLEAN}
  \union {[op |-> "BRANCH", off |-> n, yes |-> 3, no |-> 3] : n \in {-3, -1, 1}}

Unwinding ==
  {[op |-> "CRASH"], [op |-> "POP_CRASH"], [op |-> "PUSH_GLOBAL", null |-> FALSE],
   [op |-> "DROP_N", n |-> 1]}
  \union {[op |-> "PUSH_CRASH", target |-> t] : t \in {4, 5}}
  \union {[op |-> "STORAGE_ADD", n |-> n] : n \in {-3, -1}}

MCFunc == [1..2 -> Checked] \union [1..4 -> Unwinding] \union {<<>>}
MCCode == [f \in MCFunc |-> f \o <<[op |-> "DONE"]>>]
MCResults == {"OK", "CRASH", "HARD_CRASH"}
=============================================================================
