---------------------------- MODULE SessionCode ----------------------------
(***************************************************************************)
(* The compiler and the machine (src/vm.c) on the words that module        *)
(* Session follows.  Compiling follows the types on the parameter stack;   *)
(* a function that is called and has no code yet is compiled first.        *)
(* IsSlot is a wrong version of Filled.                                    *)
(* RECURSIVE operators: this module is for TLC only.                       *)
(***************************************************************************)
EXTENDS Integers, Sequences, SequencesExt

TypeOf(g) == IF g = 1 THEN "native" ELSE "int"

\* A slot that is not filled is empty; code is never empty.
IsSlot(code, i) == i \in DOMAIN code
Filled(code, i) == i \in DOMAIN code /\ code[i] # <<>>
SlotsUpTo(code, i) == code \o [k \in 1..(i - Len(code)) |-> <<>>]

Cannot(s) == [s EXCEPT !.ok = FALSE]
Emitted(s, instr) == [s EXCEPT !.out = Append(@, instr)]

RECURSIVE vm_compile_no_defers(_, _, _)

\* compile_context_func_code
compile_context_func_code(funcs, s, i) ==
  IF i \notin DOMAIN funcs THEN Cannot(s)
  ELSE IF Filled(s.code, i) THEN s
  ELSE LET callee == vm_compile_no_defers(funcs, SlotsUpTo(s.code, i), funcs[i].ops)
       IN [s EXCEPT !.ok = callee.ok,
                    !.code = IF callee.ok THEN [callee.code EXCEPT ![i] = callee.out]
                             ELSE callee.code]

CompileOp(funcs, s, op) ==
  IF ~s.ok THEN s
  ELSE CASE op.kind = "PUSH_GLOBAL" ->
              [Emitted(s, [op |-> "B_PUSH_GLOBAL", mem |-> op.extra])
                 EXCEPT !.params = Append(@, TypeOf(op.extra))]
         [] op.kind = "CALL_NATIVE_ON_STACK" ->
              IF IsSuffix(<<"int", "native">>, s.params)
              THEN [Emitted(s, [op |-> "B_CALL_NATIVE"])
                      EXCEPT !.params = Front(Front(@))]
              ELSE Cannot(s)
         [] op.kind = "CALL" ->
              LET called == compile_context_func_code(funcs, s, op.extra)
              IN IF called.ok THEN Emitted(called, [op |-> "B_CALL", code |-> op.extra])
                 ELSE called

\* Of a function of one basic block, which drops what its operations leave on the stack.
vm_compile_no_defers(funcs, code, ops) ==
  LET s == FoldLeft(LAMBDA r, op : CompileOp(funcs, r, op),
                    [ok |-> TRUE, code |-> code, params |-> <<>>, out |-> <<>>], ops)
  IN Emitted(s, [op |-> "B_DROP_N", n |-> Len(s.params)])

-----------------------------------------------------------------------------
(* Running code, which only Print makes seen.                              *)

DropLast(stack, n) == SubSeq(stack, 1, Len(stack) - n)

RECURSIVE vm_run(_, _, _)
vm_run(c, m, code) ==
  FoldLeft(LAMBDA r, instr :
      CASE instr.op = "B_PUSH_GLOBAL" ->
             [r EXCEPT !.stack = Append(@, c.globals[instr.mem])]
        [] instr.op = "B_CALL_NATIVE" ->
             [r EXCEPT !.out = Append(@, r.stack[Len(r.stack) - 1]),
                       !.stack = DropLast(@, 2)]
        [] instr.op = "B_CALL" -> vm_run(c, r, c.code[instr.code])
        [] instr.op = "B_DROP_N" -> [r EXCEPT !.stack = DropLast(@, instr.n)],
    m, code)
=============================================================================
