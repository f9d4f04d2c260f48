------------------------------ MODULE Pipeline ------------------------------
(***************************************************************************)
(* From the source of a form to bytecode, as the REPL does it              *)
(* (run_anonymous and define_named, src/repl.c): read, lower, compile.     *)
(* RECURSIVE operators: this module is for TLC only.                       *)
(***************************************************************************)
EXTENDS Frontend, Compiler

CONSTANT Context   \* the types, globals and functions forms are compiled against

\* The function that is compiled; a form has no arguments.
FuncOf(fe) ==
  [blocks |-> LowerFunc(fe.blocks), ops |-> fe.ops, vars |-> fe.vars,
   outs |-> 0, ins |-> 0]

CompileForm(source) ==
  LET fe == frontend_compile_source(source) IN
  IF fe.error # "OK" THEN [ok |-> FALSE]
  ELSE vm_compile_no_defers(FuncOf(fe), Context)
=============================================================================
