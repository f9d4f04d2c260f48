------------------------------ MODULE MCBorrow ------------------------------
(***************************************************************************)
(* Functions of the statements of module Statements, and the compiler, to  *)
(* which what the checkers accept is given.                                *)
(***************************************************************************)
EXTENDS Borrow

CONSTANT Words   \* the statements of the run

S == INSTANCE Statements

MCContext == S!Known
MCVars == S!Variables
MCArgs == S!Arguments
MCOuter == S!OuterVariables
MCVocabulary == SelectSeq(S!Statements, LAMBDA st : st.name \in Words)
MCNone == <<>>

\* What the checkers accept, the compiler accepts (module Compiler, vm.c:862): they judge the
\* same types and stacks, and the scopes.
C == INSTANCE Compiler WITH MaxFrame <- 1000, MaxCode <- 1000
AcceptedCompiles ==
  Accepted /\ Unrun =>
    C!vm_compile_no_defers(
      [vars |-> Vars, outs |-> 0, ins |-> Args, ops |-> Function.ops,
       blocks |-> C!LowerFunc(Function.blocks)],
      Context).ok
=============================================================================
