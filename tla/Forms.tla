------------------------------- MODULE Forms -------------------------------
(***************************************************************************)
(* Compiling a form: module Reading reads it to its end, then the driver   *)
(* (run_anonymous, src/repl.c) lowers the defers and compiles what is left *)
(* to bytecode.                                                            *)
(***************************************************************************)
EXTENDS Reading, Pipeline, Certificate

VARIABLE output   \* what the compiler returned, or Pending

Pending == [ok |-> FALSE, pending |-> TRUE]

FormInit == Init /\ output = Pending

ReadPhrase(p) == Read(p) /\ UNCHANGED output

\* The source ends: run_anonymous goes on when frontend_compile_source succeeds.
CompileSource ==
  /\ EndOfSource
  /\ \/ fe'.error # "OK" /\ UNCHANGED output
     \/ fe'.error = "OK" /\ output' = vm_compile_no_defers(FuncOf(fe'), Context)

FormNext == CompileSource \/ \E p \in words.phrases : ReadPhrase(p)

FormSpec == FormInit /\ [][FormNext]_<<reading, output>>

-----------------------------------------------------------------------------
(* Properties.                                                             *)

\* The variables whose addresses the operations of block b take
VarsNamed(b) ==
  LET range == CASE b.kind = "BASIC" -> b
                 [] b.kind = "BRANCH" -> b.cond
                 [] OTHER -> [start |-> 0, len |-> 0]
  IN {op.extra : op \in {o \in ToSet(OpsIn([f |-> fe], range)) : o.kind = "PUSH_VAR"}}

\* No variable is declared in a loop or a branch.
OuterVars ==
  \A k \in DOMAIN fe.blocks : fe.blocks[k].kind = "VAR" =>
    \A around \in Around(fe.blocks, k) : fe.blocks[around].kind \notin {"LOOP", "BRANCH"}

\* A variable is only named in the block that declares it, where it is alive.
UsedWhereAlive ==
  \A k \in DOMAIN fe.blocks : \A var \in VarsNamed(fe.blocks[k]) :
    \E around \in Around(fe.blocks, k) :
      fe.blocks[around].kind = "VAR" /\ fe.blocks[around].var = var

\* A form the frontend accepts is valid IR, which the compiler does not reject,
\* if each of its conditions is a single value, each variable is named where it is
\* alive, and no declaration is where src/README.md leaves it open what it means.
AcceptedFormsCompile ==
  /\ output # Pending /\ PlainCleanups /\ OuterVars /\ UsedWhereAlive
  /\ \A b \in ToSet(fe.blocks) : b.kind = "BRANCH" => b.cond.len = 1
  => output.ok

\* What the compiler emits satisfies the machine's contract, for any form.
OutputCertified ==
  output.ok =>
    CodeOK(output.code, output.cert, [f \in {"form"} |-> 0], [f \in {"form"} |-> 0],
           "form")
=============================================================================
