------------------------------ MODULE Session ------------------------------
(***************************************************************************)
(* A session of the REPL (src/repl.c): lines are read, forms are completed *)
(* by Ret, and a completed form is run or defined.  The functions, the     *)
(* table of globals and the code slots live as long as the session.        *)
(*                                                                         *)
(* Source is a sequence of words; of the words, literals, Print and the    *)
(* names of functions are followed, and Forms has the others.  A global    *)
(* holds its value until its memory is freed; code points to the memory of *)
(* a global and to the code of a function by their index, from 1.          *)
(* The compiler and the machine are parameters: module SessionCode has     *)
(* those that the runs use.                                                *)
(* KeepsLiterals is a wrong version of frontend_free.                      *)
(***************************************************************************)
EXTENDS Integers, Sequences, FiniteSets, SequencesExt

CONSTANTS
  Values,      \* the words that are integer literals
  Lines,       \* the lines there are to read, each a sequence of words
  NoName,      \* pending_name is NULL
  MaxGlobals,  \* how many globals a uoffset_t can index; 65536 in the source
  MaxFuncs,    \* how many functions a func_idx can index; 65536 in the source
  MaxWords,    \* bound: the words of a form
  Compile(_, _, _),  \* of the functions, the code slots and a body: [ok, code, out]
  Run(_, _, _)       \* of what there is, the machine and a code: [stack, out]

Null == "NULL"

\* A line is a sequence of words, and no literal is NULL.
ASSUME LinesAssumption == \A line \in Lines : line \in Seq(Range(line))
ASSUME ValuesAssumption == Null \notin Values

VARIABLES
  form,  \* the form being written: [name, words]; repl->defining is name # NoName
  ctx,   \* repl->ctx: [funcs, globals, code]
  last,  \* the form completed last, with its result and what it printed
  calls  \* for the properties: what each function would print if it were called now

vars == <<form, ctx, last, calls>>

NoForm == [name |-> NoName, words |-> <<>>]

\* main puts Print's global into the table.
NoFuncs == [funcs |-> <<>>, globals |-> <<"print_int">>, code |-> <<>>]

Init ==
  /\ form = NoForm
  /\ ctx = NoFuncs
  /\ last = [name |-> NoName, words |-> <<>>, result |-> "none", out |-> <<>>]
  /\ calls = <<>>

-----------------------------------------------------------------------------
(* Reading a form: run_anonymous and define_named build a frontend with    *)
(* the words that exist before the form.                                   *)

PushGlobal(g) == [kind |-> "PUSH_GLOBAL", extra |-> g]
Call(i) == [kind |-> "CALL", extra |-> i]
CallNative == [kind |-> "CALL_NATIVE_ON_STACK"]

Wrote(fe, ops) == [fe EXCEPT !.ops = @ \o ops]
Unreadable(fe) == [fe EXCEPT !.ok = FALSE]

\* The literal is put into memory of its own, which the frontend owns.
emit_number(fe, w) ==
  IF Len(fe.globals) >= MaxGlobals THEN Unreadable(fe)
  ELSE LET g == Len(fe.globals) + 1
       IN [Wrote(fe, <<PushGlobal(g)>>) EXCEPT
             !.globals = Append(@, w), !.owned = @ \cup {g}]

FuncsNamed(funcs, w) == {i \in DOMAIN funcs : funcs[i].name = w}

\* find_word looks through the core words, Print and the functions, in this order, and
\* what is none of them may be a number.
Engage(funcs, fe, w) ==
  IF ~fe.ok THEN fe
  ELSE IF w = "Print" THEN Wrote(fe, <<PushGlobal(1), CallNative>>)
  ELSE IF FuncsNamed(funcs, w) # {}
       THEN Wrote(fe, <<Call(CHOOSE i \in FuncsNamed(funcs, w) : TRUE)>>)
  ELSE IF w \in Values THEN emit_number(fe, w)
  ELSE Unreadable(fe)

frontend_init(c) == [ok |-> TRUE, globals |-> c.globals, owned |-> {}, ops |-> <<>>]

frontend_compile_source(c, words) ==
  LET read[i \in 0..Len(words)] ==
        IF i = 0 THEN frontend_init(c) ELSE Engage(c.funcs, read[i - 1], words[i])
  IN read[Len(words)]

\* free_built_func: the memory of the literals is freed, the globals stay.
KeepsLiterals(globals, owned) == globals
frontend_free(globals, owned) ==
  [g \in DOMAIN globals |-> IF g \in owned THEN Null ELSE globals[g]]

-----------------------------------------------------------------------------
(* Completing a form.                                                      *)

Refuse(c, f) == [ctx |-> c, form |-> f, result |-> "error", out |-> <<>>]

\* The globals of a form that is over.
Dropped(c, fe) == [c EXCEPT !.globals = frontend_free(fe.globals, fe.owned)]

\* A form whose code is compiled, and one whose source is read.
RunCode(c, f, fe, code) ==
  IF ~code.ok THEN Refuse(Dropped(c, fe), f)
  ELSE [ctx |-> Dropped(c, fe), form |-> f, result |-> "ran",
        out |-> Run(c, [stack |-> <<>>, out |-> <<>>], code.out).out]

RunSource(c, f, fe, code) ==
  IF ~fe.ok THEN Refuse(Dropped(c, fe), f)
  ELSE RunCode([c EXCEPT !.globals = fe.globals, !.code = code.code], f, fe, code)

RunRead(c, f, fe) == RunSource(c, f, fe, Compile(c.funcs, c.code, fe.ops))

run_anonymous(c, f) == RunRead(c, f, frontend_compile_source(c, f.words))

name_exists(c, name) == FuncsNamed(c.funcs, name) # {}

\* A definition, likewise.
KeepCode(c, f, fe, code, func) ==
  IF ~fe.ok THEN Refuse(Dropped(c, fe), f)
  ELSE LET after == [c EXCEPT !.globals = fe.globals, !.code = code.code]
       IN IF ~code.ok THEN Refuse(Dropped(after, fe), f)
          ELSE [ctx |-> [after EXCEPT !.funcs = Append(@, func)], form |-> f,
                result |-> "defined", out |-> <<>>]

KeepFunc(c, f, fe, func) ==
  KeepCode(c, f, fe, Compile(Append(c.funcs, func), c.code, fe.ops), func)

KeepRead(c, f, fe) ==
  KeepFunc(c, f, fe, [name |-> f.name, ops |-> fe.ops, owned |-> fe.owned])

\* The function is appended before its source is read, but its own name is no word yet.
\* It is compiled to see whether it compiles, and the code is freed.
define_named(c, f) ==
  IF name_exists(c, f.name) \/ Len(c.funcs) >= MaxFuncs THEN Refuse(c, f)
  ELSE KeepRead(c, f, frontend_compile_source(c, f.words))

finish_form(c, f) == IF f.name # NoName THEN define_named(c, f) ELSE run_anonymous(c, f)

\* What a form of just its name would print, of every function.
Calls(c) ==
  [n \in {c.funcs[i].name : i \in DOMAIN c.funcs} |->
     run_anonymous(c, [name |-> NoName, words |-> <<n>>]).out]

-----------------------------------------------------------------------------
(* Reading lines.                                                          *)

\* take_final_ret
Complete(line) == line # <<>> /\ Last(line) = "Ret"
Input(line) == IF Complete(line) THEN Front(line) ELSE line

\* begin_definition is tried where a form may begin; a Func without a name is refused.
Begins(input) == form = NoForm /\ input # <<>> /\ input[1] = "Func"
Written(input) ==
  IF ~Begins(input) THEN [form EXCEPT !.words = @ \o input]
  ELSE IF Len(input) = 1 THEN form
  ELSE [name |-> input[2], words |-> SubSeq(input, 3, Len(input))]

Finishes(line, f) == Complete(line) /\ (f # NoForm \/ Input(line) = <<>>)

Extend(f) == form' = f /\ UNCHANGED <<ctx, last, calls>>

Finish(f, done) ==
  /\ form' = NoForm /\ ctx' = done.ctx
  /\ last' = [name |-> f.name, words |-> f.words, result |-> done.result, out |-> done.out]
  /\ calls' = Calls(done.ctx)

ReadLine(line) ==
  LET f == Written(Input(line))
  IN /\ Len(f.words) <= MaxWords
     /\ \/ ~Finishes(line, f) /\ Extend(f)
        \/ Finishes(line, f) /\ Finish(f, finish_form(ctx, f))

Next == \E line \in Lines : ReadLine(line)
Spec == Init /\ [][Next]_vars

-----------------------------------------------------------------------------
(* Properties.                                                             *)

\* The memory of a literal is kept for the function it was written in, and freed when
\* the form is run or refused (repl.c:114-120, frontend.c:34-43): none is lost or freed early,
\* and none belongs to two functions.
LiteralsOwned ==
  \A g \in 2..Len(ctx.globals) :
    Cardinality({i \in DOMAIN ctx.funcs : g \in ctx.funcs[i].owned}) =
      IF ctx.globals[g] = Null THEN 0 ELSE 1

\* A session is a dictionary that only grows (README, the REPL): a refused form changes
\* nothing, a function does now what it did when it was defined, and a form is refused
\* for a reason.  The code slots, the globals and the frontends that are kept make it so.
D == INSTANCE Dictionary WITH dict <- calls, room <- MaxGlobals - Len(ctx.globals)
ImplementsDictionary == D!Spec
=============================================================================
