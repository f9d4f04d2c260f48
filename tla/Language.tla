------------------------------ MODULE Language ------------------------------
(***************************************************************************)
(* What a form is promised to do, independently of how it is compiled:     *)
(* the control-flow words as src/README.md documents them ("Frontend       *)
(* Control Flow" and "Blocks").  A form is a sequence of statements        *)
(*                                                                         *)
(*   Do(e)              an event e: a literal that is pushed and dropped   *)
(*   Try(e)             an event e, then a division that may crash         *)
(*   Declare(x)         Var Int x                                          *)
(*   Loop(body)  If(yes, no)  Exit("break")  Exit("continue")              *)
(*   Start(body, cleanup)     Defer(cleanup)                               *)
(*   Invoke(g)          a call of the named form g                         *)
(*                                                                         *)
(* Meaning(s) is the set of [out, trace] a run of s may end in; Source(s)  *)
(* is the form's text as tokens.  RECURSIVE operators: for TLC only.       *)
(***************************************************************************)
EXTENDS Integers, SequencesExt, FiniteSetsExt

CONSTANTS
  Named,      \* Named[g] is the body of the named form g
  MaxTrace    \* runs with more events than this are not followed

Do(e) == [k |-> "do", e |-> e]
Try(e) == [k |-> "try", e |-> e]
Declare(x) == [k |-> "var", x |-> x]
Loop(body) == [k |-> "loop", body |-> body]
If(yes, no) == [k |-> "if", yes |-> yes, no |-> no]
Exit(how) == [k |-> "exit", how |-> how]
Start(body, cleanup) == [k |-> "start", body |-> body, cleanup |-> cleanup]
Defer(cleanup) == [k |-> "defer", cleanup |-> cleanup]
Invoke(g) == [k |-> "call", g |-> g]

-----------------------------------------------------------------------------
(* Meaning.                                                                *)

\* out is "end", "break", "continue" or "crash".
Outcome(o, t) == [out |-> o, trace |-> t]

\* First a run in A; when it ends normally, a run in B.
Then(A, B) ==
  {r \in {Outcome(IF a.out = "end" THEN b.out ELSE a.out,
                  IF a.out = "end" THEN a.trace \o b.trace ELSE a.trace) :
            a \in A, b \in B} : Len(r.trace) <= MaxTrace}

\* A cleanup runs however the body ended.  It does not change where control is
\* going, unless it crashes itself.
Protect(A, C) ==
  {r \in {Outcome(IF c.out = "end" THEN a.out ELSE c.out, a.trace \o c.trace) :
            a \in A, c \in C} : Len(r.trace) <= MaxTrace}

RECURSIVE Meaning(_)
RECURSIVE Iterations(_, _)

\* At most n further iterations of a loop whose body means B: only a break ends
\* it, only a crash leaves it otherwise.
Iterations(B, n) ==
  LET Ended(r) == [r EXCEPT !.out = IF @ = "break" THEN "end" ELSE @]
      Again(r) == [r EXCEPT !.out = "end"]
      over == {Ended(r) : r \in {s \in B : s.out \in {"break", "crash"}}}
      again == {Again(r) : r \in {s \in B : s.out \in {"end", "continue"}}}
  IN IF n = 0 THEN {}
     ELSE over \union (IF again = {} THEN {} ELSE Then(again, Iterations(B, n - 1)))

MeaningOf(s) ==
  CASE s.k = "do" -> {Outcome("end", <<s.e>>)}
    [] s.k = "try" -> {Outcome("end", <<s.e>>), Outcome("crash", <<s.e>>)}
    [] s.k = "var" -> {Outcome("end", <<>>)}
    [] s.k = "exit" -> {Outcome(s.how, <<>>)}
    [] s.k = "if" -> Meaning(s.yes) \union Meaning(s.no)
    [] s.k = "loop" -> Iterations(Meaning(s.body), MaxTrace + 1)
    [] s.k = "start" -> Protect(Meaning(s.body), Meaning(s.cleanup))
    [] s.k = "call" -> Meaning(Named[s.g])

\* A Defer protects the statements after it.
Meaning(s) ==
  IF s = <<>> THEN {Outcome("end", <<>>)}
  ELSE IF Head(s).k = "defer"
  THEN Protect(Meaning(Tail(s)), Meaning(Head(s).cleanup))
  ELSE Then(MeaningOf(Head(s)), Meaning(Tail(s)))

-----------------------------------------------------------------------------
(* Text.                                                                   *)

Word(w) == [w |-> w, arg |-> w]
Number(n) == [w |-> "Number", arg |-> n]
Open == Word("(")
Shut == Word(")")

RECURSIVE Source(_)
SourceOf(s) ==
  CASE s.k = "do" -> <<Open, Number(s.e), Shut>>
    [] s.k = "try" -> <<Open, Number(s.e), Number("one"), Word("Div"), Shut>>
    [] s.k = "var" -> <<[w |-> "Var", arg |-> s.x]>>
    [] s.k = "exit" -> <<Word(IF s.how = "break" THEN "Break" ELSE "Continue")>>
    [] s.k = "if" -> <<Word("If"), Open, Number("one"), Shut>> \o Source(s.yes)
                       \o (IF s.no = <<>> THEN <<>>
                           ELSE <<Word("Else")>> \o Source(s.no))
                       \o <<Word("Done")>>
    [] s.k = "loop" -> <<Word("Loop")>> \o Source(s.body) \o <<Word("Again")>>
    [] s.k = "start" -> <<Word("Start")>> \o Source(s.body) \o <<Word("Finally")>>
                          \o Source(s.cleanup) \o <<Word("End")>>
    [] s.k = "defer" -> <<Word("Defer"), Open>> \o Source(s.cleanup) \o <<Shut>>
    [] s.k = "call" -> <<Open, Word(s.g), Shut>>

Source(s) ==
  IF s = <<>> THEN <<>> ELSE SourceOf(Head(s)) \o Source(Tail(s))
=============================================================================
