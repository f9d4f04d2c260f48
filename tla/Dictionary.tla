----------------------------- MODULE Dictionary -----------------------------
(***************************************************************************)
(* What a session of the REPL promises (src/README.md): a form that is     *)
(* completed either does what its words mean at that moment, or nothing.   *)
(* A word is a literal, Print, or the name of a function that was defined  *)
(* before; a function means what its words meant when it was defined.      *)
(***************************************************************************)
EXTENDS Integers, Sequences, FiniteSets, SequencesExt

CONSTANTS Values, NoName, MaxFuncs

VARIABLES
  dict,   \* from the names of the defined functions to what they print
  last,   \* the form completed last: [name, words, result, out]
  room    \* how many literals can still be written

\* What words print, if each of them is known and Print has something to print.
Said(words) ==
  FoldLeft(LAMBDA m, w :
      IF ~m.ok THEN m
      ELSE IF w \in DOMAIN dict THEN [m EXCEPT !.out = @ \o dict[w]]
      ELSE IF w \in Values THEN [m EXCEPT !.stack = Append(@, w)]
      ELSE IF w = "Print" /\ m.stack # <<>>
           THEN [m EXCEPT !.out = Append(@, Last(m.stack)), !.stack = Front(@)]
      ELSE [m EXCEPT !.ok = FALSE],
    [ok |-> TRUE, stack |-> <<>>, out |-> <<>>], words)

Literals(words) == Len(SelectSeq(words, LAMBDA w : w \in Values))

\* The one way a form may use up what is shared with later forms.
Spends(words) == room - Literals(words) <= room' /\ room' <= room

Ran(form, said) ==
  /\ form.name = NoName /\ form.result = "ran"
  /\ said.ok /\ form.out = said.out

Defined(form, said) ==
  /\ form.name \notin DOMAIN dict \cup {NoName} /\ form.result = "defined"
  /\ said.ok

\* For one of four reasons.
Refused(form, said) ==
  /\ form.result = "error"
  /\ \/ form.name \in DOMAIN dict
     \/ ~said.ok
     \/ Literals(form.words) > room
     \/ form.name # NoName /\ Cardinality(DOMAIN dict) = MaxFuncs

With(n, out) == [m \in DOMAIN dict \cup {n} |-> IF m = n THEN out ELSE dict[m]]

Init ==
  /\ dict = <<>>
  /\ last = [name |-> NoName, words |-> <<>>, result |-> "none", out |-> <<>>]

Complete ==
  LET form == last'
      said == Said(form.words)
  IN /\ Spends(form.words)
     /\ \/ Ran(form, said) /\ UNCHANGED dict
        \/ Defined(form, said) /\ dict' = With(form.name, said.out)
        \/ Refused(form, said) /\ UNCHANGED dict

Spec == Init /\ [][Complete]_<<dict, last, room>>
=============================================================================
