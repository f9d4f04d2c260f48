------------------------------ MODULE MCForms ------------------------------
(***************************************************************************)
(* Forms over small vocabularies, with a literal and two variables.        *)
(***************************************************************************)
EXTENDS Forms

Word(w) == [w |-> w, arg |-> w]
Literal == [w |-> "Number", arg |-> "one"]
Local == [w |-> "Name", arg |-> "x"]
Declaration == [w |-> "Var", arg |-> "x"]

MCVarType == [x |-> "int", y |-> "int"]
MCContext ==
  [types |-> [int |-> [kind |-> "INT", size |-> 1]],
   globals |-> [one |-> [type |-> "int", null |-> FALSE]],
   funcs |-> [none |-> [ok |-> FALSE]]]

One(ws) == {<<Word(w)>> : w \in ws}
Condition == <<Word("If"), Word("("), Literal, Word(")")>>
Use == <<Word("("), Local, Literal, Word("Add"), Word(")")>>

\* Loops, branches and epilogues
Structured == {Condition} \union One({"Loop", "Again", "Else", "Done", "Break",
                "Continue", "Start", "Finally", "End"})

\* A variable declared and used anywhere between the other words
Declaring == {Condition, Use, <<Declaration>>, <<Local>>}
  \union One({"Done", "Loop", "Again", "Break", "Defer", "(", ")"})

\* A variable declared and used in and after the region of an epilogue
Cleaning == {Condition, Use, <<Declaration>>}
  \union One({"Done", "Loop", "Again", "Break", "Start", "Finally", "End"})

MCVocabularies ==
  {[phrases |-> p, max |-> 8] : p \in {Structured, Declaring, Cleaning}}
=============================================================================
