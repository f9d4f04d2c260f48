---------------------------- MODULE MCExecution ----------------------------
(***************************************************************************)
(* Families of forms for Execution: protected regions r1 and r2, with      *)
(* cleanups that start with the events c1 and c2, in and around loops,     *)
(* branches and calls.                                                     *)
(***************************************************************************)
EXTENDS Execution

MCEvent == {"r1", "r2", "c1", "c2", "b", "z"}
MCRegion == {"r1", "r2"}
MCCleanupOf == [r1 |-> "c1", r2 |-> "c2"]

When(s) == If(<<s>>, <<>>)
Region1(body) == Start(<<Do("r1")>> \o body, <<Do("c1")>>)
Region2(body) == Start(<<Do("r2")>> \o body, <<Do("c2")>>)

\* What a form may call: a region that may crash
Sub == <<Region2(<<Try("b")>>)>>
MCNamed == [sub |-> Sub]

Exits == {Exit("break"), Exit("continue")}

\* Ways to leave, or not to leave, a region in a loop
Bodies ==
  {<<Do("b")>>, <<Try("b")>>, <<When(Try("b")), When(Exit("break"))>>,
   <<If(<<Exit("break")>>, <<Exit("continue")>>)>>, <<When(When(Exit("break")))>>}
  \union {<<x>> : x \in Exits} \union {<<When(x)>> : x \in Exits}

\* A loop around one region or two, left from inside or after them
Looping ==
  {<<Loop(<<Region1(b)>> \o tail), Do("z")>> :
     b \in Bodies, tail \in {<<>>, <<Exit("break")>>}}
  \union {<<Loop(<<Region1(<<Region2(b)>> \o tail)>>), Do("z")>> :
     b \in Bodies, tail \in {<<>>, <<Exit("break")>>}}
  \union {<<Loop(<<Declare("x"), Region1(b)>>), Do("z")>> : b \in Bodies}
  \union {<<Loop(<<Region1(<<Declare("x")>> \o b)>>), Do("z")>> : b \in Bodies}
  \union {<<Region1(<<Loop(<<Region2(b)>>), Do("z")>>)>> : b \in Bodies}

\* Prefix defers, at the start of a form and inside one, whose cleanups hold no
\* control flow
Prefixed ==
  {<<Defer(<<Do("c1")>>), Do("r1"), Defer(<<Do("c2")>>), Do("r2")>> \o b :
     b \in {<<Do("b")>>, <<Try("b")>>, <<When(Try("b")), Do("z")>>}}
  \union {<<Loop(<<Defer(<<Do("c1")>>), Do("r1")>> \o b), Do("z")>> : b \in Bodies}

\* Cleanups that may crash or loop themselves, and calls
Failing ==
  {<<Start(<<Do("r1"), s, t>>, cleanup), Do("z")>> :
     s \in {Do("b"), Try("b"), Invoke("sub")}, t \in {Region2(<<Try("b")>>), Do("b")},
     cleanup \in {<<Do("c1")>>, <<Try("c1")>>, <<Do("c1"), Invoke("sub")>>,
                  <<Do("c1"), Loop(<<When(Exit("break")), Do("b")>>)>>}}

\* A break out of a region through three branches, then one out of a region whose
\* cleanup crashes
Unkept ==
  {<<Loop(<<Region1(<<When(When(When(Exit("break"))))>>)>>),
     Loop(<<Start(<<Do("r2"), Exit("break")>>, <<Do("c2"), Invoke("fails")>>)>>),
     Do("z")>>}

Forms == Looping \union Prefixed \union Failing

-----------------------------------------------------------------------------
MCVarType == [x |-> "int"]
MCContext ==
  [types |-> [int |-> [kind |-> "INT", size |-> 1],
              native |-> [kind |-> "NATIVE_FUNC_POINTER", size |-> 1, outs |-> <<>>,
                          ins |-> <<>>]],
   globals |-> [n \in MCEvent \union {"one", "fails"} |->
                  [type |-> IF n = "fails" THEN "native" ELSE "int", null |-> FALSE]],
   funcs |-> [sub |-> [outs |-> <<>>, ins |-> <<>>, ok |-> TRUE, code |-> Sub]]]

L == INSTANCE Pipeline WITH
  VarType <- MCVarType, Natives <- {"fails"}, Callees <- {"sub"},
  MaxFrame <- 100, MaxCode <- 1000, Context <- MCContext

\* TLC computes Codes once; what a cfg substitutes it would compute each time.
Compiled == Forms \union Unkept \union {Sub}
Codes == [f \in Compiled |-> L!CompileForm(Source(f)).code] @@ <<>>

MCFunc == Compiled
MCCode == Codes
=============================================================================
