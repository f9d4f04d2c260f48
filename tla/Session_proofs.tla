--------------------------- MODULE Session_proofs ---------------------------
(***************************************************************************)
(* Proofs about module Session: for any lines, any number of words,        *)
(* functions and globals, and whatever the compiler accepts and the        *)
(* machine prints.                                                         *)
(***************************************************************************)
EXTENDS Session, Numbers_proofs, FiniteSetTheorems, SequenceTheorems

-----------------------------------------------------------------------------
(* Reading a source.                                                       *)

\* read is the states of the frontend while it reads the first n words.
Reads(c, words, read, n) ==
  read = [i \in 0..n |-> IF i = 0 THEN frontend_init(c)
                         ELSE Engage(c.funcs, read[i - 1], words[i])]

\* The loop over the words is a function (frontend.c:858): there are such states for
\* any number of words.
LEMMA ReadsExist ==
  ASSUME NEW c, NEW words
  PROVE  \A n \in Nat : \E read : Reads(c, words, read, n)
<1> DEFINE T == {n \in Nat : \E read : Reads(c, words, read, n)}
<1>1. 0 \in T
  <2> DEFINE read == [i \in 0..0 |-> frontend_init(c)]
  <2>1. Reads(c, words, read, 0)
    BY DEF Reads
  <2> QED BY <2>1
<1>2. ASSUME NEW n \in Nat, n \in T PROVE n + 1 \in T
  <2>1. PICK f : Reads(c, words, f, n)
    BY <1>2
  <2> DEFINE g == [i \in 0..(n + 1) |-> IF i = n + 1 THEN Engage(c.funcs, f[n], words[i])
                                        ELSE f[i]]
             h(i) == IF i = 0 THEN frontend_init(c) ELSE Engage(c.funcs, g[i - 1], words[i])
  <2>2. ASSUME NEW i \in 0..(n + 1) PROVE g[i] = h(i)
    <3>1. CASE i = n + 1
      BY <3>1
    <3>2. CASE i \in 0..n
      <4>1. g[i] = f[i] /\ (i # 0 => g[i - 1] = f[i - 1])
        BY <3>2
      <4>2. f[i] = IF i = 0 THEN frontend_init(c) ELSE Engage(c.funcs, f[i - 1], words[i])
        BY <2>1, <3>2 DEF Reads
      <4> QED BY <4>1, <4>2
    <3> QED BY <3>1, <3>2
  <2>3. g = [i \in 0..(n + 1) |-> h(i)]
    BY <2>2
  <2>4. Reads(c, words, g, n + 1)
    BY <2>3 DEF Reads
  <2> QED BY <2>4
<1> HIDE DEF T
<1>3. \A n \in Nat : n \in T
  BY <1>1, <1>2, Induction
<1> QED BY <1>3 DEF T

LEMMA Compiled ==
  ASSUME NEW c, NEW words, Len(words) \in Nat
  PROVE  \E read : /\ Reads(c, words, read, Len(words))
                   /\ frontend_compile_source(c, words) = read[Len(words)]
<1> DEFINE n == Len(words)
           read == CHOOSE f : f = [i \in 0..n |-> IF i = 0 THEN frontend_init(c)
                                 ELSE Engage(c.funcs, f[i - 1], words[i])]
<1>1. \E f : f = [i \in 0..n |-> IF i = 0 THEN frontend_init(c)
                                 ELSE Engage(c.funcs, f[i - 1], words[i])]
  <2>1. \E f : Reads(c, words, f, n)
    BY ReadsExist
  <2> QED BY <2>1 DEF Reads
<1>2. Reads(c, words, read, n)
  BY <1>1 DEF Reads
<1>3. frontend_compile_source(c, words) = read[n]
  BY DEF frontend_compile_source
<1> QED BY <1>2, <1>3

-----------------------------------------------------------------------------
(* The globals of a frontend.                                              *)

Global == Values \cup {"print_int", Null}

\* A frontend that was built with the globals of c owns those it appended, and each of
\* them is a literal.
FrontendOf(c, fe) ==
  /\ fe \in [ok : BOOLEAN, globals : Seq(Global), owned : SUBSET Nat, ops : {fe.ops}]
  /\ Len(c.globals) <= Len(fe.globals)
  /\ fe.owned = (Len(c.globals) + 1)..Len(fe.globals)
  /\ \A g \in 1..Len(c.globals) : fe.globals[g] = c.globals[g]
  /\ \A g \in fe.owned : fe.globals[g] # Null

\* A word that is read keeps the globals there are and owns the one it may append
\* (frontend.c:247, 786-818).
LEMMA EngageOwns ==
  ASSUME NEW c, c.globals \in Seq(Global), NEW fe, FrontendOf(c, fe), NEW w
  PROVE  FrontendOf(c, Engage(c.funcs, fe, w))
<1>. DEFINE Kind(ops) == [ok : BOOLEAN, globals : Seq(Global), owned : SUBSET Nat, ops : {ops}]
<1>0. fe \in Kind(fe.ops)
  BY DEF FrontendOf
<1>1. ASSUME NEW ops PROVE FrontendOf(c, Wrote(fe, ops))
  <2>1. /\ Wrote(fe, ops) \in Kind(fe.ops \o ops)
        /\ Wrote(fe, ops).globals = fe.globals /\ Wrote(fe, ops).owned = fe.owned
    BY <1>0 DEF Wrote
  <2> QED BY <2>1 DEF FrontendOf
<1>2. FrontendOf(c, Unreadable(fe))
  <2>1. /\ Unreadable(fe) \in Kind(fe.ops)
        /\ Unreadable(fe).globals = fe.globals /\ Unreadable(fe).owned = fe.owned
    BY <1>0 DEF Unreadable
  <2> QED BY <2>1 DEF FrontendOf
<1>3. ASSUME w \in Values PROVE FrontendOf(c, emit_number(fe, w))
  <2> DEFINE n == Len(fe.globals)
             gs == Append(fe.globals, w)
             ow == fe.owned \cup {n + 1}
  <2>1. /\ n \in Nat /\ fe.globals \in Seq(Global) /\ Len(c.globals) \in Nat
        /\ Len(c.globals) <= n /\ fe.owned = (Len(c.globals) + 1)..n
        /\ w \in Global /\ w # Null
    BY <1>0, <1>3, ValuesAssumption DEF FrontendOf, Global
  <2>2. /\ gs \in Seq(Global) /\ Len(gs) = n + 1 /\ gs[n + 1] = w
        /\ \A g \in 1..n : gs[g] = fe.globals[g]
    BY <2>1, AppendProperties
  <2>3. ow = (Len(c.globals) + 1)..(n + 1) /\ ow \in SUBSET Nat
    BY <2>1
  <2>4. \A g \in 1..Len(c.globals) : gs[g] = c.globals[g]
    BY <2>1, <2>2 DEF FrontendOf
  <2>5. \A g \in ow : gs[g] # Null
    BY <2>1, <2>2 DEF FrontendOf
  <2> HIDE DEF n, gs, ow
  <2>6. CASE Len(fe.globals) >= MaxGlobals
    BY <1>2, <2>6 DEF emit_number
  <2>7. CASE ~(Len(fe.globals) >= MaxGlobals)
    <3> DEFINE ops == fe.ops \o <<PushGlobal(n + 1)>>
               more == emit_number(fe, w)
    <3>1. more = [Wrote(fe, <<PushGlobal(n + 1)>>) EXCEPT !.globals = gs, !.owned = ow]
      <4>1. /\ Wrote(fe, <<PushGlobal(n + 1)>>).globals = fe.globals
            /\ Wrote(fe, <<PushGlobal(n + 1)>>).owned = fe.owned
        BY <1>0 DEF Wrote
      <4> QED BY <2>7, <4>1 DEF emit_number, n, gs, ow
    <3>2. Wrote(fe, <<PushGlobal(n + 1)>>) \in Kind(ops)
      BY <1>0 DEF Wrote
    <3> HIDE DEF ops, more
    <3>3. more \in Kind(ops) /\ more.globals = gs /\ more.owned = ow
      BY <2>2, <2>3, <3>1, <3>2
    <3> QED BY <2>1, <2>2, <2>3, <2>4, <2>5, <3>3 DEF FrontendOf, more
  <2> QED BY <2>6, <2>7
<1> QED BY <1>1, <1>2, <1>3 DEF Engage

\* And so does a source (frontend.c:1033).
LEMMA SourceOwns ==
  ASSUME NEW c, c.globals \in Seq(Global), NEW words, Len(words) \in Nat
  PROVE  FrontendOf(c, frontend_compile_source(c, words))
<1>1. PICK read : /\ Reads(c, words, read, Len(words))
                  /\ frontend_compile_source(c, words) = read[Len(words)]
  BY Compiled
<1> DEFINE T == {i \in Nat : i <= Len(words) => FrontendOf(c, read[i])}
<1>2. 0 \in T
  <2>1. FrontendOf(c, frontend_init(c))
    BY DEF frontend_init, FrontendOf
  <2>2. read[0] = frontend_init(c)
    BY <1>1 DEF Reads
  <2> QED BY <2>1, <2>2
<1>3. ASSUME NEW i \in Nat, i \in T PROVE i + 1 \in T
  <2>1. CASE i + 1 <= Len(words)
    <3>1. FrontendOf(c, read[i])
      BY <1>3, <2>1
    <3>2. read[i + 1] = Engage(c.funcs, read[i], words[i + 1])
      <4>1. i + 1 \in 0..Len(words) /\ i + 1 # 0 /\ (i + 1) - 1 = i
        BY <2>1
      <4> QED BY <1>1, <4>1 DEF Reads
    <3>3. FrontendOf(c, read[i + 1])
      BY <3>1, <3>2, EngageOwns
    <3> QED BY <3>3
  <2> QED BY <2>1
<1> HIDE DEF T
<1>4. Len(words) \in T
  BY <1>2, <1>3, Induction
<1> QED BY <1>1, <1>4 DEF T

-----------------------------------------------------------------------------
(* What completing a form leaves behind.                                   *)

IsContext(c) == c \in [funcs : {c.funcs}, globals : {c.globals}, code : {c.code}]

Freed(c, fe, d) == d.funcs = c.funcs /\ d.globals = frontend_free(fe.globals, fe.owned)

Defined(c, f, fe, d) ==
  /\ f.name # NoName /\ ~name_exists(c, f.name)
  /\ d.funcs = Append(c.funcs, [name |-> f.name, ops |-> fe.ops, owned |-> fe.owned])
  /\ d.globals = fe.globals

\* A form is refused before it is read, its literals are freed, or it is a new function
\* with its literals (repl.c:138-164, 173-212), whatever the compiler and the
\* machine make of it.
LEMMA Outcomes ==
  ASSUME NEW c, IsContext(c), NEW f, NEW fe, fe = frontend_compile_source(c, f.words),
         NEW d, d = finish_form(c, f).ctx
  PROVE  IsContext(d) /\ (d = c \/ Freed(c, fe, d) \/ Defined(c, f, fe, d))
<1>1. ASSUME NEW e, IsContext(e), e.funcs = c.funcs
      PROVE  IsContext(Dropped(e, fe)) /\ Freed(c, fe, Dropped(e, fe))
  BY <1>1 DEF Dropped, IsContext, Freed
<1>2. ASSUME NEW code
      PROVE  /\ IsContext([c EXCEPT !.globals = fe.globals, !.code = code])
             /\ [c EXCEPT !.globals = fe.globals, !.code = code].funcs = c.funcs
             /\ [c EXCEPT !.globals = fe.globals, !.code = code].globals = fe.globals
  BY DEF IsContext
<1>3. CASE f.name = NoName
  <2>1. PICK code : code = Compile(c.funcs, c.code, fe.ops)
    OBVIOUS
  <2>2. d = RunSource(c, f, fe, code).ctx
    BY <1>3, <2>1 DEF finish_form, run_anonymous, RunRead
  <2>3. \E e : IsContext(e) /\ e.funcs = c.funcs /\ d = Dropped(e, fe)
    BY <1>2, <2>2 DEF RunSource, RunCode, Refuse
  <2> QED BY <1>1, <2>3
<1>4. CASE f.name # NoName
  <2>1. CASE name_exists(c, f.name) \/ Len(c.funcs) >= MaxFuncs
    BY <1>4, <2>1 DEF finish_form, define_named, Refuse
  <2>2. CASE ~name_exists(c, f.name) /\ ~(Len(c.funcs) >= MaxFuncs)
    <3> DEFINE func == [name |-> f.name, ops |-> fe.ops, owned |-> fe.owned]
    <3>1. PICK code : code = Compile(Append(c.funcs, func), c.code, fe.ops)
      OBVIOUS
    <3>2. d = KeepCode(c, f, fe, code, func).ctx
      BY <1>4, <2>2, <3>1 DEF finish_form, define_named, KeepRead, KeepFunc
    <3> DEFINE after == [c EXCEPT !.globals = fe.globals, !.code = code.code]
    <3> HIDE DEF func
    <3>3. \/ \E e : IsContext(e) /\ e.funcs = c.funcs /\ d = Dropped(e, fe)
          \/ d = [after EXCEPT !.funcs = Append(@, func)]
      BY <1>2, <3>2 DEF KeepCode, Refuse
    <3>4. CASE d = [after EXCEPT !.funcs = Append(@, func)]
      <4>1. /\ IsContext(after) /\ after.funcs = c.funcs /\ after.globals = fe.globals
        BY <1>2
      <4> HIDE DEF after
      <4>2. /\ IsContext(d) /\ d.funcs = Append(c.funcs, func) /\ d.globals = fe.globals
        BY <3>4, <4>1 DEF IsContext
      <4> QED BY <1>4, <2>2, <4>2 DEF Defined, func
    <3> QED BY <1>1, <3>3, <3>4
  <2> QED BY <2>1, <2>2
<1> QED BY <1>3, <1>4

-----------------------------------------------------------------------------
(* The owners of the globals.                                              *)

\* A global after Print's is one function's, or its memory is freed.
Owns(c) ==
  /\ c.funcs \in Seq(Range(c.funcs)) /\ c.globals \in Seq(Global) /\ Len(c.globals) >= 1
  /\ \A i \in DOMAIN c.funcs : c.funcs[i].owned \subseteq 2..Len(c.globals)
  /\ \A i, k \in DOMAIN c.funcs : i # k => c.funcs[i].owned \cap c.funcs[k].owned = {}
  /\ \A g \in 2..Len(c.globals) :
       c.globals[g] = Null <=> \A i \in DOMAIN c.funcs : g \notin c.funcs[i].owned

\* No two functions have the same name.
NamesDiffer(c) ==
  \A i, k \in DOMAIN c.funcs : i # k => c.funcs[i].name # c.funcs[k].name

\* Functions and globals stay what they are.
Keeps(c, d) ==
  /\ \A i \in DOMAIN c.funcs : i \in DOMAIN d.funcs /\ d.funcs[i] = c.funcs[i]
  /\ \A g \in DOMAIN c.globals : g \in DOMAIN d.globals /\ d.globals[g] = c.globals[g]

LEMMA FreedKeeps ==
  ASSUME NEW c, Owns(c), NamesDiffer(c), NEW fe, FrontendOf(c, fe), NEW d, Freed(c, fe, d)
  PROVE  Owns(d) /\ NamesDiffer(d) /\ Keeps(c, d)
<1> DEFINE n == Len(c.globals)
           m == Len(fe.globals)
<1>1. /\ n \in Nat /\ m \in Nat /\ 1 <= n /\ n <= m /\ fe.owned = (n + 1)..m
      /\ c.globals \in Seq(Global) /\ fe.globals \in Seq(Global)
      /\ DOMAIN c.globals = 1..n /\ DOMAIN fe.globals = 1..m
      /\ \A g \in 1..n : fe.globals[g] = c.globals[g]
  BY DEF Owns, FrontendOf
<1>2. d.funcs = c.funcs /\ d.globals = frontend_free(fe.globals, fe.owned)
  BY DEF Freed
<1> HIDE DEF n, m
<1>3. /\ d.globals = [g \in 1..m |-> IF g \in (n + 1)..m THEN Null ELSE fe.globals[g]]
      /\ \A g \in 1..m : fe.globals[g] \in Global
  BY <1>1, <1>2 DEF frontend_free
<1>4. /\ d.globals \in [1..m -> Global]
      /\ \A g \in 1..n : d.globals[g] = c.globals[g]
      /\ \A g \in (n + 1)..m : d.globals[g] = Null
  BY <1>1, <1>3 DEF Global
<1>5. d.globals \in Seq(Global) /\ Len(d.globals) = m /\ DOMAIN d.globals = 1..m
  BY <1>1, <1>4
<1>6. Keeps(c, d)
  BY <1>1, <1>2, <1>4, <1>5 DEF Keeps
<1>7. /\ \A i \in DOMAIN d.funcs : d.funcs[i].owned \subseteq 2..n
      /\ \A g \in 2..n : c.globals[g] = Null <=>
           \A i \in DOMAIN d.funcs : g \notin d.funcs[i].owned
  BY <1>2 DEF Owns, n
<1>8. ASSUME NEW g \in 2..m
      PROVE  d.globals[g] = Null <=> \A i \in DOMAIN d.funcs : g \notin d.funcs[i].owned
  <2>1. CASE g \in 2..n
    BY <1>1, <1>4, <1>7, <2>1
  <2>2. CASE g \in (n + 1)..m
    <3>1. g \notin 2..n
      BY <1>1, <2>2
    <3> QED BY <1>4, <1>7, <2>2, <3>1
  <2> QED BY <1>1, <2>1, <2>2
<1>9. \A i \in DOMAIN d.funcs : d.funcs[i].owned \subseteq 2..m
  BY <1>1, <1>7
<1>10. Owns(d) /\ NamesDiffer(d)
  <2>1. /\ c.funcs \in Seq(Range(c.funcs))
        /\ \A i, k \in DOMAIN c.funcs : i # k => c.funcs[i].owned \cap c.funcs[k].owned = {}
    BY DEF Owns
  <2>2. Len(d.globals) >= 1
    BY <1>1, <1>5
  <2>3. NamesDiffer(d)
    BY <1>2 DEF NamesDiffer
  <2> QED BY <1>2, <1>5, <1>8, <1>9, <2>1, <2>2, <2>3 DEF Owns
<1> QED BY <1>6, <1>10

LEMMA DefinedKeeps ==
  ASSUME NEW c, Owns(c), NamesDiffer(c), NEW fe, FrontendOf(c, fe), NEW f, NEW d,
         Defined(c, f, fe, d)
  PROVE  Owns(d) /\ NamesDiffer(d) /\ Keeps(c, d)
<1> DEFINE n == Len(c.globals)
           m == Len(fe.globals)
           k == Len(c.funcs)
           func == [name |-> f.name, ops |-> fe.ops, owned |-> fe.owned]
<1>1. /\ n \in Nat /\ m \in Nat /\ 1 <= n /\ n <= m /\ fe.owned = (n + 1)..m
      /\ c.globals \in Seq(Global) /\ fe.globals \in Seq(Global)
      /\ DOMAIN c.globals = 1..n /\ DOMAIN fe.globals = 1..m
      /\ \A g \in 1..n : fe.globals[g] = c.globals[g]
      /\ \A g \in (n + 1)..m : fe.globals[g] # Null
  BY DEF Owns, FrontendOf
<1>2. /\ c.funcs \in Seq(Range(c.funcs)) /\ k \in Nat /\ DOMAIN c.funcs = 1..k
      /\ \A i \in 1..k : c.funcs[i].owned \subseteq 2..n
      /\ \A i, j \in 1..k : i # j => c.funcs[i].owned \cap c.funcs[j].owned = {}
      /\ \A g \in 2..n : c.globals[g] = Null <=> \A i \in 1..k : g \notin c.funcs[i].owned
  BY DEF Owns
<1>3. d.funcs = Append(c.funcs, func) /\ d.globals = fe.globals
  BY DEF Defined
<1>4. /\ func.owned = (n + 1)..m /\ func.name = f.name
  BY <1>1
<1>5. \A i \in 1..k : c.funcs[i].name # f.name
  BY <1>2 DEF Defined, name_exists, FuncsNamed
<1> HIDE DEF n, m, k, func
<1>6. /\ d.funcs \in Seq(Range(c.funcs) \cup {func}) /\ Len(d.funcs) = k + 1
      /\ DOMAIN d.funcs = 1..(k + 1)
      /\ d.funcs[k + 1] = func /\ \A i \in 1..k : d.funcs[i] = c.funcs[i]
  <2>1. c.funcs \in Seq(Range(c.funcs) \cup {func})
    BY <1>2
  <2> QED BY <1>2, <1>3, <2>1, AppendProperties DEF k
<1>7. d.funcs \in Seq(Range(d.funcs))
  BY <1>6 DEF Range
<1>8. Keeps(c, d)
  BY <1>1, <1>2, <1>3, <1>6 DEF Keeps
<1>9. ASSUME NEW i \in 1..(k + 1)
      PROVE  /\ d.funcs[i].owned \subseteq 2..m
             /\ \A j \in 1..(k + 1) : i # j =>
                  /\ d.funcs[i].owned \cap d.funcs[j].owned = {}
                  /\ d.funcs[i].name # d.funcs[j].name
  <2>. /\ (2..n) \cap ((n + 1)..m) = {} /\ 2..n \subseteq 2..m /\ (n + 1)..m \subseteq 2..m
    BY <1>1
  <2>0. ASSUME NEW j \in 1..k PROVE d.funcs[j].owned \subseteq 2..n
    BY <1>2, <1>6
  <2>1. \A j \in 1..k : d.funcs[j].owned \cap ((n + 1)..m) = {}
    BY <2>0
  <2>2. CASE i = k + 1
    <3>1. \A j \in 1..(k + 1) : i # j => j \in 1..k
      BY <1>2, <2>2
    <3>2. d.funcs[i].owned = (n + 1)..m /\ d.funcs[i].name = f.name
      BY <1>4, <1>6, <2>2
    <3>3. d.funcs[i].owned \subseteq 2..m
      BY <1>1, <3>2
    <3> QED BY <1>5, <1>6, <2>1, <3>1, <3>2, <3>3
  <2>3. CASE i \in 1..k
    <3>1. d.funcs[i].owned \subseteq 2..m
      BY <2>0, <2>3
    <3>2. ASSUME NEW j \in 1..(k + 1), i # j
          PROVE  /\ d.funcs[i].owned \cap d.funcs[j].owned = {}
                 /\ d.funcs[i].name # d.funcs[j].name
      <4>1. CASE j = k + 1
        BY <1>4, <1>5, <1>6, <2>1, <2>3, <4>1
      <4>2. CASE j \in 1..k
        <5>1. d.funcs[i] = c.funcs[i] /\ d.funcs[j] = c.funcs[j]
          BY <1>6, <2>3, <4>2
        <5>2. c.funcs[i].name # c.funcs[j].name
          BY <1>2, <2>3, <3>2, <4>2 DEF NamesDiffer
        <5> QED BY <1>2, <2>3, <3>2, <4>2, <5>1, <5>2
      <4> QED BY <1>2, <3>2, <4>1, <4>2
    <3> QED BY <3>1, <3>2
  <2> QED BY <1>2, <2>2, <2>3
<1>10. ASSUME NEW g \in 2..m
       PROVE  d.globals[g] = Null <=> \A i \in 1..(k + 1) : g \notin d.funcs[i].owned
  <2>1. CASE g \in 2..n
    <3>1. g \notin d.funcs[k + 1].owned /\ fe.globals[g] = c.globals[g]
      BY <1>1, <1>4, <1>6, <2>1
    <3>2. \A i \in 1..(k + 1) : i = k + 1 \/ i \in 1..k
      BY <1>2
    <3>3. \A i \in 1..k : i \in 1..(k + 1) /\ d.funcs[i] = c.funcs[i]
      BY <1>2, <1>6
    <3> QED BY <1>2, <1>3, <2>1, <3>1, <3>2, <3>3
  <2>2. CASE g \in (n + 1)..m
    <3>1. d.funcs[k + 1].owned = (n + 1)..m
      BY <1>4, <1>6
    <3>2. k + 1 \in 1..(k + 1)
      BY <1>2
    <3> QED BY <1>1, <1>3, <2>2, <3>1, <3>2
  <2> QED BY <1>1, <2>1, <2>2
<1>11. Owns(d)
  <2>1. d.globals \in Seq(Global) /\ Len(d.globals) = m /\ m >= 1
    BY <1>1, <1>3 DEF m
  <2> QED BY <1>6, <1>7, <1>9, <1>10, <2>1 DEF Owns
<1>12. NamesDiffer(d)
  BY <1>6, <1>9 DEF NamesDiffer
<1> QED BY <1>8, <1>11, <1>12

-----------------------------------------------------------------------------
(* Sessions.                                                               *)

Words == UNION {Range(line) : line \in Lines}

IsForm(f) == f \in [name : {f.name}, words : Seq(Words)]

SessionInv == IsForm(form) /\ IsContext(ctx) /\ Owns(ctx) /\ NamesDiffer(ctx)

LEMMA InputWords ==
  ASSUME NEW line \in Lines
  PROVE  Input(line) \in Seq(Words)
<1>1. line \in Seq(Words)
  <2>1. line \in Seq(Range(line)) /\ Range(line) \subseteq Words
    BY LinesAssumption DEF Words
  <2> QED BY <2>1
<1>2. Complete(line) => Front(line) \in Seq(Words)
  BY <1>1 DEF Complete, Front
<1> QED BY <1>1, <1>2 DEF Input

LEMMA WrittenForm ==
  ASSUME IsForm(form), NEW input \in Seq(Words)
  PROVE  IsForm(Written(input))
<1>1. CASE ~Begins(input)
  <2>1. form.words \o input \in Seq(Words)
    BY DEF IsForm
  <2> QED BY <1>1, <2>1 DEF Written, IsForm
<1>2. CASE Begins(input) /\ Len(input) # 1
  <2>1. Len(input) \in Nat /\ Len(input) >= 2
    <3>1. Len(input) \in Nat \ {0}
      BY <1>2, EmptySeq DEF Begins
    <3>2. PICK n : n = Len(input)
      OBVIOUS
    <3>3. n \in Nat /\ n # 0 /\ n # 1
      BY <1>2, <3>1, <3>2
    <3>4. n >= 2
      BY ONLY <3>3
    <3> QED BY <3>2, <3>3, <3>4
  <2>2. SubSeq(input, 3, Len(input)) \in Seq(Words)
    BY <2>1
  <2> QED BY <1>2, <2>2 DEF Written, IsForm
<1> QED BY <1>1, <1>2 DEF Written

LEMMA InitSession == Init => SessionInv
<1> SUFFICES ASSUME Init PROVE SessionInv
  OBVIOUS
<1>1. IsForm(form)
  BY DEF Init, NoForm, IsForm
<1>2. ctx = NoFuncs
  BY DEF Init
<1>3. /\ IsContext(NoFuncs) /\ NoFuncs.funcs = <<>> /\ NoFuncs.globals = <<"print_int">>
  BY DEF NoFuncs, IsContext
<1>4. NoFuncs.globals \in Seq(Global) /\ Len(NoFuncs.globals) = 1
  BY <1>3 DEF Global
<1>5. Owns(NoFuncs) /\ NamesDiffer(NoFuncs)
  BY <1>3, <1>4 DEF Owns, NamesDiffer
<1> QED BY <1>1, <1>2, <1>3, <1>5 DEF SessionInv

\* Completing a form keeps the owners, the names, and all there was.
LEMMA FinishKeeps ==
  ASSUME NEW c, IsContext(c), Owns(c), NamesDiffer(c), NEW f, IsForm(f)
  PROVE  LET d == finish_form(c, f).ctx
         IN  IsContext(d) /\ Owns(d) /\ NamesDiffer(d) /\ Keeps(c, d)
<1>1. PICK fe, d : fe = frontend_compile_source(c, f.words) /\ d = finish_form(c, f).ctx
  OBVIOUS
<1>2. FrontendOf(c, fe)
  <2>1. c.globals \in Seq(Global) /\ Len(f.words) \in Nat
    BY DEF Owns, IsForm
  <2> QED BY <1>1, <2>1, SourceOwns
<1>3. IsContext(d) /\ (d = c \/ Freed(c, fe, d) \/ Defined(c, f, fe, d))
  BY <1>1, Outcomes
<1>4. Owns(d) /\ NamesDiffer(d) /\ Keeps(c, d)
  BY <1>2, <1>3, FreedKeeps, DefinedKeeps DEF Keeps
<1> QED BY <1>1, <1>3, <1>4

LEMMA SessionSteps ==
  ASSUME SessionInv, [Next]_vars
  PROVE  SessionInv' /\ Keeps(ctx, ctx')
<1>1. ASSUME NEW line \in Lines, ReadLine(line)
      PROVE  SessionInv' /\ Keeps(ctx, ctx')
  <2>1. PICK f : f = Written(Input(line))
    OBVIOUS
  <2>2. IsForm(f)
    BY <2>1, InputWords, WrittenForm DEF SessionInv
  <2>3. CASE Extend(f)
    BY <2>2, <2>3 DEF Extend, SessionInv, Keeps
  <2>4. CASE Finish(f, finish_form(ctx, f))
    <3>1. form' = NoForm /\ ctx' = finish_form(ctx, f).ctx
      BY <2>4 DEF Finish
    <3>2. IsForm(form')
      BY <3>1 DEF NoForm, IsForm
    <3>3. IsContext(ctx') /\ Owns(ctx') /\ NamesDiffer(ctx') /\ Keeps(ctx, ctx')
      BY <2>2, <3>1, FinishKeeps DEF SessionInv
    <3> QED BY <3>2, <3>3 DEF SessionInv
  <2> QED BY <1>1, <2>1, <2>3, <2>4 DEF ReadLine
<1>2. CASE UNCHANGED vars
  BY <1>2 DEF vars, SessionInv, Keeps
<1> QED BY <1>1, <1>2 DEF Next

\* The inductive invariant of a session: that no global has two owners needs that every
\* owner's globals exist, for a new literal to be nobody's (frontend.c:247-268).
THEOREM SessionSafe == Spec => []SessionInv
<1>1. SessionInv /\ [Next]_vars => SessionInv'
  BY SessionSteps
<1> QED BY <1>1, InitSession, PTL DEF Spec

\* The memory of every literal has one owner until it is freed (repl.c:114-120, frontend.c:34-43),
\* whatever the compiler accepts, for any forms, refused ones and full tables included.
THEOREM LiteralsHaveOwners == Spec => []LiteralsOwned
<1>1. SessionInv => LiteralsOwned
  <2> SUFFICES ASSUME SessionInv, NEW g \in 2..Len(ctx.globals)
               PROVE  Cardinality({i \in DOMAIN ctx.funcs : g \in ctx.funcs[i].owned}) =
                        IF ctx.globals[g] = Null THEN 0 ELSE 1
    BY DEF LiteralsOwned
  <2> DEFINE owners == {i \in DOMAIN ctx.funcs : g \in ctx.funcs[i].owned}
  <2>1. CASE ctx.globals[g] = Null
    <3>1. owners = {}
      BY <2>1 DEF SessionInv, Owns
    <3> QED BY <2>1, <3>1, FS_EmptySet
  <2>2. CASE ctx.globals[g] # Null
    <3>1. PICK i \in DOMAIN ctx.funcs : g \in ctx.funcs[i].owned
      BY <2>2 DEF SessionInv, Owns
    <3>2. owners = {i}
      BY <3>1 DEF SessionInv, Owns
    <3> QED BY <2>2, <3>2, FS_Singleton
  <2> QED BY <2>1, <2>2
<1> QED BY <1>1, SessionSafe, PTL

\* No two functions have the same name (repl.c:166, 174): a name is one function's.
THEOREM NamesAreUnique == Spec => []NamesDiffer(ctx)
<1>1. SessionInv => NamesDiffer(ctx)
  BY DEF SessionInv
<1> QED BY <1>1, SessionSafe, PTL

\* A function that was defined and the globals there are never change again (repl.c:114-120,
\* frontend.c:34-43): no form frees or overwrites what an earlier one left.
THEOREM FunctionsStay == Spec => [][Keeps(ctx, ctx')]_vars
<1>1. SessionInv /\ [Next]_vars => [Keeps(ctx, ctx')]_vars
  BY SessionSteps
<1> QED BY <1>1, SessionSafe, PTL DEF Spec
=============================================================================
