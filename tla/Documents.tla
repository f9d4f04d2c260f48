----------------------------- MODULE Documents -----------------------------
(***************************************************************************)
(* What src/README.md and the comments of the sources say, and an example  *)
(* of each on which the code does something else.  The examples are read,  *)
(* laid out, verified and run by the modules of this project: forms by     *)
(* Forms, types by TypeTables, functions by Borrow, indices by Arrays,     *)
(* sessions by Session.                                                    *)
(* They are judged one after the other; contradicted is what is not kept.  *)
(***************************************************************************)
EXTENDS Integers, Sequences, SequencesExt

VARIABLES judged, contradicted

-----------------------------------------------------------------------------
(* Forms.                                                                  *)

Known ==
  [types |-> [int |-> [kind |-> "INT", size |-> 1]],
   globals |-> [one |-> [type |-> "int", null |-> FALSE]],
   funcs |-> [none |-> [ok |-> FALSE]]]

Compiling(output, most) == INSTANCE Forms WITH
  VarType <- [x |-> "int", y |-> "int"], Natives <- {}, Callees <- {},
  MaxFrame <- 100, MaxCode <- most, Context <- Known,
  Vocabularies <- {}, words <- [phrases |-> {}, max |-> 0], read <- 0,
  ended <- FALSE, fe <- 0
F == INSTANCE Forms WITH
  VarType <- [x |-> "int", y |-> "int"], Natives <- {}, Callees <- {},
  MaxFrame <- 100, MaxCode <- 1000, Context <- Known,
  Vocabularies <- {}, words <- [phrases |-> {}, max |-> 0], read <- 0,
  ended <- FALSE, fe <- 0, output <- 0

Token(w) ==
  CASE w = "1" -> [w |-> "Number", arg |-> "one"]
    [] w = "x" -> [w |-> "Name", arg |-> w]
    [] w \in {"Var x", "Var y"} -> [w |-> "Var", arg |-> IF w = "Var x" THEN "x" ELSE "y"]
    [] OTHER -> [w |-> w, arg |-> w]

Tokens(source) == [k \in DOMAIN source |-> Token(source[k])]

\* The frontend's state after the source was read to its end.
Built(source) == F!frontend_compile_source(Tokens(source))

BreaksExitTheirLoop(fe) ==
  fe.error = "OK" =>
    \A k \in DOMAIN fe.blocks :
      fe.blocks[k].kind = "BREAK" =>
        \E loop \in DOMAIN fe.blocks :
          /\ F!IsInnermostLoop(fe.blocks, k, loop)
          /\ F!Reaches(fe.blocks, k, loop, "Break")

\* Where code positions are `most' at most, what is compiled jumps where it may.
JumpsFit(output, most) == Compiling(output, most)!OutputCertified

SourceKept(e) ==
  CASE e.about = "breaks" -> BreaksExitTheirLoop(Built(e.source))
    [] e.about = "tree" -> F!IsTree(Built(e.source).blocks)
    [] e.about = "compiles" ->
         Built(e.source).error = "OK" => F!CompileForm(Tokens(e.source)).ok
    [] e.about = "jumps" -> JumpsFit(Compiling(0, 1)!CompileForm(Tokens(e.source)), 1)

-----------------------------------------------------------------------------
(* Functions: their statements run once, in the order of the text.         *)

S == INSTANCE Statements

B(text, verdict, where, mem, others) == INSTANCE Borrow WITH
  Context <- S!Known, Others <- others, Vars <- S!Variables, Args <- S!Arguments,
  Outer <- S!OuterVariables, Vocabulary <- S!Statements, MaxStatements <- 4

Written(names) ==
  SelectSeq([k \in DOMAIN S!Statements |-> k], LAMBDA k : S!Statements[k].name \in names)

Unset == B(<<>>, "", "before", <<>>, <<>>)!Refs
Ran(text) ==
  FoldLeft(LAMBDA m, k : B(text, "", "before", m, <<>>)!Performed(k).mem,
           [r \in Unset |-> B(<<>>, "", "before", <<>>, <<>>)!Nowhere], text)

VerdictOf(text, others) ==
  B(text, "", "before", <<>>, <<>>)!borrow_check(S!Known,
    Append(others, B(text, "", "before", <<>>, <<>>)!Function)).why

\* What runs, runs without a call whose unique argument overlaps another, and leaves no
\* slice behind that points into a variable that is gone.
FunctionKept(e, text, verdict) ==
  CASE e.about = "disjoint" ->
         verdict = "" => B(text, "", e.where, Ran(text), <<>>)!CallsDisjoint
    [] e.about = "alive" -> verdict = "" => B(text, "", "after", Ran(text), <<>>)!NoDangling
    [] e.about = "ends" -> verdict # "DIVERGES"
    [] e.about = "others" -> B(text, verdict, "before", <<>>, <<>>)!OnlyOthersConflict
    [] e.about = "local" -> B(text, verdict, "before", <<>>, e.others)!AnalysisIsLocal

-----------------------------------------------------------------------------
(* Types and indices.                                                      *)

T(table) == INSTANCE TypeTables WITH
  NumSize <- 8, CountSize <- 4, PtrSize <- 8, CellAlign <- 8,
  MaxTypes <- 4, MaxFields <- 1, Capacities <- {3}

ArrayOfSlices ==
  << [kind |-> "INT"], [kind |-> "BYTE"], [kind |-> "SLICE", elem |-> 1],
     [kind |-> "ARRAY", elem |-> 3, capacity |-> 3] >>

A == INSTANCE Arrays WITH
  Arr <- {"a"}, Slice <- {"s"}, Val <- {0}, None <- "none", Zero <- 0, Capacity <- 2,
  CountMod <- 4, Numbers <- 0..4, Paired <- TRUE, MaxAdvance <- 0,
  len <- 0, data <- 0, slice <- 0, top <- 0

IndicesChecked == \A n \in 0..4, l \in 0..2 : n >= l => A!OutOfBounds(n, l)

-----------------------------------------------------------------------------
(* Sessions of the REPL.                                                   *)

K == INSTANCE SessionCode
Q == INSTANCE Session WITH
  Compile <- K!vm_compile_no_defers, Run <- K!vm_run,
  Values <- {"2"}, Lines <- {}, NoName <- "", MaxGlobals <- 10, MaxFuncs <- 10,
  MaxWords <- 10, form <- 0, ctx <- 0, last <- 0, calls <- 0

\* A function that was defined is called by its name.
CalledIn(defined, name) ==
  defined.result = "defined" =>
    Q!run_anonymous(defined.ctx, [name |-> "", words |-> <<name>>]).out = <<"2">>

Called(name) ==
  CalledIn(Q!define_named(Q!NoFuncs, [name |-> name, words |-> <<"2", "Print">>]), name)

-----------------------------------------------------------------------------
(* The documents, and an example of each.  The last four examples are ones *)
(* the code does right.                                                    *)

Source(said, about, source) == [said |-> said, about |-> about, source |-> source]
Statements(said, about, names) ==
  [said |-> said, about |-> about, names |-> names, where |-> "before", others |-> <<>>]
Inside(e) == [e EXCEPT !.where = "inside"]
AfterSetter(e) == [e EXCEPT !.others = S!Setter]
Other(said, about) == [said |-> said, about |-> about]

Examples == <<
  Source("src/README.md:116: Break exits the nearest loop", "breaks",
    <<"Loop", "Defer", "(", "Loop", "Break", "Again", ")", "Break", "Again">>),
  Source("src/README.md:163: a function is a tree of blocks", "tree",
    <<"If", "(", "Var x", "1", ")", "Done">>),
  Source("src/README.md:97: a local is visible for the remainder of the function (arm)",
    "compiles", <<"If", "(", "1", ")", "Var x", "Done", "(", "x", "1", "Add", ")">>),
  Source("src/README.md:97: a local is visible for the remainder of the function (region)",
    "compiles", <<"Start", "Var x", "Finally", "(", "x", ")", "End">>),
  Source("src/README.md:263: arms agree on live variables, storage, stacks and pads",
    "compiles", <<"Var x", "If", "(", "1", ")", "Var y", "Done">>),
  Other("src/README.md:206: an index that is out of bounds crashes", "index"),
  Other("src/README.md:339: align is the natural alignment", "align"),
  Statements("src/README.md:322: borrowing a slice borrows what it points at (element)",
    "disjoint", {"s of nums", "rows[1] = s", "copy(nums[1], rows[1][1])"}),
  Inside(
    Statements("src/README.md:322: borrowing a slice borrows what it points at (struct)",
      "disjoint", {"bx.1 of nums", "bx2 = bx", "copy(nums[1], bx2.1[1])"})),
  Statements("src/README.md:321: borrowing an element borrows the array", "disjoint",
    {"swap(prs[1], prs[1].1)"}),
  Inside(
    Statements("src/README.md:314: an output conflicts with no other argument (view)",
      "disjoint", {"s of nums", "u of nums", "copy(u[1], s[1])"})),
  Statements("src/README.md:324: what is written into a portal lives as long (push)", "alive",
    {"t of i", "push t to rows"}),
  Statements("src/README.md:324: a portal of the caller's cannot be retargeted (slice)",
    "alive", {"deep of caller's", "deep[1] of loc"}),
  Statements("src/README.md:314: shared borrows may overlap", "ends",
    {"s of nums", "s = s", "copy(pr.1, s[1])"}),
  Statements("src/README.md:314: an output is refused for another argument only", "others",
    {"s of nums", "s of nums[1]", "merge(s, t)"}),
  AfterSetter(
    Statements("src/README.md:324: portal lifetime analysis is local", "local",
      {"s of pr.1", "copy(nums[1], s[1])"})),
  Other("src/README.md:23, 36: a function of any name becomes a word", "Print"),
  Source("src/README.md:116: Loop opens a loop and Again closes it", "jumps",
    <<"Var x", "Var y", "Loop", "x", "Again">>),
  Source("src/README.md:116: Break exits the nearest loop, from a defer", "breaks",
    <<"Loop", "Defer", "(", "1", ")", "If", "(", "1", ")", "Break", "Done", "Again">>),
  Statements("src/README.md:314: an output conflicts with no other argument", "disjoint",
    {"s of pr.1", "copy(nums[1], s[1])"}),
  Statements("src/README.md:324: what is written into a portal lives as long", "alive",
    {"t of i", "t = s"}),
  Other("src/README.md:23: a function becomes a word", "f")
>>

Kept(e) ==
  CASE e.about \in {"breaks", "tree", "compiles", "jumps"} -> SourceKept(e)
    [] e.about \in {"disjoint", "alive", "ends", "others", "local"} ->
         FunctionKept(e, Written(e.names), VerdictOf(Written(e.names), e.others))
    [] e.about = "index" -> IndicesChecked
    [] e.about = "align" -> T(ArrayOfSlices)!ElementsAligned
    [] e.about \in {"Print", "f"} -> Called(e.about)

Init == judged = 0 /\ contradicted = {}

Judge ==
  \E k \in DOMAIN Examples :
    /\ k = judged + 1
    /\ judged' = k
    /\ contradicted' =
         IF Kept(Examples[k]) THEN contradicted
         ELSE contradicted \cup {Examples[k].said}

Spec == Init /\ [][Judge]_<<judged, contradicted>>

\* The code does what its documents say, in each of the examples.
DocumentsKept == judged = Len(Examples) => contradicted = {}
=============================================================================
