------------------------------- MODULE Borrow -------------------------------
(***************************************************************************)
(* A function is written statement by statement, verified, and, if it is   *)
(* accepted, run.  It has two nested scopes of variables:                  *)
(*   VAR outer ones { MANY { L; VAR inner ones { L' }; L } }               *)
(* where L is LOOP { MANY { IF (..) statement; ...; IF (..) BREAK } } over *)
(* the statements of the outer scope, and L' over those of the inner one.  *)
(* So it may execute its statements any number of times in any order,      *)
(* before, in and after the inner scope.                                   *)
(*                                                                         *)
(* Of the run, mem is kept: where each slice and view points to (the       *)
(* instructions of vm.c that write one).  A place is a variable and a      *)
(* path into it, as in a Par, but never through a slice or a view; the     *)
(* elements of an array are one place.                                     *)
(***************************************************************************)
EXTENDS Verification, FiniteSets

CONSTANTS
  Context,        \* types, globals and signatures
  Others,         \* functions before this one, to be verified with it
  Vars,           \* the types of the variables, arguments first
  Args,           \* the first Args variables are arguments
  Outer,          \* the next ones, up to Outer, are of the outer scope
  Vocabulary,     \* the statements there are: [ops, inner], in textual order
  MaxStatements   \* bound: the statements of a function

VARIABLES
  text,      \* the statements written, as indices into Vocabulary
  verdict,   \* "unread", "" for accepted, or why it was rejected
  where,     \* "before", "inside" or "after" the inner scope
  mem        \* from the place of every slice and view to the place it points at

vars == <<text, verdict, where, mem>>

-----------------------------------------------------------------------------
(* The function that has been written.                                     *)

Condition == <<[kind |-> "PUSH_GLOBAL", extra |-> "one"]>>

\* Four blocks from index `at', in a chain that goes on at `next': IF (..) goes to yes.
Item(at, next, yes, start, len) ==
  << Chain(at + 1, next),
     [kind |-> "BRANCH", cond |-> [start |-> 0, len |-> 1], yes |-> yes, no |-> at + 3],
     Basic(start, len), Basic(0, 0) >>

OpsOf(k) == Vocabulary[k].ops
Before(k) == FoldLeft(LAMBDA n, j : n + Len(OpsOf(j)), 1, SubSeq(text, 1, k - 1))

Scope(inner) == SelectSeq([k \in DOMAIN text |-> k],
                          LAMBDA k : Vocabulary[text[k]].inner = inner)

VarChain(from, to, at) ==
  [i \in 1..(to - from + 1) |->
     [kind |-> "VAR", var |-> from + i - 1, body |-> at + i]]

\* LOOP { MANY { empty; IF (..) statement k, for k in ks; IF (..) BREAK } }, at `at'.
LoopOver(ks, at) ==
  LET AtItem(i) == at + 3 + 4 * (i - 1)
      end == AtItem(Len(ks) + 1)
  IN << [kind |-> "LOOP", body |-> at + 1], Many(at + 2, at + 3), Basic(0, 0) >> \o
     FlattenSeq([i \in DOMAIN ks |->
       Item(AtItem(i), AtItem(i + 1), AtItem(i) + 2, Before(ks[i]), Len(OpsOf(text[ks[i]])))]) \o
     Item(end, NoBlock, end + 4, 0, 0) \o <<Break(2)>>

LoopLen(ks) == 8 + 4 * Len(ks)

Function ==
  LET many == Outer - Args + 1
      middle == many + 3 + LoopLen(Scope(FALSE))
      second == middle + Len(Vars) - Outer
      last == second + LoopLen(Scope(TRUE))
  IN [vars |-> Vars,
      ops |-> Condition \o FlattenSeq([k \in DOMAIN text |-> OpsOf(text[k])]),
      blocks |->
        VarChain(Args + 1, Outer, 1) \o
        << Many(many + 3, many + 1), Chain(middle, many + 2), Chain(last, NoBlock) >> \o
        LoopOver(Scope(FALSE), many + 3) \o
        VarChain(Outer + 1, Len(Vars), middle) \o
        LoopOver(Scope(TRUE), second) \o
        LoopOver(Scope(FALSE), last)]

-----------------------------------------------------------------------------
(* Memory.                                                                 *)

Types == Context.types
Place(v, path) == [var |-> v, path |-> path]
In(place, step) == [place EXCEPT !.path = Append(@, step)]
Nowhere == Place(0, <<>>)   \* a slice that was never set has no element

\* The paths into a value of type t, and those that lead to a slice or a view.
RECURSIVE PathsOf(_)
PathsOf(t) ==
  {<<>>} \cup
  (CASE Types[t].kind = "ARRAY" -> {<<0>> \o p : p \in PathsOf(Types[t].elem)}
     [] Types[t].kind = "STRUCT" ->
          UNION {{<<i>> \o p : p \in PathsOf(Types[t].fields[i])} : i \in DOMAIN Types[t].fields}
     [] OTHER -> {})

TypeAt(place) ==
  FoldLeft(LAMBDA t, step : PartType(Context, t, step), Vars[place.var], place.path)
IsRefAt(place) == IsRef(Context, TypeAt(place))

Refs == {r \in UNION {{Place(v, p) : p \in PathsOf(Vars[v])} : v \in DOMAIN Vars} : IsRefAt(r)}

RefsUnder(place) == {r \in Refs : r.var = place.var /\ IsPrefix(place.path, r.path)}

Live == IF where = "inside" THEN DOMAIN Vars ELSE 1..Outer

\* A copy takes the pointers in the value with it.
Copied(m, dst, src) ==
  LET from(r) == Place(src.var, src.path \o SubSeq(r.path, Len(dst.path) + 1, Len(r.path)))
  IN [r \in DOMAIN m |-> IF r \in RefsUnder(dst) THEN m[from(r)] ELSE m[r]]

\* One operation: stack is the places on the parameter stack.  It stops at an index
\* into a slice that was never set, which crashes.
Perform(d, op) ==
  LET n == Len(d.stack)
      top == d.stack[n]
      below == d.stack[n - 1]
      Push(k, place) == [d EXCEPT !.stack = Append(Popped(@, k), place)]
      Write(m) == [d EXCEPT !.stack = Popped(@, 1), !.mem = m]
  IN
  IF d.stopped THEN d
  ELSE
  CASE op.kind \in {"PUSH_VAR", "PUSH_ARG"} -> Push(0, Place(op.extra, <<>>))
    [] op.kind = "PUSH_GLOBAL" -> Push(0, Nowhere)
    [] op.kind = "ARR_AT" -> Push(2, In(below, 0))
    [] op.kind = "STRUCT_AT" -> Push(1, In(top, op.extra))
    [] op.kind = "SLICE_AT" ->
         IF d.mem[below] = Nowhere THEN [d EXCEPT !.stopped = TRUE]
         ELSE Push(2, d.mem[below])
    [] op.kind = "SLICE_FROM_AR" -> Write([d.mem EXCEPT ![below] = In(top, 0)])
    [] op.kind = "SLICE_FROM_ONE" -> Write([d.mem EXCEPT ![below] = top])
    [] op.kind = "ASSIGN" -> Write(Copied(d.mem, below, top))
    [] op.kind = "ARR_PUSH" -> Write(Copied(d.mem, In(below, 0), top))
    [] op.kind = "CALL" ->
         [d EXCEPT !.stack = Popped(@, Len(Context.funcs[op.extra].ins)),
                   !.calls = Append(@, [sig |-> Context.funcs[op.extra],
                      args |-> ArgsBelow(d.stack, Context.funcs[op.extra], 0)])]

Performed(k) ==
  FoldLeft(Perform, [stack |-> <<>>, mem |-> mem, calls |-> <<>>, stopped |-> FALSE],
           OpsOf(k))

-----------------------------------------------------------------------------
Init ==
  /\ text = <<>> /\ verdict = "unread" /\ where = "before"
  /\ mem = [r \in Refs |-> Nowhere]

Write ==
  /\ verdict = "unread" /\ Len(text) < MaxStatements
  /\ \E k \in DOMAIN Vocabulary :
       /\ text # <<>> => Last(text) < k
       /\ text' = Append(text, k)
  /\ UNCHANGED <<verdict, where, mem>>

Verify ==
  /\ verdict = "unread"
  /\ verdict' = borrow_check(Context, Append(Others, Function)).why
  /\ UNCHANGED <<text, where, mem>>

Accepted == verdict = ""

\* The function has not run: what is said of its text is checked here.
Unrun == where = "before" /\ \A r \in Refs : mem[r] = Nowhere

\* VAR: storage is zeroed when it is added
Enter ==
  /\ Accepted /\ where = "before"
  /\ where' = "inside"
  /\ mem' = [r \in Refs |-> IF r.var > Outer THEN Nowhere ELSE mem[r]]
  /\ UNCHANGED <<text, verdict>>

Leave ==
  /\ Accepted /\ where = "inside"
  /\ where' = "after"
  /\ UNCHANGED <<text, verdict, mem>>

Runs(k) == Accepted /\ Vocabulary[k].inner = (where = "inside")

Execute(k) ==
  /\ Runs(k)
  /\ mem' = Performed(k).mem
  /\ UNCHANGED <<text, verdict, where>>

Next == Write \/ Verify \/ Enter \/ Leave \/ \E k \in ToSet(text) : Execute(k)

Spec == Init /\ [][Next]_vars

-----------------------------------------------------------------------------
(* Properties.                                                             *)

\* A slice or view only ever points at data of its element type: the types the first
\* pass checks (verification.c:273) are those of the run.
TypeOK ==
  /\ ToSet(text) \subseteq DOMAIN Vocabulary
  /\ verdict \in {"unread", "", "TYPE", "PORTAL", "ALIAS", "REFUSED", "DIVERGES"}
  /\ where \in {"before", "inside", "after"}
  /\ \A r \in Refs :
       mem[r] # Nowhere => TypeAt(mem[r]) = Types[TypeAt(r)].elem

\* No slice or view that is alive points into a variable that is not: what the regions of
\* type_check_first_pass are for (verification.c:637).
NoDangling ==
  \A r \in Refs : r.var \in Live /\ mem[r] # Nowhere => mem[r].var \in Live

\* What an argument at this place gives access to, and whether it may be written.
RECURSIVE Reach(_, _)
Reach(place, writes) ==
  {[place |-> place, writes |-> writes]} \cup
  (IF place = Nowhere THEN {} ELSE
   UNION {IF mem[r] = Nowhere THEN {}
          ELSE Reach(mem[r], writes /\ Types[TypeAt(r)].kind = "SLICE")
          : r \in RefsUnder(place)})

Overlap(p, q) ==
  /\ p.var = q.var /\ p # Nowhere
  /\ IsPrefix(p.path, q.path) \/ IsPrefix(q.path, p.path)

Unique(sig, i) == i <= Len(sig.outs) \/ sig.mut[i - Len(sig.outs)]

\* In a call of an accepted function, nothing that is reached through a unique argument
\* and may be written is reached through another argument (verification.c:813), whatever
\* statements ran before, in the order of the text or not.
CallsDisjoint ==
  \A k \in ToSet(text) : Runs(k) =>
    \A c \in ToSet(Performed(k).calls) :
      \A i, j \in DOMAIN c.args :
        i # j /\ Unique(c.sig, i) =>
          \A a \in Reach(c.args[i], TRUE), b \in Reach(c.args[j], FALSE) :
            a.writes => ~Overlap(a.place, b.place)

-----------------------------------------------------------------------------
(* What a call borrows, stated without an order: the least set that has    *)
(* the arguments, what they hold, and the fields of structs.               *)

StaticOf(f) == type_check_first_pass(Context, Append(Others, f))

RECURSIVE Whole(_)
Whole(par) ==
  IF par.path # <<>> /\ Last(par.path) = 0 THEN Whole([par EXCEPT !.path = Front(@)]) ELSE par

Borrowed(f, holds, b) ==
  LET t == ParType(Context, f, b.par)
  IN {[par |-> Whole(h.par), writes |-> b.writes /\ ~h.just_const] :
        h \in {h \in ToSet(holds) : h.owner = b.par}}
     \cup (IF IsKind(Context, t, "STRUCT")
           THEN {[b EXCEPT !.par = Project(@, i)] : i \in DOMAIN Types[t].fields}
           ELSE {})

RECURSIVE Closed(_, _, _)
Closed(f, holds, set) ==
  LET more == set \cup UNION {Borrowed(f, holds, b) : b \in set}
  IN IF more = set THEN set ELSE Closed(f, holds, more)

BorrowsOf(f, holds, par, unique) ==
  Closed(f, holds, {[par |-> Whole(par), writes |-> unique]})

\* The calls of a statement, with the Pars of their arguments.
StaticCalls(f, k) ==
  {LET before == FoldLeft(LAMBDA s, op : Shifted(Context, f, s, op),
                          [pars |-> <<>>, why |-> ""], SubSeq(OpsOf(k), 1, n - 1))
       sig == Context.funcs[OpsOf(k)[n].extra]
   IN [sig |-> sig, args |-> ArgsBelow(before.pars, sig, 0)] :
   n \in {n \in DOMAIN OpsOf(k) : OpsOf(k)[n].kind = "CALL"}}

InConflict(f, holds, c) ==
  \E i, j \in DOMAIN c.args :
    /\ i # j /\ Unique(c.sig, i)
    /\ \E a \in BorrowsOf(f, holds, c.args[i], TRUE),
          b \in BorrowsOf(f, holds, c.args[j], Unique(c.sig, j)) :
         a.writes /\ a.par = b.par

Conflict(f, holds) ==
  \E k \in ToSet(text) : \E c \in StaticCalls(f, k) : InConflict(f, holds, c)

\* A unique argument that leads to something it writes by two ways conflicts with itself.
Ways(f, holds, set, par) ==
  {<<b, h>> \in set \X ToSet(holds) : h.owner = b.par /\ Whole(h.par) = par}
  \cup {<<b, i>> \in set \X (1..3) : \E a \in Borrowed(f, <<>>, b) :
           a.par = par /\ par = Project(b.par, i)}
TwoWays(f, holds, par) ==
  LET set == BorrowsOf(f, holds, par, TRUE)
      roots(a) == IF a.par = Whole(par) THEN 1 ELSE 0
  IN \E a \in set : a.writes /\ Cardinality(Ways(f, holds, set, a.par)) + roots(a) > 1

ConflictWithItself(f, holds) ==
  \E k \in ToSet(text) : \E c \in StaticCalls(f, k) :
    \E i \in DOMAIN c.args : Unique(c.sig, i) /\ TwoWays(f, holds, c.args[i])

InAnyConflict(f, holds) == Conflict(f, holds) \/ ConflictWithItself(f, holds)

\* The recursion of borrow_par, which marks handles as it goes and stops at the first it
\* cannot have (verification.c:778), comes to an end and rejects a function exactly if two
\* arguments of a call borrow the same thing and one of them writes it, or one argument
\* has two ways to it.
ExactVerdict ==
  Unrun /\ verdict \in {"", "ALIAS", "DIVERGES"} =>
    /\ verdict # "DIVERGES"
    /\ (verdict = "ALIAS" <=> InAnyConflict(Function, StaticOf(Function).holds))

\* What is rejected is a conflict of a unique borrow with another argument
\* (verification.c:784).
OnlyOthersConflict ==
  verdict = "ALIAS" => Conflict(Function, StaticOf(Function).holds)

\* What is held in one function does not count in another: a function is rejected for its
\* own statements (verification.c:594).
AnalysisIsLocal ==
  verdict = "ALIAS" => borrow_check(Context, <<Function>>).why = "ALIAS"
=============================================================================
