----------------------------- MODULE Statements -----------------------------
(***************************************************************************)
(* Types, functions, variables and statements for module Borrow: ints,     *)
(* pairs of ints, arrays of ints, slices and views of them and a struct    *)
(* with a slice; and arrays and slices of slices.                          *)
(***************************************************************************)
EXTENDS Sequences, SequencesExt

L == INSTANCE Layout WITH NumSize <- 8, CountSize <- 4, PtrSize <- 8, CellAlign <- 8

Table ==
  [int |-> [kind |-> "INT"], byte |-> [kind |-> "BYTE"],
   ints |-> [kind |-> "ARRAY", elem |-> "int", capacity |-> 4],
   pair |-> [kind |-> "STRUCT", fields |-> <<"int", "int">>],
   pairs |-> [kind |-> "ARRAY", elem |-> "pair", capacity |-> 4],
   slice |-> [kind |-> "SLICE", elem |-> "int"],
   view |-> [kind |-> "VIEW", elem |-> "int"],
   box |-> [kind |-> "STRUCT", fields |-> <<"slice", "int">>],
   slices |-> [kind |-> "ARRAY", elem |-> "slice", capacity |-> 4],
   nested |-> [kind |-> "SLICE", elem |-> "slice"]]

Laid == L!type_layout_all(Table,
          <<"int", "byte", "ints", "pair", "pairs", "slice", "view", "box", "slices", "nested">>)

Sig(outs, ins, mut) == [outs |-> outs, ins |-> ins, mut |-> mut, ok |-> TRUE, code |-> "f"]

Known ==
  [types |-> [t \in DOMAIN Table |->
                Table[t] @@ [portal |-> Laid.types[t].portal, size |-> Laid.sizes[t]]],
   globals |-> [one |-> [type |-> "int", null |-> FALSE]],
   funcs |->
     [copy |-> Sig(<<"int">>, <<"int">>, <<FALSE>>),
      divide |-> Sig(<<"int", "int">>, <<"int">>, <<FALSE>>),
      fill |-> Sig(<<"ints">>, <<"slice">>, <<FALSE>>),
      sort |-> Sig(<<>>, <<"ints", "view">>, <<TRUE, FALSE>>),
      swap |-> Sig(<<"pair">>, <<"int">>, <<FALSE>>),
      merge |-> Sig(<<"slice">>, <<"slice">>, <<FALSE>>),
      pack |-> Sig(<<"box">>, <<"ints">>, <<FALSE>>),
      look |-> Sig(<<"view">>, <<"ints">>, <<FALSE>>)]]

-----------------------------------------------------------------------------
(* Variables and statements.                                               *)

Arguments == 1
Variables == << "slices",                                        \* argument
             "ints", "pair", "pairs", "box", "slice", "slices",      \* outer
             "int", "ints", "slice", "view", "nested", "box" >>      \* inner
nums == 2   pr == 3    prs == 4   bx == 5    s == 6    rows == 7
i == 8      loc == 9   t == 10    u == 11    deep == 12   bx2 == 13

OuterVariables == 7

Op(kind, extra) == <<[kind |-> kind, extra |-> extra]>>
V(v) == IF v <= Arguments THEN Op("PUSH_ARG", v) ELSE Op("PUSH_VAR", v)
At(arr) == arr \o Op("PUSH_GLOBAL", "one") \o Op("ARR_AT", 0)
Through(ref) == ref \o Op("PUSH_GLOBAL", "one") \o Op("SLICE_AT", 0)
Field(struct, n) == struct \o Op("STRUCT_AT", n)
OfArray(dst, src) == dst \o src \o Op("SLICE_FROM_AR", 0)
OfOne(dst, src) == dst \o src \o Op("SLICE_FROM_ONE", 0)
Set(dst, src) == dst \o src \o Op("ASSIGN", 0)
PushTo(dst, src) == dst \o src \o Op("ARR_PUSH", 0)
Call(f, args) == FlattenSeq(args) \o Op("CALL", f)

Out(name, ops) == [name |-> name, inner |-> FALSE, ops |-> ops]
Inn(name, ops) == [name |-> name, inner |-> TRUE, ops |-> ops]

\* In textual order.
Statements == <<
  Out("s of nums", OfArray(V(s), V(nums))),
  Out("s of pr.1", OfOne(V(s), Field(V(pr), 1))),
  Out("s of nums[1]", OfOne(V(s), At(V(nums)))),
  Out("bx.1 of nums", OfArray(Field(V(bx), 1), V(nums))),
  Out("s = bx.1", Set(V(s), Field(V(bx), 1))),
  Out("bx.1 = s", Set(Field(V(bx), 1), V(s))),
  Out("s = s", Set(V(s), V(s))),
  Out("push s to rows", PushTo(V(rows), V(s))),
  Out("rows[1] = s", Set(At(V(rows)), V(s))),
  Inn("t of i", OfOne(V(t), V(i))),
  Inn("t = s", Set(V(t), V(s))),
  Inn("t = bx.1", Set(V(t), Field(V(bx), 1))),
  Inn("t of s[1]", OfOne(V(t), Through(V(s)))),
  Inn("t of loc", OfArray(V(t), V(loc))),
  Inn("u of nums", OfArray(V(u), V(nums))),
  Inn("s of loc", OfArray(V(s), V(loc))),
  Inn("s of i", OfOne(V(s), V(i))),
  Inn("s = t", Set(V(s), V(t))),
  Inn("s of prs", OfArray(V(s), V(prs))),
  Inn("bx2 = bx", Set(V(bx2), V(bx))),
  Inn("push t to rows", PushTo(V(rows), V(t))),
  Inn("deep of rows", OfArray(V(deep), V(rows))),
  Inn("deep of caller's", OfArray(V(deep), V(1))),
  Inn("deep[1] of loc", OfArray(Through(V(deep)), V(loc))),
  Out("fill(nums, s)", Call("fill", <<V(nums), V(s)>>)),
  Out("copy(nums[1], s[1])", Call("copy", <<At(V(nums)), Through(V(s))>>)),
  Out("copy(pr.1, s[1])", Call("copy", <<Field(V(pr), 1), Through(V(s))>>)),
  Out("copy(pr, s[1])", Call("copy", <<V(pr), Through(V(s))>>)),
  Out("copy(bx.2, s[1])", Call("copy", <<Field(V(bx), 2), Through(V(s))>>)),
  Out("swap(pr, s[1])", Call("swap", <<V(pr), Through(V(s))>>)),
  Out("pack(bx, nums)", Call("pack", <<V(bx), V(nums)>>)),
  Out("copy(nums[1], rows[1][1])", Call("copy", <<At(V(nums)), Through(At(V(rows)))>>)),
  Out("swap(prs[1], prs[1].1)", Call("swap", <<At(V(prs)), Field(At(V(prs)), 1)>>)),
  Out("divide(pr.1, pr.2, s[1])",
      Call("divide", <<Field(V(pr), 1), Field(V(pr), 2), Through(V(s))>>)),
  Inn("fill(loc, t)", Call("fill", <<V(loc), V(t)>>)),
  Inn("fill(nums, t)", Call("fill", <<V(nums), V(t)>>)),
  Inn("sort(nums, u)", Call("sort", <<V(nums), V(u)>>)),
  Inn("merge(s, t)", Call("merge", <<V(s), V(t)>>)),
  Inn("look(u, nums)", Call("look", <<V(u), V(nums)>>)),
  Inn("copy(u[1], s[1])", Call("copy", <<Through(V(u)), Through(V(s))>>)),
  Inn("copy(nums[1], bx2.1[1])", Call("copy", <<At(V(nums)), Through(Field(V(bx2), 1))>>)),
  Inn("copy(t[1], u[1])", Call("copy", <<Through(V(t)), Through(V(u))>>))
>>

\* A function before it, with variables of the same types, that sets its own s.
Setter ==
  << [vars |-> Variables, ops |-> OfArray(V(s), V(nums)),
      blocks |-> <<[kind |-> "VAR", var |-> nums, body |-> 2],
                   [kind |-> "VAR", var |-> s, body |-> 3],
                   [kind |-> "BASIC", start |-> 0, len |-> 3]>>] >>
=============================================================================
