------------------------------ MODULE Compiler ------------------------------
(***************************************************************************)
(* vm_compile_no_defers (src/vm.c): from the lowered tree IR of a function *)
(* to bytecode for the machine of module VM.                               *)
(*                                                                         *)
(* A function is [blocks, ops, vars, outs, ins]: its block array, its      *)
(* operations, the type of each variable (the outputs and inputs first),   *)
(* and the number of outputs and of inputs.  A context is [types, globals, *)
(* funcs].  Besides the code, the compiler's state before each instruction *)
(* is kept: it is the certificate of module Certificate.  A pad is         *)
(* recorded there by the place of its PUSH_CRASH until its target is       *)
(* patched.  PadsKept and StorageKept are wrong versions of the definition *)
(* that follows them, for the property OutputCertified to tell apart.      *)
(* RECURSIVE operators: this module is for TLC only.                       *)
(***************************************************************************)
EXTENDS Lowering

CONSTANTS
  MaxFrame,   \* the largest frame an offset_t can hold
  MaxCode     \* the largest code position a uoffset_t can hold

-----------------------------------------------------------------------------
(* struct Compiler and the emit and state helpers.                         *)

Start(f) ==
  [code |-> <<>>, cert |-> <<>>, params |-> <<>>, scopes |-> <<>>,
   vars |-> [v \in DOMAIN f.vars |-> [base |-> 0, live |-> FALSE]],
   frame |-> 0, pads |-> <<>>]

Emit(c, i) ==
  [c EXCEPT !.code = Append(@, i),
            !.cert = Append(@, [frame |-> c.frame, height |-> Len(c.params),
                                pads |-> c.pads])]

Pop(seq, n) == SubSeq(seq, 1, Len(seq) - n)

\* emit_storage_add; CompileVar has the checks that the amount fits an offset_t
AddStorage(c, n) == [Emit(c, [op |-> "STORAGE_ADD", n |-> n]) EXCEPT !.frame = @ + n]

Save(c) == [frame |-> c.frame, depth |-> Len(c.pads), params |-> c.params,
            vars |-> c.vars]
Restore(c, s) ==
  [c EXCEPT !.frame = s.frame, !.pads = SubSeq(@, 1, s.depth),
            !.params = s.params, !.vars = s.vars]

Failed == [r |-> "FAIL"]
Result(r, c) == [r |-> r, c |-> c]

\* The next free position, which must fit the field it is patched into.
Here(c) == Len(c.code) + 1
Patchable(c) == Len(c.code) <= MaxCode
PatchTargets(c, ps) ==
  [c EXCEPT !.code = [p \in DOMAIN @ |->
     IF p \in ps THEN [@[p] EXCEPT !.target = Here(c)] ELSE @[p]]]

PushScope(c) ==
  [c EXCEPT !.scopes = Append(@,
     [patches |-> <<>>, frame |-> c.frame, depth |-> Len(c.pads)])]

\* scope_finish: every break out of the scope jumps here
FinishScope(r, c) ==
  LET patches == Last(c.scopes).patches
      closed == [c EXCEPT !.scopes = Front(@)]
  IN IF patches # <<>> /\ ~Patchable(c) THEN Failed
     ELSE Result(IF r = "REACHABLE" \/ patches # <<>> THEN "REACHABLE"
                 ELSE "UNREACHABLE",
                 PatchTargets(closed, ToSet(patches)))

-----------------------------------------------------------------------------
(* Operations: compile_op.                                                 *)

Arithmetic == {"ADD_ASSIGN", "SUB_ASSIGN", "MUL_ASSIGN", "DIV_ASSIGN",
               "AND_ASSIGN", "OR_ASSIGN", "XOR_ASSIGN"}

Rejected == [ok |-> FALSE]
Does(i, pops, pushes) == [ok |-> TRUE, i |-> i, pops |-> pops, pushes |-> pushes]
Pop1Op(faults) == Does([op |-> "POP1", faults |-> faults], 1, <<>>)

\* compile_func_call, compile_native_call: the parameters end in those of a
\* function with these outputs and inputs
EndsIn(seq, outs, ins) ==
  /\ Len(seq) >= Len(outs) + Len(ins)
  /\ SubSeq(seq, Len(seq) - Len(outs) - Len(ins) + 1, Len(seq)) = outs \o ins

\* The instruction op compiles to, with the types it takes off and puts on the
\* parameter stack; rejected when the operands on the stack do not fit.
Effect(x, c, op) ==
  LET n == Len(c.params)
      top == c.params[n]
      below == c.params[n - 1]
      type == x.ctx.types
      IsRef(t) == type[t].kind \in {"SLICE", "VIEW"}
      Needs(cond, effect) == IF cond THEN effect ELSE Rejected
  IN
  CASE op.kind = "ASSIGN" -> Needs(n >= 2 /\ top = below, Pop1Op({}))
    [] op.kind \in Arithmetic ->
         Needs(n >= 2 /\ top = "int" /\ below = "int",
           Pop1Op(IF op.kind = "DIV_ASSIGN" THEN {"DIV_BY_ZERO"} ELSE {}))
    [] op.kind = "BIT_NOT_ASSIGN" ->
         Needs(n >= 1 /\ top = "int", Does([op |-> "TOP1"], 0, <<>>))
    [] op.kind = "DROP" ->
         Needs(n >= op.extra, Does([op |-> "DROP_N", n |-> op.extra], op.extra, <<>>))
    [] op.kind = "PUSH_VAR" ->
         Needs(op.extra \in DOMAIN c.vars /\ c.vars[op.extra].live,
           Does([op |-> "PUSH_VAR", off |-> c.vars[op.extra].base - c.frame],
                0, <<x.f.vars[op.extra]>>))
    [] op.kind = "PUSH_ARG" ->
         Needs(op.extra \in DOMAIN c.vars,
           Does([op |-> "PUSH_ARG", idx |-> op.extra - 1], 0, <<x.f.vars[op.extra]>>))
    [] op.kind = "PUSH_GLOBAL" ->
         Needs(op.extra \in DOMAIN x.ctx.globals,
           Does([op |-> "PUSH_GLOBAL", null |-> x.ctx.globals[op.extra].null,
                 note |-> op.extra], 0, <<x.ctx.globals[op.extra].type>>))
    [] op.kind = "ARR_AT" ->
         Needs(n >= 2 /\ top = "int" /\ type[below].kind = "ARRAY",
           Does([op |-> "INDEX", slice |-> FALSE], 2, <<type[below].elem>>))
    [] op.kind = "ARR_PUSH" ->
         Needs(n >= 2 /\ type[below].kind = "ARRAY" /\ top = type[below].elem,
           Pop1Op({"ARRAY_CAPACITY"}))
    [] op.kind = "ARR_DROP" ->
         Needs(n >= 2 /\ top = "int" /\ type[below].kind = "ARRAY",
           Pop1Op({"ARRAY_UNDERFLOW"}))
    [] op.kind = "SLICE_FROM_AR" ->
         Needs(n >= 2 /\ type[top].kind = "ARRAY" /\ IsRef(below)
                 /\ type[below].elem = type[top].elem, Pop1Op({}))
    [] op.kind = "SLICE_FROM_ONE" ->
         Needs(n >= 2 /\ type[below].kind = "SLICE" /\ type[below].elem = top,
           Pop1Op({}))
    [] op.kind = "SLICE_AT" ->
         Needs(n >= 2 /\ top = "int" /\ IsRef(below),
           Does([op |-> "INDEX", slice |-> TRUE], 2, <<type[below].elem>>))
    [] op.kind \in {"SLICE_INC", "SLICE_DEC"} ->
         Needs(n >= 2 /\ top = "int" /\ type[below].kind = "SLICE",
           Pop1Op({"ARRAY_BOUNDS"}))
    [] op.kind = "STRUCT_AT" ->
         Needs(n >= 1 /\ type[top].kind = "STRUCT" /\ op.extra \in DOMAIN type[top].fields,
           Does([op |-> "TOP1"], 1, <<type[top].fields[op.extra]>>))
    [] op.kind = "CALL" ->
         Needs(op.extra \in DOMAIN x.ctx.funcs /\
               LET g == x.ctx.funcs[op.extra] IN g.ok /\ EndsIn(c.params, g.outs, g.ins),
           LET g == x.ctx.funcs[op.extra] IN
             Does([op |-> "CALL", callee |-> g.code,
                   argc |-> Len(g.outs) + Len(g.ins)], Len(g.ins), <<>>))
    [] op.kind = "CALL_NATIVE_ON_STACK" ->
         Needs(n >= 1 /\ type[top].kind = "NATIVE_FUNC_POINTER"
                 /\ EndsIn(Pop(c.params, 1), type[top].outs, type[top].ins),
           Does([op |-> "CALL_NATIVE", argc |-> Len(type[top].ins)],
                Len(type[top].ins) + 1, <<>>))

RECURSIVE CompileOps(_, _, _)
CompileOps(x, c, ops) ==
  LET Rest(e) ==
        IF ~e.ok THEN Failed
        ELSE CompileOps(x,
               [Emit(c, e.i) EXCEPT !.params = Pop(@, e.pops) \o e.pushes],
               Tail(ops))
  IN IF ops = <<>> THEN Result("REACHABLE", c) ELSE Rest(Effect(x, c, Head(ops)))

OpsIn(x, range) == SubSeq(x.f.ops, range.start + 1, range.start + range.len)

-----------------------------------------------------------------------------
(* Blocks.                                                                 *)

RECURSIVE CompileBlock(_, _, _)
RECURSIVE CompileChildren(_, _, _, _)

\* compile_basic: what the operations leave on the stack is dropped, and they
\* may not take more than they put there
CompileBasic(x, b, c) ==
  LET Extra(done) == Len(done.c.params) - Len(c.params)
      DropExtra(done) ==
        IF done.r = "FAIL" \/ Extra(done) < 0 THEN Failed
        ELSE IF Extra(done) = 0 THEN done
        ELSE Result("REACHABLE",
               [Emit(done.c, [op |-> "DROP_N", n |-> Extra(done)]) EXCEPT
                  !.params = c.params])
  IN DropExtra(CompileOps(x, c, OpsIn(x, b)))

\* What a jump out to scope target has to undo first: pads pushed and storage
\* added since.
PadsKept(c, target) == 0
PadsToPop(c, target) == Len(c.pads) - target.depth
StorageKept(c, target) == 0
StorageToAdd(c, target) == target.frame - c.frame

\* compile_break: leave the pads and the frame as they are at the target scope.
\* The state of the compiler does not change: what follows is unreachable.
CompileBreak(level, c) ==
  LET t == Len(c.scopes) + 1 - level
      target == c.scopes[t]
      PopPads(s, n) ==
        [s EXCEPT !.code = @ \o [k \in 1..n |-> [op |-> "POP_CRASH"]],
                  !.cert = @ \o [k \in 1..n |->
                    [frame |-> s.frame, height |-> Len(s.params),
                     pads |-> Pop(s.pads, k - 1)]],
                  !.pads = Pop(@, n)]
      Clean(s) == IF StorageToAdd(c, target) = 0 THEN s
                  ELSE AddStorage(s, StorageToAdd(c, target))
      Leave(s) ==
        [Emit(s, [op |-> "JUMP", target |-> 0]) EXCEPT
           !.frame = c.frame, !.pads = c.pads,
           !.scopes[t].patches = Append(@, Here(s))]
  IN IF level = 0 \/ level > Len(c.scopes) THEN Failed
     ELSE Result("UNREACHABLE", Leave(Clean(PopPads(c, PadsToPop(c, target)))))

CompileChildren(x, done, child, chain) ==
  LET Following(after) ==
        IF chain = NoBlock THEN after
        ELSE IF \/ chain \notin DOMAIN x.f.blocks
                \/ x.f.blocks[chain].kind # "CHAIN" THEN Failed
        ELSE CompileChildren(x, after, x.f.blocks[chain].cur, x.f.blocks[chain].next)
  IN IF child = NoBlock \/ done.r = "FAIL" THEN done
     ELSE Following(IF done.r = "UNREACHABLE" THEN done
                    ELSE CompileBlock(x, child, done.c))

CompileMany(x, b, c) ==
  LET Finish(body) == IF body.r = "FAIL" THEN Failed ELSE FinishScope(body.r, body.c)
  IN Finish(CompileChildren(x, Result("REACHABLE", PushScope(c)), b.cur, b.next))

CompileVar(x, b, c) ==
  LET size == x.ctx.types[x.f.vars[b.var]].size
      Dead(s) == [s EXCEPT !.vars[b.var].live = FALSE]
      Opened == [PushScope(c) EXCEPT !.vars[b.var] = [base |-> c.frame, live |-> TRUE]]
      Freed(body) ==
        IF body.r = "REACHABLE" THEN AddStorage(Dead(body.c), -size) ELSE body.c
      Close(closed) ==
        IF closed.r = "FAIL" THEN Failed
        ELSE Result(closed.r, [Dead(closed.c) EXCEPT !.frame = c.frame])
      Finish(body) ==
        IF body.r = "FAIL" THEN Failed ELSE Close(FinishScope(body.r, Freed(body)))
  IN
  IF b.var \notin DOMAIN x.f.vars \/ size > MaxFrame \/ c.frame + size > MaxFrame
  THEN Failed
  ELSE Finish(CompileBlock(x, b.body, AddStorage(Opened, size)))

\* `JUMP 0', to be patched, when what was compiled can be run past
JumpOver(r, c) ==
  IF r = "REACHABLE" THEN Emit(c, [op |-> "JUMP", target |-> 0]) ELSE c

\* compile_branch: the condition leaves one int, which BRANCH_TOP consumes, and
\* two arms that both go on must leave the same state.
CompileBranch(x, b, c) ==
  LET Join(yes, jump, no) ==
        IF no.r = "FAIL" THEN Failed
        ELSE IF yes.r = "UNREACHABLE" THEN no
        ELSE IF \/ ~Patchable(no.c)
                \/ no.r = "REACHABLE" /\ Save(yes.c) # Save(no.c) THEN Failed
        ELSE Result("REACHABLE", Restore(PatchTargets(no.c, {jump}), Save(yes.c)))
      No(at, yes, over) ==
        IF ~Patchable(over) THEN Failed
        ELSE Join(yes, Len(over.code),
               CompileBlock(x, b.no,
                 Restore([over EXCEPT !.code[at].no = Here(over)], Save(c))))
      AfterYes(at, yes) ==
        IF yes.r = "FAIL" THEN Failed ELSE No(at, yes, JumpOver(yes.r, yes.c))
      Yes(at, split) ==
        IF ~Patchable(split) THEN Failed
        ELSE AfterYes(at, CompileBlock(x, b.yes, split))
      Split(cond) ==
        IF \/ cond.r = "FAIL"
           \/ Len(cond.c.params) # Len(c.params) + 1
           \/ Last(cond.c.params) # "int" THEN Failed
        ELSE Yes(Here(cond.c),
               [Emit(cond.c, [op |-> "BRANCH_TOP", yes |-> Here(cond.c) + 1, no |-> 0])
                  EXCEPT !.params = c.params])
  IN Split(CompileOps(x, c, OpsIn(x, b.cond)))

\* compile_loop: the body must come back to the state at the head, and only a
\* break goes on after the loop.  The back jump is cast, not checked.
CompileLoop(x, b, c) ==
  LET head == (Len(c.code) % (MaxCode + 1)) + 1
      Again(body) == IF body.r = "REACHABLE"
                     THEN Emit(body.c, [op |-> "JUMP", target |-> head])
                     ELSE body.c
      Close(closed) ==
        IF closed.r = "FAIL" THEN Failed
        ELSE Result(closed.r, Restore(closed.c, Save(c)))
      Finish(body) ==
        IF \/ body.r = "FAIL"
           \/ body.r = "REACHABLE" /\ Save(body.c) # Save(c) THEN Failed
        ELSE Close(FinishScope("UNREACHABLE", Again(body)))
  IN Finish(CompileBlock(x, b.body, PushScope(c)))

\* compile_crash_pad: after the pad the crash goes on, so only the body does.
CompilePad(x, b, c) ==
  LET at == Here(c)
      Armed == [Emit(c, [op |-> "PUSH_CRASH", target |-> 0]) EXCEPT
                  !.pads = Append(@, at)]
      Disarmed(s) == [Emit(s, [op |-> "POP_CRASH"]) EXCEPT !.pads = Front(@)]
      Rejoin(body, jump, end) ==
        IF body.r = "UNREACHABLE" THEN Result("UNREACHABLE", end)
        ELSE IF ~Patchable(end) THEN Failed
        ELSE Result("REACHABLE",
               Restore(PatchTargets(end, {jump}), Save(Disarmed(body.c))))
      AfterPad(body, jump, pad) ==
        IF pad.r = "FAIL" THEN Failed
        ELSE Rejoin(body, jump, IF pad.r = "REACHABLE"
                                THEN Emit(pad.c, [op |-> "CRASH"]) ELSE pad.c)
      Pad(body, over) ==
        IF ~Patchable(over) THEN Failed
        ELSE AfterPad(body, Len(over.code),
               CompileBlock(x, b.pad, PatchTargets(Restore(over, Save(c)), {at})))
      AfterBody(body) ==
        IF body.r = "FAIL" THEN Failed
        ELSE Pad(body, JumpOver(body.r, IF body.r = "REACHABLE"
                                       THEN Disarmed(body.c) ELSE body.c))
  IN AfterBody(CompileBlock(x, b.body, Armed))

CompileBlock(x, idx, c) ==
  IF idx \notin DOMAIN x.f.blocks THEN Failed
  ELSE
  LET b == x.f.blocks[idx] IN
  CASE b.kind = "BASIC" -> CompileBasic(x, b, c)
    [] b.kind = "MANY" -> CompileMany(x, b, c)
    [] b.kind = "CRASH" -> Result("UNREACHABLE", Emit(c, [op |-> "CRASH"]))
    [] b.kind = "HARD_CRASH" -> Result("UNREACHABLE", Emit(c, [op |-> "HARD_CRASH"]))
    [] b.kind = "CRASH_PAD" -> CompilePad(x, b, c)
    [] b.kind = "BRANCH" -> CompileBranch(x, b, c)
    [] b.kind = "LOOP" -> CompileLoop(x, b, c)
    [] b.kind = "BREAK" -> CompileBreak(b.level, c)
    [] b.kind = "VAR" -> CompileVar(x, b, c)
    [] OTHER -> Failed              \* CHAIN, and DEFER that was not lowered

-----------------------------------------------------------------------------
(* vm_compile_no_defers.                                                   *)

\* Each pad named by where it starts, now that every target is patched; the
\* first `reached' instructions are those control can come to.
CertificateOf(c, reached) ==
  SubSeq([p \in DOMAIN c.cert |->
            [c.cert[p] EXCEPT !.pads =
               [j \in DOMAIN @ |-> c.code[@[j]].target]]], 1, reached)

vm_compile_no_defers(f, ctx) ==
  LET DropInputs(c) == IF f.ins = 0 THEN c ELSE Emit(c, [op |-> "DROP_N", n |-> f.ins])
      Return(c) == Emit([c EXCEPT !.params = <<>>], [op |-> "RET"])
      Certified(c, reached) ==
        [ok |-> TRUE, code |-> c.code,
         cert |-> CertificateOf([c EXCEPT !.cert[Len(c.cert)].height = -f.ins], reached)]
      Finish(done) ==
        Certified(Return(DropInputs(done.c)),
          IF done.r = "REACHABLE" THEN Len(Return(DropInputs(done.c)).code)
          ELSE Len(done.c.code))
      Compiled(done) == IF done.r = "FAIL" THEN [ok |-> FALSE] ELSE Finish(done)
  IN IF f.blocks = <<>> THEN [ok |-> FALSE]
     ELSE Compiled(CompileBlock([f |-> f, ctx |-> ctx], 1, Start(f)))
=============================================================================
