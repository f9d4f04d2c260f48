---------------------------- MODULE Verification ----------------------------
(***************************************************************************)
(* The type checker and the borrow checker (src/verification.c).  Both     *)
(* walk the block tree of every function with a stack of what is on the    *)
(* parameter stack (scan_funcs): type_check_first_pass checks types and    *)
(* where portals (slices, views, and what contains them) may point, and    *)
(* records which of them holds what; borrow_check then checks the          *)
(* arguments of every call.                                                *)
(*                                                                         *)
(* A context x is [types, globals, funcs]; types has what module Compiler  *)
(* needs and portal, from module Layout.  A function is [blocks, ops,      *)
(* vars, outs, ins, mut]: outs and ins are sequences of types, mut says    *)
(* which inputs are mutable.  A struct Par is [kind, idx, path], path      *)
(* being the projections from the root: 0 for an element of an array,      *)
(* slice or view (PAR_ARR_MEMBER), i for the i-th field.  A Par stands for *)
(* its own index: comp_context_intern_par, which module Interner shows to  *)
(* give each its own.  The reporters are NULL: the first error rejects.    *)
(* AnySliceFits, AnyRegion, HoldLast, KeepsWant and InputsFit are wrong    *)
(* versions of the definitions that follow them: the properties of module  *)
(* Borrow tell them apart.                                                 *)
(* RECURSIVE operators: this module is for TLC only.                       *)
(***************************************************************************)
EXTENDS Lowering

Invalid == "invalid"   \* TYPE_INVALID_ID

Local(v) == [kind |-> "LOCAL", idx |-> v, path |-> <<>>]
Arg(v) == [kind |-> "ARG", idx |-> v, path |-> <<>>]
GlobalPar(g) == [kind |-> "GLOBAL", idx |-> g, path |-> <<>>]
Project(par, step) == [par EXCEPT !.path = Append(@, step)]
Member(par) == Project(par, 0)

-----------------------------------------------------------------------------
(* par_type and what is asked of a Par.                                    *)

Valid(x, t) == t \in DOMAIN x.types

IsRef(x, t) == Valid(x, t) /\ x.types[t].kind \in {"SLICE", "VIEW"}

PartType(x, t, step) ==
  IF ~Valid(x, t) THEN Invalid
  ELSE IF step = 0
       THEN IF x.types[t].kind \in {"ARRAY", "SLICE", "VIEW"} THEN x.types[t].elem
            ELSE Invalid
  ELSE IF x.types[t].kind = "STRUCT" /\ step \in DOMAIN x.types[t].fields
       THEN x.types[t].fields[step]
  ELSE Invalid

RootType(x, f, par) ==
  IF par.kind = "GLOBAL"
  THEN IF par.idx \in DOMAIN x.globals THEN x.globals[par.idx].type ELSE Invalid
  ELSE IF par.idx \in DOMAIN f.vars THEN f.vars[par.idx] ELSE Invalid

ParType(x, f, par) ==
  FoldLeft(LAMBDA t, step : PartType(x, t, step), RootType(x, f, par), par.path)

IsPortal(x, f, par) ==
  LET t == ParType(x, f, par) IN Valid(x, t) /\ x.types[t].portal

HasType(x, f, par, t) == Valid(x, ParType(x, f, par)) /\ ParType(x, f, par) = t
IsInt(x, f, par) == HasType(x, f, par, "int")
IsArray(x, t) == Valid(x, t) /\ x.types[t].kind = "ARRAY"
IsKind(x, t, kind) == Valid(x, t) /\ x.types[t].kind = kind

RootIsLocal(par) == par.kind = "LOCAL"

\* par_scope_depth: depths are those of the variables in force at this place
ScopeDepth(f, depths, par) ==
  IF RootIsLocal(par) /\ par.idx \in DOMAIN f.vars THEN depths[par.idx] ELSE 0

-----------------------------------------------------------------------------
(* type_check_op: whether op fits what is on the stack.                    *)

Peek(pars, n) == pars[Len(pars) - n]      \* n places below the top

InputsFit(x, f, pars, base, sig) ==
  \A i \in DOMAIN sig.ins : ParType(x, f, pars[base + Len(sig.outs) + i]) = sig.ins[i]

\* type_check_sig: the outputs and then the inputs, from place `base' of the stack on
SigFits(x, f, pars, base, sig) ==
  LET want == sig.outs \o sig.ins
  IN /\ Len(pars) >= base + Len(want)
     /\ \A i \in DOMAIN want :
          Valid(x, want[i]) /\ ParType(x, f, pars[base + i]) = want[i]

\* native_sig_on_stack: the type of the function pointer on top of the stack
HasNative(x, f, pars) ==
  pars # <<>> /\ IsKind(x, ParType(x, f, Last(pars)), "NATIVE_FUNC_POINTER")
NativeSig(x, f, pars) == x.types[ParType(x, f, Last(pars))]

Arguments(sig) == Len(sig.outs) + Len(sig.ins)

NumericAssign == {"ADD_ASSIGN", "SUB_ASSIGN", "MUL_ASSIGN", "DIV_ASSIGN",
                  "AND_ASSIGN", "OR_ASSIGN", "XOR_ASSIGN"}

AnySliceFits(x, ref, arr) == IsRef(x, ref) /\ IsArray(x, arr)
SliceFits(x, ref, arr) ==
  IsRef(x, ref) /\ IsArray(x, arr) /\ x.types[arr].elem = x.types[ref].elem

\* n Pars are on the stack; top and below are the types of the last two.
OpFits(x, f, pars, op, n, top, below) ==
  CASE op.kind \in {"NULL", "DROP"} -> TRUE
    [] op.kind \in {"PUSH_VAR", "PUSH_ARG"} ->
         op.extra \in DOMAIN f.vars /\ Valid(x, f.vars[op.extra])
    [] op.kind = "PUSH_GLOBAL" ->
         op.extra \in DOMAIN x.globals /\ Valid(x, x.globals[op.extra].type)
    [] op.kind = "ASSIGN" -> n >= 2 /\ Valid(x, below) /\ below = top
    [] op.kind \in NumericAssign ->
         n >= 2 /\ Valid(x, below) /\ below = top /\ below = "int"
    [] op.kind = "BIT_NOT_ASSIGN" -> n >= 1 /\ IsInt(x, f, Peek(pars, 0))
    [] op.kind = "ARR_PUSH" -> n >= 2 /\ IsArray(x, below) /\ x.types[below].elem = top
    [] op.kind \in {"ARR_DROP", "ARR_AT"} ->
         n >= 2 /\ IsInt(x, f, Peek(pars, 0)) /\ IsArray(x, below)
    [] op.kind = "SLICE_FROM_AR" -> n >= 2 /\ SliceFits(x, below, top)
    [] op.kind = "SLICE_FROM_ONE" ->
         n >= 2 /\ IsKind(x, below, "SLICE") /\ x.types[below].elem = top
    [] op.kind \in {"SLICE_INC", "SLICE_DEC"} ->
         n >= 2 /\ IsInt(x, f, Peek(pars, 0)) /\ IsKind(x, below, "SLICE")
    [] op.kind = "SLICE_AT" -> n >= 2 /\ IsInt(x, f, Peek(pars, 0)) /\ IsRef(x, below)
    [] op.kind = "STRUCT_AT" ->
         n >= 1 /\ IsKind(x, top, "STRUCT") /\ op.extra \in DOMAIN x.types[top].fields
    [] op.kind = "CALL" ->
         op.extra \in DOMAIN x.funcs /\ n >= Arguments(x.funcs[op.extra])
           /\ SigFits(x, f, pars, n - Arguments(x.funcs[op.extra]), x.funcs[op.extra])
    [] op.kind = "CALL_NATIVE_ON_STACK" ->
         HasNative(x, f, pars) /\ n >= Arguments(NativeSig(x, f, pars)) + 1
           /\ SigFits(x, f, pars, n - Arguments(NativeSig(x, f, pars)) - 1,
                      NativeSig(x, f, pars))

-----------------------------------------------------------------------------
(* type_check_first_pass_op: regions and holds.  The state of a walk is    *)
(* [pass, why, pars, depth, depths, holds]; why is "" until it is rejected.*)
(* holds is the chains of all handles together, in the order in which they *)
(* were recorded: a handle is known by its Par, whatever the function.     *)

Reject(s, why) == [s EXCEPT !.why = why]
Going(s) == s.why = ""

\* portal_retargetable
Retargetable(x, f, par) == IsPortal(x, f, par) /\ RootIsLocal(par)

\* check_portal_region
AnyRegion(x, f, s, portal, backing) == Retargetable(x, f, portal)
RegionOK(x, f, s, portal, backing) ==
  /\ Retargetable(x, f, portal)
  /\ ScopeDepth(f, s.depths, backing) <= ScopeDepth(f, s.depths, portal)

\* handle_add_hold
HoldLast(holds, owner, held, just_const) ==
  Append(SelectSeq(holds, LAMBDA h : h.owner # owner),
         [owner |-> owner, par |-> held, just_const |-> just_const])
AddHold(holds, owner, held, just_const) ==
  LET hold == [owner |-> owner, par |-> held, just_const |-> just_const]
  IN IF hold \in ToSet(holds) THEN holds ELSE Append(holds, hold)

Hold(x, f, s, just_const) ==
  LET portal == Peek(s.pars, 1)
      backing == Peek(s.pars, 0)
  IN IF RegionOK(x, f, s, portal, backing)
     THEN [s EXCEPT !.holds = AddHold(@, portal, backing, just_const)]
     ELSE Reject(s, "PORTAL")

Records(x, f, pars, op) ==
  \/ op.kind \in {"SLICE_FROM_AR", "SLICE_FROM_ONE"}
  \/ op.kind = "ASSIGN" /\ IsPortal(x, f, Peek(pars, 1))

FirstPassOp(x, f, s, op) ==
  IF ~OpFits(x, f, s.pars, op, Len(s.pars),
             ParType(x, f, Peek(s.pars, 0)), ParType(x, f, Peek(s.pars, 1)))
  THEN Reject(s, "TYPE")
  ELSE IF Records(x, f, s.pars, op)
       THEN Hold(x, f, s, /\ op.kind = "SLICE_FROM_AR"
                          /\ IsKind(x, ParType(x, f, Peek(s.pars, 1)), "VIEW"))
  ELSE s

-----------------------------------------------------------------------------
(* borrow_check_call.  What a call has borrowed so far is [r, unique,      *)
(* shared], the lives of the handles; the others are free.  path is the    *)
(* Pars borrow_par is called for at the moment: one that is met again      *)
(* there, shared on shared, is borrowed again without end.                 *)

KeepsWant(hold, want) == want
HeldWant(hold, want) == IF hold.just_const THEN "SHARED" ELSE want

RECURSIVE BorrowPar(_, _, _, _, _, _, _)
RECURSIVE BorrowAll(_, _, _, _, _, _)

BorrowAll(x, f, holds, b, wanted, path) ==
  IF wanted = <<>> \/ b.r # "OK" THEN b
  ELSE BorrowAll(x, f, holds,
         BorrowPar(x, f, holds, b, Head(wanted).par, Head(wanted).want, path),
         Tail(wanted), path)

BorrowPar(x, f, holds, b, par, want, path) ==
  LET marked == IF want = "UNIQUE" THEN [b EXCEPT !.unique = @ \cup {par}]
                ELSE [b EXCEPT !.shared = @ \cup {par}]
      chain == SelectSeq(holds, LAMBDA h : h.owner = par)
      held == [k \in DOMAIN chain |->
                 [par |-> chain[k].par, want |-> HeldWant(chain[k], want)]]
      t == ParType(x, f, par)
      fields == IF IsKind(x, t, "STRUCT")
                THEN [i \in DOMAIN x.types[t].fields |->
                        [par |-> Project(par, i), want |-> want]]
                ELSE <<>>
  IN IF par.path # <<>> /\ Last(par.path) = 0
     THEN BorrowPar(x, f, holds, b, [par EXCEPT !.path = Front(@)], want, path)
  ELSE IF par \in b.unique \/ (par \in b.shared /\ want = "UNIQUE")
       THEN [b EXCEPT !.r = "ALIAS"]
  ELSE IF par \in path THEN [b EXCEPT !.r = "DIVERGES"]
  ELSE BorrowAll(x, f, holds, marked, held \o fields, path \cup {par})

\* borrow_check_sig: the lives are those of this call only.  A mutable input may not
\* be a portal.
BorrowArgs(x, f, holds, args, sig) ==
  LET outs == Len(sig.outs)
      Want(i) == IF i <= outs \/ sig.mut[i - outs] THEN "UNIQUE" ELSE "SHARED"
      Refused(i) == /\ i > outs /\ Want(i) = "UNIQUE"
                    /\ \/ ~Valid(x, ParType(x, f, args[i]))
                       \/ IsPortal(x, f, args[i])
      Borrow(b, i) ==
        IF b.r # "OK" THEN b
        ELSE IF Refused(i) THEN [b EXCEPT !.r = "REFUSED"]
        ELSE BorrowPar(x, f, holds, b, args[i], Want(i), {})
  IN FoldLeft(Borrow, [r |-> "OK", unique |-> {}, shared |-> {}],
              [i \in DOMAIN args |-> i])

\* The arguments of a call below what is on top of them.
ArgsBelow(pars, sig, above) ==
  SubSeq(pars, Len(pars) - above - Arguments(sig) + 1, Len(pars) - above)

Lent(s, r) == IF r = "OK" THEN s ELSE Reject(s, r)

BorrowCall(x, f, s, sig, above) ==
  IF Len(s.pars) < Arguments(sig) + above THEN Reject(s, "STACK")
  ELSE Lent(s, BorrowArgs(x, f, s.holds, ArgsBelow(s.pars, sig, above), sig).r)

BorrowOp(x, f, s, op) ==
  CASE op.kind = "CALL" ->
         IF op.extra \notin DOMAIN x.funcs THEN Reject(s, "STACK")
         ELSE BorrowCall(x, f, s, x.funcs[op.extra], 0)
    [] op.kind = "CALL_NATIVE_ON_STACK" ->
         IF ~HasNative(x, f, s.pars) THEN Reject(s, "STACK")
         ELSE BorrowCall(x, f, s, NativeSig(x, f, s.pars), 1)
    [] OTHER -> s

-----------------------------------------------------------------------------
(* The walk: scan_ops, scan_condition, scan_block, scan_funcs.             *)

Popped(pars, n) == SubSeq(pars, 1, Len(pars) - n)

\* What an operation does to the stack of Pars.
Shifted(x, f, s, op) ==
  LET n == Len(s.pars)
      Needs(enough, pars) == IF enough THEN [s EXCEPT !.pars = pars]
                             ELSE Reject(s, "STACK")
  IN
  CASE op.kind = "NULL" -> s
    [] op.kind = "PUSH_VAR" -> [s EXCEPT !.pars = Append(@, Local(op.extra))]
    [] op.kind = "PUSH_ARG" -> [s EXCEPT !.pars = Append(@, Arg(op.extra))]
    [] op.kind = "PUSH_GLOBAL" -> [s EXCEPT !.pars = Append(@, GlobalPar(op.extra))]
    [] op.kind \in NumericAssign \cup
                   {"ASSIGN", "ARR_PUSH", "ARR_DROP", "SLICE_FROM_AR", "SLICE_FROM_ONE"} ->
         Needs(n >= 2, Popped(s.pars, 1))
    [] op.kind = "BIT_NOT_ASSIGN" -> Needs(n >= 1, s.pars)
    [] op.kind = "DROP" -> Needs(n >= op.extra, Popped(s.pars, op.extra))
    [] op.kind \in {"SLICE_INC", "SLICE_DEC"} -> Needs(n >= 1, Popped(s.pars, 1))
    [] op.kind \in {"ARR_AT", "SLICE_AT"} ->
         Needs(n >= 2, Append(Popped(s.pars, 2), Member(Peek(s.pars, 1))))
    [] op.kind = "STRUCT_AT" ->
         Needs(n >= 1, Append(Popped(s.pars, 1), Project(Peek(s.pars, 0), op.extra)))
    [] op.kind = "CALL" ->
         Needs(op.extra \in DOMAIN x.funcs /\ n >= Arguments(x.funcs[op.extra]),
               Popped(s.pars, Len(x.funcs[op.extra].ins)))
    [] op.kind = "CALL_NATIVE_ON_STACK" ->
         Needs(HasNative(x, f, s.pars) /\ n >= Arguments(NativeSig(x, f, s.pars)) + 1,
               Popped(s.pars, Len(NativeSig(x, f, s.pars).ins) + 1))

\* What follows an operation, the operations of a range, a block and a condition, which
\* were begun with stack s.pars and are done.
ShiftedBy(x, f, done, op) == IF Going(done) THEN Shifted(x, f, done, op) ELSE done

NotBelow(done, s) ==
  IF Going(done) /\ Len(done.pars) < Len(s.pars) THEN Reject(done, "STACK") ELSE done

Again(done, s) == IF Going(done) THEN [done EXCEPT !.pars = s.pars] ELSE done

OneInt(x, f, done, s) ==
  IF ~Going(done) THEN done
  ELSE IF Len(done.pars) # Len(s.pars) + 1 \/ ~IsInt(x, f, Last(done.pars))
       THEN Reject(done, "CONDITION")
  ELSE Again(done, s)

ScanOp(x, f, s, op) ==
  IF ~Going(s) THEN s
  ELSE ShiftedBy(x, f, IF s.pass = "TYPES" THEN FirstPassOp(x, f, s, op)
                       ELSE BorrowOp(x, f, s, op), op)

ScanOps(x, f, s, range) ==
  IF range.start > Len(f.ops) \/ range.len > Len(f.ops) - range.start
  THEN Reject(s, "STACK")
  ELSE NotBelow(FoldLeft(LAMBDA r, op : ScanOp(x, f, r, op), s,
                         SubSeq(f.ops, range.start + 1, range.start + range.len)), s)

ScanCondition(x, f, s, range) == OneInt(x, f, ScanOps(x, f, s, range), s)

RECURSIVE ScanBlock(_, _, _, _)
RECURSIVE ScanChildren(_, _, _, _, _)

ScanChildren(x, f, s, child, chain) ==
  LET done == ScanBlock(x, f, s, child)
  IN IF child = NoBlock THEN s
     ELSE IF ~Going(done) \/ chain = NoBlock THEN done
     ELSE IF chain \notin DOMAIN f.blocks \/ f.blocks[chain].kind # "CHAIN"
          THEN Reject(done, "BLOCK")
     ELSE ScanChildren(x, f, done, f.blocks[chain].cur, f.blocks[chain].next)

DepthOf(depth) == depth + 1

\* Both parts of a DEFER, a CRASH_PAD or a BRANCH are walked with the same stack.
ScanBlock(x, f, s, idx) ==
  LET b == f.blocks[idx]
      Both(first, second) ==
        LET done == ScanBlock(x, f, first, second[1])
        IN IF Going(done) THEN ScanBlock(x, f, Again(done, s), second[2]) ELSE done
      Branch(cond) == IF Going(cond) THEN Both(cond, <<b.yes, b.no>>) ELSE cond
      Opened == [s EXCEPT !.depth = @ + 1, !.depths[b.var] = DepthOf(s.depth)]
      Closed(done) == [done EXCEPT !.depth = s.depth, !.depths = s.depths]
  IN
  IF idx \notin DOMAIN f.blocks THEN Reject(s, "BLOCK")
  ELSE
  CASE b.kind = "BASIC" -> Again(ScanOps(x, f, s, b), s)
    [] b.kind = "MANY" -> ScanChildren(x, f, s, b.cur, b.next)
    [] b.kind = "CHAIN" -> Reject(s, "BLOCK")
    [] b.kind = "DEFER" -> Both(s, <<b.next, b.defer>>)
    [] b.kind \in {"CRASH", "HARD_CRASH", "BREAK"} -> s
    [] b.kind = "CRASH_PAD" -> Both(s, <<b.body, b.pad>>)
    [] b.kind = "BRANCH" -> Branch(ScanCondition(x, f, s, b.cond))
    [] b.kind = "LOOP" -> ScanBlock(x, f, s, b.body)
    [] b.kind = "VAR" ->
         IF b.var \notin DOMAIN f.vars THEN Reject(s, "BLOCK")
         ELSE Closed(ScanBlock(x, f, Opened, b.body))

ScanFunc(x, s, f) ==
  IF ~Going(s) \/ f.blocks = <<>> THEN s
  ELSE ScanBlock(x, f, [s EXCEPT !.pars = <<>>, !.depth = 0,
                                 !.depths = [v \in DOMAIN f.vars |-> 0]], 1)

ScanFuncs(x, fs, pass, holds) ==
  FoldLeft(LAMBDA s, f : ScanFunc(x, s, f),
           [pass |-> pass, why |-> "", pars |-> <<>>, depth |-> 0,
            depths |-> <<>>, holds |-> holds], fs)

type_check_first_pass(x, fs) == ScanFuncs(x, fs, "TYPES", <<>>)

\* The second pass goes over the holds that the first one recorded.
BorrowPass(x, fs, first) ==
  IF Going(first) THEN ScanFuncs(x, fs, "BORROW", first.holds) ELSE first

borrow_check(x, fs) == BorrowPass(x, fs, type_check_first_pass(x, fs))
=============================================================================
