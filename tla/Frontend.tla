------------------------------ MODULE Frontend ------------------------------
(***************************************************************************)
(* The control-flow words of src/frontend.c: how a form is turned, token   *)
(* by token, into the tree IR of module Blocks.                            *)
(*                                                                         *)
(* fe is the part of struct Frontend that decides the shape of the tree:   *)
(* the function under construction (blocks, ops, vars), the scope stack,   *)
(* current_basic, scope_depth and error.  Two fields are auxiliary:        *)
(* cleanups has the cleanups of the prefix Defers whose parenthesis is     *)
(* closed, and stray_var is whether a variable was declared in a           *)
(* condition.  A token is [w, arg]: a word of the core vocabulary, "(" or  *)
(* ")", or                                                                 *)
(*   [w |-> "Var", arg |-> x]     Var, its type and its name x together    *)
(*   [w |-> "Number", arg |-> n]  a literal, named by the global it makes  *)
(*   [w |-> "Name", arg |-> x]    any other token                          *)
(*                                                                         *)
(* AfterPastTheEnd, AfterAtTheMiddle, DepthLeft, OuterDepth and LevelShort *)
(* are wrong versions of the definition that follows them: the properties  *)
(* of modules Reading and Forms must tell them apart.                      *)
(***************************************************************************)
EXTENDS Blocks

CONSTANTS
  VarType,   \* the type given to each variable that may be declared
  Natives,   \* the words bound to native functions
  Callees    \* the words bound to functions

Fresh ==
  [blocks |-> <<Basic(0, 0)>>, ops |-> <<>>, vars |-> <<>>, names |-> <<>>,
   scopes |-> <<>>, current |-> 1, depth |-> 0, error |-> "OK",
   cleanups |-> {}, stray_var |-> FALSE]

Top(fe) == Last(fe.scopes)
InScope(fe, kind, phases) ==
  /\ fe.scopes # <<>>
  /\ Top(fe).kind = kind
  /\ Top(fe).phase \in phases

\* bad_control: the interpreter stops with an error
Bad(fe) == [fe EXCEPT !.error = "BAD_CONTROL_FLOW"]

-----------------------------------------------------------------------------
(* Blocks under construction.                                              *)

\* data.basic.start = n and data.basic.len = n.  Block data is a union: on a
\* block that is no longer BASIC the same bytes are chain.cur and chain.next.
SetStart(b, n) ==
  IF b.kind = "BASIC" THEN [b EXCEPT !.start = n] ELSE [b EXCEPT !.cur = n + 1]
SetLen(b, n) ==
  IF b.kind = "BASIC" THEN [b EXCEPT !.len = n] ELSE [b EXCEPT !.next = n + 1]
StartOf(b) == IF b.kind = "BASIC" THEN b.start ELSE b.cur - 1

NewBasic(fe) == Basic(Len(fe.ops), 0)

\* Continue at block k, which from now on holds the next operations.
Resume(fe, k) ==
  [fe EXCEPT !.current = k, !.blocks[k] = SetStart(@, Len(fe.ops))]

\* wrap_current: the current block becomes MANY{what it was; middle; after}.
\* The new blocks are before, middle, its chain node, after and its chain node.
AfterPastTheEnd(fe) == Len(fe.blocks) + 6
AfterAtTheMiddle(fe) == Len(fe.blocks) + 2
MiddleOf(fe) == Len(fe.blocks) + 2
AfterOf(fe) == Len(fe.blocks) + 4
Wrap(fe, middle) ==
  LET n == Len(fe.blocks) IN
  [fe EXCEPT !.blocks =
    [fe.blocks \o <<fe.blocks[fe.current], middle, Chain(MiddleOf(fe), n + 5),
                    NewBasic(fe), Chain(AfterOf(fe), NoBlock)>>
       EXCEPT ![fe.current] = Many(n + 1, n + 3)]]

\* frontend_emit_op: the operation goes to the condition that is being read, or
\* to the current block
EmitOp(fe, op) ==
  LET grown == [fe EXCEPT !.ops = Append(@, op)] IN
  IF InScope(fe, "IF", {"CONDITION"}) THEN grown
  ELSE [grown EXCEPT !.blocks[fe.current] =
          SetLen(@, Len(grown.ops) - StartOf(@))]

-----------------------------------------------------------------------------
(* Loop, If, Start .. Finally .. End and Defer.                            *)

Scope(kind, phase, fe, first, second, implicit) ==
  [kind |-> kind, phase |-> phase, block |-> MiddleOf(fe), first |-> first,
   second |-> second, after |-> AfterOf(fe), parent_depth |-> fe.depth,
   break_depth |-> 0, continue_depth |-> 0, delimiter_depth |-> 0,
   implicit_end |-> implicit]

Open(fe, scope, current, depth) ==
  [fe EXCEPT !.scopes = Append(@, scope), !.current = current, !.depth = depth]

\* Leave the innermost scope; what follows goes to its `after' block, which is in
\* the MANY the form was wrapped in.
DepthLeft(fe) == fe.depth
DepthAfter(fe) == Top(fe).parent_depth + 1
Close(fe) ==
  [Resume([fe EXCEPT !.scopes = Front(@)], Top(fe).after) EXCEPT
     !.depth = DepthAfter(fe)]

\* The scopes a Break leaves are those deeper than the MANY around the LOOP.
OuterDepth(fe) == fe.depth
BreakDepth(fe) == fe.depth + 2
begin_loop(fe) ==
  LET body == Len(fe.blocks) + 1
      two == [fe EXCEPT !.blocks = @ \o <<NewBasic(fe), Many(body, NoBlock)>>]
      scope == Scope("LOOP", "BODY", two, body + 1, NoBlock, FALSE)
  IN Open(Wrap(two, [kind |-> "LOOP", body |-> body + 1]),
          [scope EXCEPT !.break_depth = BreakDepth(fe),
                        !.continue_depth = fe.depth + 3],
          body, fe.depth + 3)

end_loop(fe) ==
  IF fe.scopes = <<>> \/ Top(fe).kind # "LOOP" THEN Bad(fe) ELSE Close(fe)

begin_if(fe) ==
  LET yes == Len(fe.blocks) + 1
      two == [fe EXCEPT !.blocks = @ \o <<NewBasic(fe), NewBasic(fe)>>]
  IN Open(Wrap(two, [kind |-> "BRANCH", cond |-> [start |-> Len(fe.ops), len |-> 0],
                     yes |-> yes, no |-> yes + 1]),
          Scope("IF", "WAIT_OPEN", two, yes, yes + 1, FALSE),
          yes, fe.depth + 1)

begin_else(fe) ==
  IF ~InScope(fe, "IF", {"BODY"}) THEN Bad(fe)
  ELSE [Resume(fe, Top(fe).second) EXCEPT
          !.scopes[Len(fe.scopes)].phase = "ELSE_BODY",
          !.depth = Top(fe).parent_depth + 1]

end_if(fe) ==
  IF ~InScope(fe, "IF", {"BODY", "ELSE_BODY"}) THEN Bad(fe)
  ELSE Close(IF Top(fe).phase = "BODY" THEN Resume(fe, Top(fe).second) ELSE fe)

begin_epilogue(fe, implicit) ==
  LET next == Len(fe.blocks) + 1
      two == [fe EXCEPT !.blocks = @ \o <<NewBasic(fe), NewBasic(fe)>>]
  IN Open(Wrap(two, [kind |-> "DEFER", next |-> next, defer |-> next + 1]),
          Scope("EPILOGUE", IF implicit THEN "CLEANUP_WAIT_OPEN" ELSE "BODY",
                two, next, next + 1, implicit),
          IF implicit THEN next + 1 ELSE next, fe.depth + 2)

begin_cleanup(fe) ==
  IF ~InScope(fe, "EPILOGUE", {"BODY"}) \/ Top(fe).implicit_end THEN Bad(fe)
  ELSE [Resume(fe, Top(fe).second) EXCEPT
          !.scopes[Len(fe.scopes)].phase = "CLEANUP",
          !.depth = Top(fe).parent_depth + 2]

finish_epilogue(fe) ==
  IF ~InScope(fe, "EPILOGUE", {"CLEANUP"}) \/ Top(fe).implicit_end THEN Bad(fe)
  ELSE Close(fe)

\* A Defer whose cleanup has been read ends where the form around it ends.
EndsImplicitly(fe) == InScope(fe, "EPILOGUE", {"BODY"}) /\ Top(fe).implicit_end
CloseImplicit(fe) == IF EndsImplicitly(fe) THEN Close(fe) ELSE fe
finish_implicit_epilogues(fe) ==
  LET closed[n \in 0..Len(fe.scopes)] ==
        IF n = 0 THEN fe ELSE CloseImplicit(closed[n - 1])
  IN closed[Len(fe.scopes)]

\* The level of a BREAK, in the MANY that is about to wrap it, to depth target.
LevelShort(fe, target) == fe.depth + 1 - target
LevelTo(fe, target) == fe.depth + 1 - target + 1

\* Break and Continue: to the nearest loop, not out of an open cleanup.
emit_loop_exit(fe, is_continue) ==
  LET loops == {k \in DOMAIN fe.scopes : fe.scopes[k].kind = "LOOP"}
      k == CHOOSE k \in loops : \A j \in loops : j <= k
      target == IF is_continue THEN fe.scopes[k].continue_depth
                ELSE fe.scopes[k].break_depth
      wrapped == Wrap(fe, Break(LevelTo(fe, target)))
  IN IF \/ loops = {}
        \/ \E j \in (k + 1)..Len(fe.scopes) :
             fe.scopes[j].kind = "EPILOGUE" /\ fe.scopes[j].phase = "CLEANUP"
        \/ target > fe.depth + 1
     THEN Bad(fe)
     ELSE [wrapped EXCEPT !.current = AfterOf(fe), !.depth = fe.depth + 1]

\* Parentheses only matter to a scope that waits for one or is inside one.
handle_delimiter(fe, opening) ==
  IF fe.scopes = <<>> THEN fe
  ELSE
  LET s == Len(fe.scopes)
      top == Top(fe)
      phased(phase) == [fe EXCEPT !.scopes[s].phase = phase,
                                  !.scopes[s].delimiter_depth = 0]
  IN
  CASE top.phase \in {"WAIT_OPEN", "CLEANUP_WAIT_OPEN"} ->
         IF ~opening THEN Bad(fe)
         ELSE [fe EXCEPT !.scopes[s].delimiter_depth = 1,
                 !.scopes[s].phase = IF top.kind = "IF" THEN "CONDITION" ELSE "CLEANUP"]
    [] top.delimiter_depth > 1 \/ (top.delimiter_depth = 1 /\ opening) ->
         [fe EXCEPT !.scopes[s].delimiter_depth = IF opening THEN @ + 1 ELSE @ - 1]
    [] top.delimiter_depth = 1 /\ ~opening /\ top.kind = "IF" ->
         Resume([phased("BODY") EXCEPT !.blocks[top.block].cond.len =
                   Len(fe.ops) - fe.blocks[top.block].cond.start], top.first)
    [] top.delimiter_depth = 1 /\ ~opening /\ top.kind # "IF" ->
         Resume([phased("BODY") EXCEPT !.cleanups = @ \cup {top.second}], top.first)
    [] OTHER -> fe

\* frontend_declare_var: the current block becomes MANY{what it was; VAR{body}}
\* and the body takes what follows, up to where the enclosing block ends.
declare_var(fe, name) ==
  LET n == Len(fe.blocks)
      v == Len(fe.vars) + 1
  IN IF name \in ToSet(fe.names) THEN [fe EXCEPT !.error = "DUPLICATE_VAR"]
     ELSE [fe EXCEPT
       !.vars = Append(@, VarType[name]),
       !.names = Append(@, name),
       !.blocks = [fe.blocks \o <<fe.blocks[fe.current],
                     [kind |-> "VAR", var |-> v, body |-> n + 4],
                     Chain(n + 2, NoBlock), NewBasic(fe)>>
                   EXCEPT ![fe.current] = Many(n + 1, n + 3)],
       !.current = n + 4,
       !.depth = @ + 2,
       !.stray_var = @ \/ InScope(fe, "IF", {"CONDITION"})]

-----------------------------------------------------------------------------
(* The outer interpreter: one token.                                       *)

Control == {"Loop", "Again", "If", "Else", "Done", "Break", "Continue",
            "Start", "Finally", "End", "Defer"}
Closing == {"Again", "Else", "Done", "Finally", "End"}

OpWords == [Assign |-> "ASSIGN", Add |-> "ADD_ASSIGN", Sub |-> "SUB_ASSIGN",
  Mul |-> "MUL_ASSIGN", Div |-> "DIV_ASSIGN", And |-> "AND_ASSIGN",
  Or |-> "OR_ASSIGN", Xor |-> "XOR_ASSIGN", BitNot |-> "BIT_NOT_ASSIGN",
  CallNative |-> "CALL_NATIVE_ON_STACK"]

\* The core words come first where a word is looked up, so nothing is bound to them.
CoreWords == Control \cup {"Var"} \cup DOMAIN OpWords
ASSUME CoreWordsAssumption == (Natives \cup Callees) \cap CoreWords = {}

Op(kind, extra) == [kind |-> kind, extra |-> extra]

run_control(fe, w) ==
  IF fe.scopes # <<>> /\
     Top(fe).phase \in {"WAIT_OPEN", "CONDITION", "CLEANUP_WAIT_OPEN"}
  THEN Bad(fe)
  ELSE
  LET in == IF w \in Closing THEN finish_implicit_epilogues(fe) ELSE fe IN
  CASE w = "Loop" -> begin_loop(in)
    [] w = "Again" -> end_loop(in)
    [] w = "If" -> begin_if(in)
    [] w = "Else" -> begin_else(in)
    [] w = "Done" -> end_if(in)
    [] w = "Break" -> emit_loop_exit(in, FALSE)
    [] w = "Continue" -> emit_loop_exit(in, TRUE)
    [] w = "Start" -> begin_epilogue(in, FALSE)
    [] w = "Finally" -> begin_cleanup(in)
    [] w = "End" -> finish_epilogue(in)
    [] w = "Defer" -> begin_epilogue(in, TRUE)

ready_for_word(fe) ==
  fe.scopes = <<>> \/ Top(fe).phase \notin {"WAIT_OPEN", "CLEANUP_WAIT_OPEN"}

\* emit_named_var; the functions modelled declare no arguments, so every
\* variable is a local
emit_named_var(fe, name) ==
  EmitOp(fe, Op("PUSH_VAR", CHOOSE v \in DOMAIN fe.names : fe.names[v] = name))

\* One round of the interpreter loop: next_token, lookup_word, then engage_word
\* or the fallback.  After an error the interpreter has stopped.
Interpret(fe, token) ==
  LET w == token.w IN
  IF fe.error # "OK" THEN fe
  ELSE IF w \in {"(", ")"} THEN handle_delimiter(fe, w = "(")
  ELSE IF ~ready_for_word(fe) THEN Bad(fe)
  ELSE
  CASE w \in Control -> run_control(fe, w)
    [] w = "Var" -> declare_var(fe, token.arg)
    [] w \in DOMAIN OpWords -> EmitOp(fe, Op(OpWords[w], 0))
    [] w \in Natives -> EmitOp(EmitOp(fe, Op("PUSH_GLOBAL", w)),
                               Op("CALL_NATIVE_ON_STACK", 0))
    [] w \in Callees -> EmitOp(fe, Op("CALL", w))
    [] w = "Number" -> EmitOp(fe, Op("PUSH_GLOBAL", token.arg))
    [] w = "Name" /\ token.arg \in ToSet(fe.names) -> emit_named_var(fe, token.arg)
    [] OTHER -> [fe EXCEPT !.error = "UNKNOWN_WORD"]

\* frontend_compile_source after the last token: every form must be closed
FinishSource(fe) ==
  LET done == finish_implicit_epilogues(fe) IN
  IF fe.error # "OK" THEN fe
  ELSE IF done.scopes # <<>> THEN Bad(done)
  ELSE done

InterpretAll(fe, source) ==
  LET read[n \in 0..Len(source)] ==
        IF n = 0 THEN fe ELSE Interpret(read[n - 1], source[n])
  IN read[Len(source)]

frontend_compile_source(source) == FinishSource(InterpretAll(Fresh, source))
=============================================================================
