----------------------------- MODULE MCMachine -----------------------------
(***************************************************************************)
(* The machine on compiled bytecode.  Seven functions, given as tree IR    *)
(* and compiled by module Compiler, each calling only earlier ones: a      *)
(* function's code must exist before a call of it can be emitted, so the   *)
(* compiler has no recursive functions.                                    *)
(*   share(out, in) divides, and may crash into its caller's pad           *)
(*   work(out, in)  divides and calls share under a pad of its own, with   *)
(*                  a local array, and a slice that an argument is read    *)
(*                  through                                                *)
(*   main()         calls work from a loop inside a pad, breaks out of it, *)
(*                  and calls a native function both in the pad and after  *)
(*   down()         calls drop under a pad, drop calls floor under another *)
(*                  and floor a native function under a third              *)
(*   once()         calls a native function inside two pads, in both pads, *)
(*                  and after them                                         *)
(* vm_run is called MaxRuns times on the same VM, so that runs start on    *)
(* whatever the ones before left on the stacks.                            *)
(***************************************************************************)
EXTENDS VMSafety

C == INSTANCE Compiler WITH MaxFrame <- 100, MaxCode <- 100

Op(kind, extra) == [kind |-> kind, extra |-> extra]

Context ==
  [types |->
     [int |-> [kind |-> "INT", size |-> 1],
      list |-> [kind |-> "ARRAY", size |-> 2, elem |-> "int"],
      slice |-> [kind |-> "SLICE", size |-> 1, elem |-> "int"],
      native |-> [kind |-> "NATIVE_FUNC_POINTER", size |-> 1, outs |-> <<>>,
                  ins |-> <<"int">>]],
   globals |-> [one |-> [type |-> "int", null |-> FALSE],
                print |-> [type |-> "native", null |-> FALSE]],
   funcs |->
     [share |-> [outs |-> <<"int">>, ins |-> <<"int">>, ok |-> TRUE, code |-> "share"],
      work |-> [outs |-> <<"int">>, ins |-> <<"int">>, ok |-> TRUE, code |-> "work"],
      drop |-> [outs |-> <<>>, ins |-> <<>>, ok |-> TRUE, code |-> "drop"],
      floor |-> [outs |-> <<>>, ins |-> <<>>, ok |-> TRUE, code |-> "floor"]]]

\* out /= in
Share ==
  [vars |-> <<"int", "int">>, outs |-> 1, ins |-> 1,
   ops |-> << Op("PUSH_ARG", 1), Op("PUSH_ARG", 2), Op("DIV_ASSIGN", 0) >>,
   blocks |-> << C!Basic(0, 3) >>]

\* VAR list { VAR slice { ARR_PUSH;
\*   PAD { out /= in; IF in { slice = list; share(out, slice[in]) } }
\*   pad { list[in] = 1 } } }
Work ==
  [vars |-> <<"int", "int", "list", "slice">>, outs |-> 1, ins |-> 1,
   ops |-> << Op("PUSH_VAR", 3), Op("PUSH_ARG", 2), Op("ARR_PUSH", 0),
              Op("PUSH_ARG", 1), Op("PUSH_ARG", 2), Op("DIV_ASSIGN", 0),
              Op("PUSH_VAR", 3), Op("PUSH_ARG", 2), Op("ARR_AT", 0),
              Op("PUSH_GLOBAL", "one"), Op("ASSIGN", 0),
              Op("PUSH_VAR", 4), Op("PUSH_VAR", 3), Op("SLICE_FROM_AR", 0),
              Op("PUSH_ARG", 1), Op("PUSH_VAR", 4), Op("PUSH_ARG", 2),
              Op("SLICE_AT", 0), Op("CALL", "share") >>,
   blocks |-> << [kind |-> "VAR", var |-> 3, body |-> 13], C!Many(3, 4),
                 C!Basic(0, 3), C!Chain(5, 0),
                 [kind |-> "CRASH_PAD", body |-> 6, pad |-> 7],
                 C!Many(8, 9), C!Basic(6, 5), C!Basic(3, 3), C!Chain(10, 0),
                 [kind |-> "BRANCH", cond |-> [start |-> 16, len |-> 1],
                  yes |-> 11, no |-> 12],
                 C!Basic(11, 8), C!Basic(0, 0),
                 [kind |-> "VAR", var |-> 4, body |-> 2] >>]

\* VAR int { PAD { LOOP { IF var { BREAK } ELSE { work(var, one) } } ; print }
\*           pad { print } }
Main ==
  [vars |-> <<"int">>, outs |-> 0, ins |-> 0,
   ops |-> << Op("PUSH_VAR", 1), Op("PUSH_VAR", 1), Op("PUSH_GLOBAL", "one"),
              Op("CALL", "work"), Op("BIT_NOT_ASSIGN", 0), Op("PUSH_VAR", 1),
              Op("PUSH_GLOBAL", "print"), Op("CALL_NATIVE_ON_STACK", 0) >>,
   blocks |-> << [kind |-> "VAR", var |-> 1, body |-> 2],
                 [kind |-> "CRASH_PAD", body |-> 3, pad |-> 9],
                 C!Many(4, 8),
                 [kind |-> "LOOP", body |-> 5],
                 [kind |-> "BRANCH", cond |-> [start |-> 0, len |-> 1],
                  yes |-> 6, no |-> 7],
                 C!Break(1), C!Basic(1, 4), C!Chain(9, 0), C!Basic(5, 3) >>]

\* PAD { call } pad { IF one { HARD_CRASH } ELSE { BREAK } }
Under(call) ==
  [vars |-> <<>>, outs |-> 0, ins |-> 0,
   ops |-> call \o << Op("PUSH_GLOBAL", "one") >>,
   blocks |-> << C!Many(2, 0),
                 [kind |-> "CRASH_PAD", body |-> 3, pad |-> 4],
                 C!Basic(0, Len(call)),
                 [kind |-> "BRANCH", cond |-> [start |-> Len(call), len |-> 1],
                  yes |-> 5, no |-> 6],
                 [kind |-> "HARD_CRASH"], C!Break(1) >>]

Floor == Under(<< Op("PUSH_GLOBAL", "one"), Op("PUSH_GLOBAL", "print"),
                  Op("CALL_NATIVE_ON_STACK", 0) >>)
Drop == Under(<< Op("CALL", "floor") >>)
Down == Under(<< Op("CALL", "drop") >>)

\* PAD { PAD { print } pad { print } } pad { print } ; print
Once ==
  [vars |-> <<>>, outs |-> 0, ins |-> 0,
   ops |-> << Op("PUSH_GLOBAL", "one"), Op("PUSH_GLOBAL", "print"),
              Op("CALL_NATIVE_ON_STACK", 0) >>,
   blocks |-> << C!Many(2, 3),
                 [kind |-> "CRASH_PAD", body |-> 4, pad |-> 5],
                 C!Chain(5, 0),
                 [kind |-> "CRASH_PAD", body |-> 5, pad |-> 5],
                 C!Basic(0, 3) >>]

IR == [share |-> Share, work |-> Work, main |-> Main, floor |-> Floor, drop |-> Drop,
       down |-> Down, once |-> Once]

\* TLC computes Output once; what a cfg substitutes it would compute each time.
Output == [f \in DOMAIN IR |-> C!vm_compile_no_defers(IR[f], Context)] @@ <<>>
Codes == [f \in DOMAIN IR |-> Output[f].code] @@ <<>>
Certs == [f \in DOMAIN IR |-> Output[f].cert] @@ <<>>

MCFunc == DOMAIN IR
MCCode == Codes
MCCert == Certs
MCArgs == [f \in MCFunc |-> IF f \in {"share", "work"} THEN 2 ELSE 0]
MCIns == [f \in MCFunc |-> IF f \in {"share", "work"} THEN 1 ELSE 0]
MCResults == {"OK", "CRASH", "HARD_CRASH", "NULL_NATIVE_FUNC"}
=============================================================================
