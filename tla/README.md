# PL-stuff: verification project

TLA+ models of the language implementation in `src/`: a source form is read
token by token into a tree of blocks, its defers are lowered, the tree is
compiled to bytecode, and the bytecode is run on a machine with three stacks.
Beside this pipeline stand the checkers of `verification.c`, the layout of types and
the session of the REPL. The models are checked with TLC on small instances; the
safety of the frontend, of the machine and of the pointers on its stack, of the array
instructions, of the tables of the checkers, of the layout of types and of the session
is also proved with TLAPS for every value of the constants.

The central question is one that no single file of the source answers: *does a
crash, a break or a return, at any point and in any nesting, leave the stacks
exactly as the compiler computed them, and do the cleanups run that the source
promises?*

## 1. The system

| Component | State | Operations | Interacts with |
|---|---|---|---|
| Frontend (`frontend.c`, `frontend.h`) | function under construction (`blocks`, `ops`, `vars`), scope stack, `current_basic`, `scope_depth`, error | one handler per control word, parentheses, `Var`, literals, names, immediate functions | appends to the block array of the IR; runs its own interpreter and immediate functions on VMs |
| Outer interpreter (`compile_interpreter`, `frontend.c`) | none of its own | `next_token`, `lookup_word`, `engage_word` as native functions called from compiled IR | is itself bytecode, run by the machine |
| Tree IR and defer lowering (`ir.c`, `ir.h`) | block array, stack of epilogues | `remove_defers` | reads what the frontend built, feeds the compiler |
| Type layout (`ir.c`) | marks and layouts in the type table | `type_layout_all`: sizes, alignments, offsets, which types are portals | used by the compiler and the checkers |
| Bytecode compiler (`vm.c`, first half) | `struct Compiler`: code, frame size, parameter types, liveness of variables, scopes, crash depth | one `compile_` function per kind of block, `compile_op`, patches | feeds the machine; what it tracks at compile time the machine takes on trust |
| Bytecode machine (`vm.c`, second half; `vm.h`) | `storage` (locals and return frames interleaved), `param_stack`, `crash_stack`; registers of `vm_run` | one case per instruction, calls, returns, the loop at label `crash` | native functions; callers reuse one VM for many runs |
| REPL (`repl.c`) | session: VM, functions, global table, code slots, the form being written | one loop over lines; `run_anonymous`, `define_named` | drives all of the above |
| Type checker and borrow checker (`verification.c`) | stack of projections, handles, one array with the holds of all handles | `type_check_first_pass`, `borrow_check` | walk the same trees as the compiler; only tests call them yet |
| Projection table (`verification.c`) | open-addressing hash table, handles | intern a projection, reset | used by both checkers |
| Writer (`io.h`) | buffer | formatting | none |

Everything runs in one thread. What is hard is not concurrency but **nesting and
failure**: a crash may happen at nearly any instruction (a division, a bound, a
native function, any `realloc`), at any depth of calls, inside a protected
region or inside a cleanup; a VM outlives a failed run; a break crosses regions,
branches, loops and variables in any mix; and the frontend builds the tree
while keeping indices of blocks whose meaning later words change.
`PROJECT.json` lists these hazards line by line, with the properties about each.

What makes each part correct:

* *Frontend*: the blocks stay a tree; operations go where the text puts them; a
  `Break` or `Continue` has the level of its loop; what is accepted compiles.
* *Lowering*: a form does what its source means; every region that is entered is
  cleaned up once, innermost first, before the form is left.
* *Compiler*: the static state it computes before each instruction is consistent
  along every path, jumps to pads included.
* *Machine*: at every moment the stacks are the ones the compiler computed, so
  that the run-time checks never fail and what is not checked is never undefined;
  an element pointer never leaves its array.
* *Layout*: recursive types are refused, whatever their order; parts fit, portals are marked.
* *Checkers*: in an accepted function no slice outlives what it points at, and no
  unique argument of a call overlaps another argument, in whatever order its
  statements run; what is rejected is rejected for a reason; what is accepted compiles.
* *Projection table*: an index means one projection, no search hangs, a handle's holds
  are its own.
* *REPL*: a session is a dictionary that only grows, and no code points to freed literals.

## 2. Modules

| Module | Models | Kind |
|---|---|---|
| `VM` | `vm_run`, `vm_set_crash_frame`, storage and stack helpers | state machine, an action per instruction |
| `Certificate` | the contract between compiler and machine | operators |
| `VMSafety` | the inductive invariant and the safety properties of the machine on certified code | extends `VM` and `Certificate` |
| `VMSafety_proofs`, `VMPointers_proofs` | proofs: control; pointers | the second extends the first, which extends `VMSafety` |
| `Blocks` | the block array, its edges, what is around a block | operators |
| `Lowering` | `remove_defers` | recursive operators |
| `Compiler` | `vm_compile_no_defers` | recursive operators |
| `Frontend` | control words, parentheses, `Var`, names, the interpreter's round | operators on the frontend's state |
| `Reading` | `frontend_compile_source`: a form being read | state machine over `Frontend` |
| `Reading_proofs` | proofs | extends `Reading` and `Numbers_proofs` |
| `Pipeline` | read, lower, compile, as `run_anonymous` does | composition |
| `Forms` | a form being read and compiled | state machine, extends `Reading` and `Pipeline` |
| `Language` | the meaning of a form, from what the code's README documents | abstract specification |
| `Promise` | the cleanup promise | abstract state machine |
| `Execution` | a compiled form on the machine, with its events | composes `VM`, `Language`; refines `Promise` |
| `Arrays` | the array and slice instructions, with the width of lengths | state machine |
| `BoundedSeq` | bounded sequences with assignment | abstract state machine |
| `Arrays_proofs` | proofs | extends `Arrays` |
| `Layout`, `TypeTables` | `type_layout_all` as a walk in steps; all small type tables | recursive functions; state machine |
| `TypeTables_proofs`, `Numbers_proofs` | proofs: the walk; induction and the least number of a set | the first extends both `TypeTables` and the second |
| `Verification` | both checkers: what they accept and why they reject | recursive operators |
| `Borrow` | a function being written, verified and run | state machine over `Verification` |
| `Statements` | types, variables and statements for `Borrow` | constants |
| `ParTable` | `ParIdxTable`, growing one slot a step | state machine |
| `PartialMap` | a partial map | abstract state machine |
| `Interner` | `comp_context_intern_par` and reset on top of the table | extends `ParTable` |
| `Holds`, `HoldLists` | `handle_add_hold`; a list for each owner | state machine; abstract one |
| `Context` | the `CompileContext` of the checkers | composes `Interner` and `Holds` |
| `Context_proofs` | proofs: the table, the interner, the holds and their composition | extends `Context` |
| `Session` | lines, forms, functions, globals and code slots of the REPL | state machine; the compiler and the machine are constants |
| `SessionCode` | what the compiler and the machine do with the forms of a session | recursive operators |
| `Session_proofs` | proofs | extends `Session` |
| `Dictionary` | what a session promises | abstract state machine |
| `Documents` | examples of what the README says, judged by the modules above | walks a list |
| `MCMachine`, `MCRaw`, `MCForms`, `MCExecution`, `MCArrays`, `MCBorrow`, `MCContext`, `MCSession` | instances for TLC | |

How they compose:

```
Blocks <- Frontend, Lowering        EXTENDS
Frontend <- Reading <- Reading_proofs   EXTENDS
Lowering <- Compiler                EXTENDS
Frontend, Compiler <- Pipeline      EXTENDS
Reading, Pipeline, Certificate <- Forms   EXTENDS: what is read, lowered, compiled, and its contract
VM, Certificate <- VMSafety <- VMSafety_proofs <- VMPointers_proofs
VM, Language <- Execution           EXTENDS; INSTANCE Promise WITH a refinement mapping
Pipeline <- MCExecution             INSTANCE: the code Execution runs is compiled from source
Compiler <- MCMachine               INSTANCE: the code VMSafety is checked on is compiled from IR
Lowering <- Verification <- Borrow  EXTENDS: the checkers walk the trees that are lowered
Layout <- Statements <- MCBorrow    INSTANCE: which types are portals is what Layout computes
Compiler <- MCBorrow                INSTANCE: what the checkers accept is compiled
ParTable <- Interner, Holds <- Context   EXTENDS; PartialMap and HoldLists are refined
Session, SessionCode <- MCSession   EXTENDS: the runs compile and run with SessionCode
Arrays -> BoundedSeq, Session -> Dictionary   INSTANCE WITH a refinement mapping
Forms, TypeTables, Borrow, Arrays, Session <- Documents   INSTANCE with an example's values
```

### Correspondence

**VM.** The variables are the fields of `VM` and the locals of `vm_run`. Storage
is its length and the return frames that lie in it with their positions: locals
carry no data. A pointer on `param_stack` is the storage cell it points at, or
`Foreign`. What a slice in a local refers to is data too, so the pointer that
`B_PUSH_SLICE_AT` reads out of one (vm.c:1226-1232) may be any (`SliceTargets`), into a
variable that is gone included; with the constant `SlicesLive` it is one into a
variable that exists, a premise about programs that is used for `LivePointers` only.
A code position is an index into a sequence of instructions.
Instructions that treat the stacks alike share an action (`Pop1`: copy,
arithmetic, array and slice updates; `Index`; `Top1`); their operands may pass or
fail their check. Each `goto crash` is a step to mode `crash`, each iteration of
the loop at that label a step (`Uncaught`, `DropBadFrame`, `EnterPad`). Growing a
stack may fail wherever the code calls `realloc`. `ResetStacks` is what
`frontend_compile_source` does around its runs; the REPL does not do it.
Auxiliary fields (`fn`, `low`, `crash`, `owner`, `saved`) only record; no guard
reads them.

**Certificate.** `c[p] = [frame, height, pads]` is `frame_size`, `params.len` and
the pads behind `crash_depth` of `struct Compiler` before instruction `p`.
`CodeOK` says that it is consistent: one clause per instruction, plus the rule
that a pad is entered with no parameter of the function's own, at a frame no larger
than where it is in force, under the pads that were below it.

**Compiler.** One operator per `compile_` function, on a record that is `struct
Compiler`; rejection is `Failed`. Besides the code it keeps its state before each
instruction, which is the certificate. `reach` is kept as the result's `r`. Failed
`malloc`s, which fail the compilation as a whole, are left out.

**Blocks.** `struct Block` and its union, one record per kind. `Around`, the blocks a
block is in, is found by climbing from child to parent as often as there are blocks;
`Depth` and `LoopsAround` are taken from it, by no counter of the frontend's.

**Lowering.** `remove_defers` slot by slot, in the order in which it appends: the
index arithmetic is what could be wrong, and what the break levels depend on.

**Frontend.** `fe` is the part of `struct Frontend` that decides the shape of the
tree. `wrap_current`'s five blocks, the union of `BlockData` (a write of
`basic.start` to a block that is now a `MANY` changes its first child: `SetStart`)
and every phase of the scopes are kept. Tokens are words of the vocabulary or the
class of the word; text, types in declarations and immediate functions are left out.
What the interpreter does with several tokens is a function (`InterpretAll`), so that it can be
reasoned about; so are the closings of implicit scopes. `CoreWordsAssumption` says that no
native or function is found under a core word: these are added first, and
`find_word` returns the first match (frontend.c:163, repl.c:131).

**Reading, Forms.** A step of `Reading` reads one phrase, a sequence of tokens, or ends
the source. A step of `Forms` is a step of `Reading`, and at the end also what
`run_anonymous` does next: `vm_compile_no_defers` of what was lowered. So whatever is
proved of `Reading!Spec` holds of `FormSpec`.

**Execution.** A machine step that pushes a named literal is an event. A form is
written as a statement of `Language`, turned into tokens by `Source`, compiled by
`Pipeline` and run by `VM`; its events are compared with `Meaning`.

**Arrays.** What `VM` leaves open, the contents: an address is an array and a place in
it, `count` is the cast to `count_t`. Every instruction either does its work or
crashes; after a crash any instruction may follow, because `VM` says which ones do.
`ahead` of a slice records by how much more it was advanced than shortened.

**Layout.** `type_layout_one` with its marks (`PENDING`, `ACTIVE`, `DONE`) as the state
of a walk: `todo` lists the types whose calls have not returned, each turn visits the
first one, and `type_layout_all` is the state after `MostSteps` turns, by which every
call has returned (proved, not assumed). `payload_size`, `align`, `size`, offsets and the portal flag are kept as numbers.

**Verification.** A `Par` is a record of its root and its path. `scan_block`,
`scan_ops` and the operations follow the source one operator each; the scanner's
state is a record that remembers why it stopped. The reporters are `NULL`, as
`borrow_check` passes for the first pass, so the first error rejects. A
`borrow_par` that would recur without end gives the verdict `"DIVERGES"`.

**Borrow.** The function is written statement by statement over the vocabulary of
`Statements`, which is what `MaxStatements` bounds. Its tree puts the statements of
each scope in a loop of branches, so that an accepted function runs them in any
order, while the checkers see them once, in textual order. Of the run only the
targets of slices and views are kept.

**ParTable, Interner, Holds, Context.** `slots` is `keys`, `vals` and `used`. A put is
one step, unless it must grow the table: then each turn of the loop of
`par_idx_table_grow` is a step, so that the properties speak of the half-moved table
too. `old`, `cursor` and `pending` are the locals of the two functions. A hold is the
index of what is held; `just_const` is left to `Verification`. `Context` lets interning
and adding holds alternate as the checkers do, with the resets of both.

**Session.** `ctx` is `repl->ctx`: `funcs` with their operations and the globals their
frontend owns, `globals` with the value their memory holds or `NULL`, `code` with the
slots `compile_context_func_code` fills. Compiled code points to the memory of a
global, so running it after `frontend_free` is seen. `finish_form` is one step, as in
the code. Words other than literals, `Print` and function names are the business of
`Forms`. The compiler and the machine are the constants `Compile` and `Run`, whose
values in the runs are the operators of `SessionCode`; the proofs hold for any. `calls` is auxiliary: what each function would print now.

**Documents.** Each example is a constant of another module's operator: a form for
`Forms`, a table for `TypeTables`, statements for `Borrow`, numbers for `Arrays`, a
definition for `Session`. The properties it is judged by are the ones the passing runs
check, or ones no code satisfies for all inputs (`ElementsAligned`, `OnlyOthersConflict`,
`AnalysisIsLocal`).

## 3. Runs

| Run | Question | Result |
|---|---|---|
| `machine` | do the stacks of the machine always match what the compiler computed? | holds |
| `raw` | on bytecode nobody checked: does unwinding end, only shrink the stacks, and report the first error when no pad ends the run? | holds |
| `forms` | is the tree a tree, do breaks reach their loop, does what is accepted compile if its variables are alive where they are named, is what is compiled certified? | holds |
| `execution` | do forms do what they mean, and is the cleanup promise implemented? | holds |
| `execution_cleanups` | is each region cleaned up as often as it is entered, also by a break across three branches and by a cleanup that crashes? | **violated** |
| `arrays` | are arrays sequences, and do element pointers stay inside them? | holds |
| `context` | is the table a partial map, an index one projection, each handle's holds a list of its own? | holds |
| `layout` | are exactly the recursive tables refused, and do parts fit? | holds |
| `borrow` | is what the checkers accept safe to run, and what they reject in conflict? | holds |
| `session` | is a session a dictionary, and is each literal's memory kept just as long as it is needed? | holds |
| `documents` | does the code do what the README says, in 22 examples? | **violated**, by 18 |

Each violated run shows disagreements between the code and what its documents say, on
inputs the passing runs leave out for that reason. `execution_cleanups` (one trace
shows both):

* `remove_defers` counts a break's levels on a stack with an entry for *every*
  block, branches included (ir.c:263). Crossing three `If`s loses the cleanup.
* A break's copy of a cleanup is placed inside the region's own pad (ir.c:273), so
  a cleanup that crashes there starts again.

`documents`, whose last state lists what was contradicted; the other four examples
resemble contradicted ones and are kept, so that a judge that always says no is noticed:

* The `)` of a prefix `Defer` does not restore `scope_depth` (frontend.c:661), so a
  loop in the cleanup misdirects a later `Break`.
* `Var` is accepted while a condition is being read (frontend.c:796), and the `)`
  then overwrites a link of the tree.
* A variable declared in an arm can be named after the branch, and one declared in the
  body of a `Start` in its `Finally`, but is not alive there (frontend.c:690): two
  examples. The variable's mere declaration can make the two arms
  "differ", because the base of a dead variable is compared (vm.c:263).
* The back jump of a loop is not checked to fit (vm.c:773).
* An index that does not fit `count_t` is checked as another one (vm.c:1076).
* The elements of an array of slices are not aligned (ir.c:74): 12 bytes apart, to be
  aligned to 8.
* What a slice in an array element holds is recorded for the element and never
  followed (verification.c:781); what a copied struct's fields hold is not recorded
  (728); a field of an element does not borrow the array (781); an output that is
  reached through a view is borrowed as shared (797).
* A slice pushed into an array of an outer scope is not checked (657); a slice of
  the caller's can be retargeted through a local slice of slices (156).
* A slice that holds itself makes `borrow_par` recur without end (795); one that holds
  something by two ways conflicts with itself (784); holds are kept from one function
  to the next (594).
* A function may be named like a core word, is reported as defined and never found
  (frontend.c:164).

### Bounds, and why they are enough

* `machine`: seven compiled functions, each calling only earlier ones as the compiler
  allows: pads nest in pads and across calls, breaks leave pads, natives are called in
  bodies and in pads, and locals lie between return frames. `MaxStorage` 12 is one run of any
  entry and part of a second run on what the first one left; any `realloc` may fail.
  One of the functions has a slice of its array, indexes it and passes the element on;
  `SlicesLive` is `TRUE` (with `FALSE`, `LivePointers` fails and all else holds).
  Three runs on one VM: the third starts on what was left on top of what was left.
  `BRANCH` and `DONE`, which the compiler never emits, are exercised by `raw`.
* `raw`: all programs of two instructions, with operands that the checks of their
  instructions refuse (not that of `RET`, nor failed allocations, nor null natives, nor
  bytes that are no instruction); slices may refer to anything; and all programs of four that install pads, crash and shrink the
  stacks under them. Four is the least for two pads, a shrink and a crash. Jumps are
  forward: a program with a backward jump need not end.
* `forms`: three vocabularies, chosen in the initial state. Eight phrases are a loop
  around a region around a branch with an exit in it and something left over; or a
  loop with a defer and a variable that is declared, used and left by a break; or the
  same with a region that the variable is declared before, in or after, and named in its
  body and its cleanup.
  A form that has more open scopes than phrases left is cut off (`Read`). `InPlace`,
  `BreaksReachTheirLoop` and `AcceptedFormsCompile` have the premise `PlainCleanups`, the
  last also `OuterVars` and `UsedWhereAlive` (a variable is only named in the block that
  declares it): without them they do not hold, as `documents` shows.
* `execution`: families of forms (`MCExecution`), each a way into and out of
  regions: two nested regions, in and around loops and branches, called regions,
  cleanups that crash or loop. Runs of at most nine events: two turns of the loop
  with two regions and the end. `Meaning` and the machine share that bound.
* `arrays`: two arrays of two elements (so that a copy has a source), one slice, a
  `count_t` of two bits, numbers from -1 to 3 and slices advanced by up to three.
* `context`: five projections, three with the same hash, one that runs into their
  places and one whose places wrap around the end; first arrays of two places, so that
  the table grows three times (2, 4, 8); five indices, holds of two handles on three,
  an array of five holds: rows are moved twice.
* `layout`: every table of up to five types, three of them the user's, which may name
  each other in any direction; structs of up to two fields. A cycle of three is the
  longest that a mark could miss in a way that one of two does not show.
* `borrow`: 29 statements over thirteen variables in two scopes, at most four in one
  function: two to make a chain of slices, one to hand it on, one call.
* `session`: three names for two functions, two literals, forms of three words. The
  limits of both tables are reached; a function calls one that calls another.
* `documents`: one example each; nothing depends on a bound.
* `CHECK_DEADLOCK FALSE` everywhere: a form ends, runs and tables are bounded in number.

### Fairness

`raw` checks `Terminates` under `WF_vars(Machine)`: `vm_run` is a plain loop in one
thread that fetches the next instruction until it returns, so while it is active it
steps. `context` checks `GrowthEnds` under weak fairness of `Growing`, the loop inside
`par_idx_table_put`: nothing interrupts it either. Nothing is assumed of the callers
(`VmRun`, `ResetStacks`, `Intern`, the resets).

## 4. Proofs

Everything here is proved for every value of the constants that satisfies the
assumptions. The machine, in `VMSafety_proofs` and `VMPointers_proofs`:

| Theorem | States |
|---|---|
| `ControlSafe` | `Spec => []ControlInv`, the inductive invariant |
| `TypeSafe` | `Spec => []TypeOK` |
| `ChecksNeverFail` | `Spec => []NoDefects`: no run-time check of the stacks ever fails |
| `NeverUndefined` | `Spec => []Defined`: nothing that is not checked goes wrong |
| `ReturnsBalanced` | `Spec => BalancedReturns`: the calling convention |
| `PointersSafe` | `Spec => []PointersInv`, the inductive invariant of the pointers |
| `PointersLive` | `SlicesLive => (Spec => []LivePointers)`: the machine lets no pointer outlive what it points at |
| `PadsFindTheirParams` | `Spec => []PadsSeeTheirParams`: a pad finds the parameters of its region |
| `CertifiedUnwinding` | `Spec => UnwindTruncates`: unwinding only shortens the stacks |
| `UnwindingTruncates` | `Spec /\ []Decoded => UnwindTruncates`, without any certificate |
| `ErrorsStick` | `Spec /\ []Decoded => FirstErrorWins`, without any certificate |
| `CertifiedErrors` | `Spec => FirstErrorWins`: a run that no pad ends reports its first error |

The other proof modules:

| Theorem | States |
|---|---|
| `TableSafe`, `TableTyped` | the invariant of the table, also while it grows |
| `SearchesAlwaysEnd`, `GetsWhatWasPut` | every search ends; what was put is found |
| `TableIsMap` | `Spec => ImplementsMap`: the table refines `PartialMap` |
| `InternerSafe`, `IndicesAreUnique` | the invariant of interning; `InternSpec => []IndexedOnce` |
| `InternerUsesTable` | `InternSpec => Spec` of the table |
| `RowsStayInside`, `HoldsAreLists` | the rows are inside the array; it refines `HoldLists` |
| `ContextInterns`, `ContextHolds` | the composition implements the interner and the holds |
| `ContextSafe`, `HoldsHaveHandles`, `ContextImplements` | so all their invariants hold in it, every hold is of a handle there is, and both refinements |
| `SessionSafe` | the invariant of a session, for any compiler and machine |
| `ReadingInvariant` | the invariant of the frontend while a form is read |
| `ReadingTypeCorrect` | `Spec => []TypeOK`: the blocks the frontend goes on with exist |
| `TreeStaysTree` | `Spec => []TreeShaped`: the blocks are a tree after every phrase |
| `WritesInPlace` | `Spec => []InPlace`: what comes next goes to an open range, at the depth that is counted |
| `BreaksReach` | `Spec => BreaksReachTheirLoop`: the levels of breaks are right in any nesting |
| `LiteralsHaveOwners` | `Spec => []LiteralsOwned`: a literal's memory has one owner until it is freed |
| `NamesAreUnique`, `FunctionsStay` | no two functions have one name; none ever changes |
| `RecursionRefused` | `Spec => []RefusesRecursion`: the recursive tables are refused, and no others |
| `LayoutsKeepParts`, `PortalsFound` | `PartsFit` and `PortalsMarked`, likewise, for tables of any length |
| `ArraysSafe`, `ArraysTyped`, `SlicesStayInside`, `ElementsStayInside` | the invariant of the array instructions and its parts |
| `ArraysAreSequences`, `ArraysExact` | they refine `BoundedSeq`; each does what was asked or crashes because it cannot |

**Assumptions of the machine.** `CertifiedAssumption`: every function has a certificate, and
`vm_run` is started on functions without arguments, as the REPL does. The run
`forms` (`OutputCertified`) and `MCMachine` check that the compiler's own state is such
a certificate. `NativeAssumption`: a native function does not return one of the
codes by which the VM reports its own stacks wrong. The others give constants their
types. The number of functions, their code, the depth of recursion, the limit
of storage, the number of runs and which allocations fail are arbitrary.

**Argument for the machine.** The safety properties are not inductive: a return is safe because of
what its caller left below, a pad because of what was on the stacks when it was
installed, calls ago. `ControlInv` therefore describes *every* activation on the
stack, not only the running one:

* `Running`: the registers and the stacks match the certificate's state at `pc`;
* `Suspended`: each return frame resumes the activation below in the state its
  certificate gives after the call;
* `Pads`: each crash frame restores its owner's activation to the state of its pad,
  below everything of the activations above it;
* `Stacked`: activations do not reach into each other.

The proof has a lemma per instruction. Those that only change the running
activation go through `OneStep`. Those that crash or stop go through `StopsClean`
(stacks untouched) and `StopsPopped` (parameters popped before the crash, which may
not go below what a pad wants). `CallKeeps`, `RetKeeps`, `EnterPadKeeps`, `VmRunKeeps` and
`StorageAddKeeps` re-establish the invariant across activations. `ControlInv` also
says nothing of `crash` mode except that every pad still fits: `NoBadFrame` then
shows `DropBadFrame` never happens. `NoDefects` needs a strengthening, that in mode
`crash` an error has been recorded; with it no `Sticky` call can report a defect.

**The pointers** need an invariant of their own on top of `ControlInv`, because a
pointer is passed down: an argument of a callee may point into the frame of any
activation below it, and a callee may push it again. `PointersInv` has two parts. The
first holds of any certified bytecode: where the arguments of each activation lie on the
parameter stack (`ArgsStacked`, `ArgsHeld`), and that pads find their parameters. The
second has the premise `SlicesLive`: each argument points below the frame of the
activation it was given to (`ArgsOutlive`), so whoever it points into is still there when
that activation ends, and no pointer is dead. What an activation pushed itself points
into its own frame or below; the certificate's `StepOK` lets a frame shrink only when no
parameter of the activation's own is left.

The premise cannot be had from the bytecode: a slice that was set to a local and handed
to the caller is certified code, and indexing it gives a dead pointer. So `PointersLive`
says of the *machine* that returns, breaks, ends of variables and pads leave no dead
pointer behind, if the program reads none out of a slice. That accepted programs do not
is what `borrow_check` is for, and the run `borrow` checks it on small functions
(`NoDangling`); the REPL does not call `borrow_check` yet.

**Any bytecode.** `ErrorsStick` and `UnwindingTruncates` need no certificate, but a
hypothesis, `Decoded`: the operands that cut stacks are numbers, and the codes an
instruction's checks report are errors, as they are in C whatever bytes are read. It
excludes values of the constant `Code` that stand for no bytes; all programs of the run
`raw` satisfy it, and certified code does (`CertifiedUnwinding`, `CertifiedErrors`).
`FirstErrorWins` speaks of runs that end at label `crash`. A pad may also end the run
by itself: by `RET` or `DONE` it returns `VM_OK`, by `HARD_CRASH` or a failed check that
error (vm.c:996-1002, 1056, 1334), whatever was recorded before.

**The frontend** is proved for any vocabulary, any source in it and any nesting, each
token of a phrase a step of the induction. `VocabulariesAssumption`
only says that phrases are sequences of finite length. `ReadingInv` has two parts:

* `Typed`, from which `TypeOK` follows, holds of any source, stray declarations included: the blocks that
  `current` and the scopes name are there and of the kinds a later word takes them to be
  of, operations or what a later `wrap_current` made of operations (`Soft`), and the phase
  of a scope is one its kind can be in.
* `Built` needs that no variable was declared in a condition, which
  breaks it (`documents`). It says that the blocks are a tree (`IsBlockTree`); that the
  blocks a scope will continue at are `BASIC` and nobody else's (`Placed`); that the
  loops around the current block, and around each block a scope still waits for, are
  the blocks of the loop scopes that are open there (`InLoops`); and, with plain
  cleanups, that `scope_depth`, `parent_depth`, `break_depth` and `continue_depth` are
  depths of the tree (`Deep`).

A tree is described by what it takes to check one: for each block the parent it hangs
from, at which place, and a height (`TreeBy`). From these, `Around` of a block is
`Around` of its parent and the parent (`AroundInTree`), which is the only fact about the climb
the rest uses. A word that opens a form grows the tree at the current leaf by four to
seven blocks, and `LoopGrows`, `PairGrows` (branches and epilogues), `BreakGrows` and
`VarGrows` say what that does to depths and loops: nothing, for the blocks that were there.
A word that closes one only moves on to another leaf (`Still`), and `scope_depth` is set
to what `Deep` says it is there. `BreaksReach` then is arithmetic on `Deep` and `InLoops`: the
level is the difference of the depths that both the tree and the frontend have.

**The table** is proved for any hash function, any keys and any first capacity of at
least two. `TableInv` says that from the home of a key's entry up to the entry no
place is free (`Chained`), that no key has two entries, in the new arrays and in what
is left to move of the old ones together, and that the entries are counted and below
three quarters of the capacity; while the table grows, they are below three quarters
of the *old* capacity, half of the new. From the last part a free place follows, so
every search ends; from `Chained`, that it ends at the right place. `Before`, the
places a search passes, is a total order from each home (`BeforeTotal`), by which one
stop is the first (`FirstStop`). The refinement maps the table to the entries of both
arrays; the put takes effect when the entry is stored. `IndicesAreUnique` rests on it:
`Intern` puts a key that is not stored, under the next index; that this is so also in
the middle of growing is `InternerSafe`.

**The holds** need no invariant but `RowsInside`: a row is appended to or copied, and
never written in place, so `RowsAfterAdd` compares each row before and after. That no
two rows overlap is not stated by `RowsInside`; it follows from the refinement that no
add is seen in another row.

**The composition.** Each step of `Context` is a step of the interner and a step or a
stutter of the holds (`ContextInterns`, `ContextHolds`), so what was proved of each
carries over. `HoldsHaveHandles` is about both: holds are of indices below the number
of handles, and both resets are one step of `Context`.

**The session** is proved for *any* `Compile` and `Run`: whatever is accepted and
whatever it prints, literals are freed or kept with their function. `SessionInv`
adds to `LiteralsOwned` that the owners' globals exist, so that a new literal, whose
index is the number of globals there are, is nobody's. The words of a form are read by
a recursive function, about which the invariants of a frontend (`FrontendOf`) are
proved by induction over the words.

**The layout** is proved for tables of any length and structs of any number of fields.
The interesting parts of the walk's invariant `WalkInv`: the active types are those whose
end is still to do (`Begun`), and what comes before such an end is a part of a type that
was begun since (`Nested`), so that an active type that is met again is inside of itself
and refusing is right; a type that is done has the layout its parts give it (`LaidOut`);
and there is a rank of the types that are done, larger for each than for its parts
(`Ranked`), which shows that what is laid out has no cycle, and by induction over which
the portal flags are exact. Apart from `WalkInv`, `Budget` bounds what is to do, and
what entering the remaining types can still add; it falls with every step (`StepCosts`),
so the walk ends within `MostSteps`. Induction over numbers is by the
least number of a set (`Numbers_proofs`), since the library's theorem takes an operator.
`AlignsAssumption` (of two alignments one divides the other) is needed for
`PartsFit`: a struct is aligned to its largest field and so to all.

**The arrays** are safe under `Fits`, which is an assumption about the program: its
numbers fit `count_t`, and it shortens a slice by as much as it advances it (`Paired`;
src/README.md:214 leaves that to the program). The code checks neither;
`documents` has an example of the first. The invariant relates a slice's length to what is
behind the place it points at: `SlicesEnd`.

**Only model-checked.** Liveness (`Terminates`, `GrowthEnds`), which the prover does not
cover. Everything over recursive operators, which it does not accept either: the
lowering, the compiler, the meaning of forms and the checkers, hence
`AcceptedFormsCompile`, `OutputCertified`, `KeepsItsMeaning`,
`CrashesAreReported`, `NoDangling`, `CallsDisjoint`, `ExactVerdict`, `AcceptedCompiles`,
`Borrow`'s `TypeOK` and the refinement of `Promise`. So the machine is proved for any bytecode that has a
certificate, and that the compiler's output has one (`OutputCertified`) is checked on
small forms; the frontend is proved to make trees with the right levels, and that lowering
and compiling them keeps their meaning is checked on small forms. That `FormSpec`
implies `Reading!Spec` is plain from the definitions (`Forms` reaches recursive
operators, so no theorem can be stated there), and the run `forms` checks the properties.
The refinement of `Dictionary` depends on what the compiler and the machine
do with a session's forms, which are the recursive operators of `SessionCode`.

## 5. Not modelled

* The results of arithmetic instructions: overflow and the smallest `num_t` divided by
  -1 (vm.c:1119) are undefined in C, and only the zero divisor is checked.
* Addresses: `storage_resize` may move storage under pointers (vm.c:943), and the
  array of handles may move under `borrow_par` (verification.c:783).
* `comp_run_calls`, which walks like the checkers and changes nothing, and the texts of
  the reporters.
* Immediate functions and macros (`run_immediate`), types in declarations, tokens as text.
* Failed allocations outside of the machine: they fail a compilation, a form or an
  assertion as a whole.
* Forms that crash inside a session.
* A write through a dead pointer. It is undefined in C and could overwrite a `ReturnFrame`
  or another variable; the models keep control and data apart, so the theorems on control
  are about programs that do no such write. `PointersLive` says which ones do not, as far as
  the machine is concerned.
* `hold_idx` beyond 2^32 holds (`Holds` has a bound instead): memory ends first.
* Slices advanced without being shortened, in `Arrays`: the code does not pair them
  (`Fits`, section 4); the repository's own test of slices does.
* The outer interpreter as bytecode: `InterpretAll` reads token by token what its
  natives do; that its own IR is run by the machine is not composed.
* A native function that changes the stacks of the VM it is called on.
* `io.h`, the Makefile and the tests, which were read for what they promise.

## 6. Plan

Done, in this order: `VM`; `Certificate` and `VMSafety`; `Lowering` and `Compiler`;
`Frontend`, `Pipeline`, `Forms`; `Language`, `Promise`, `Execution`; the proofs about the
machine; `ParTable`, `Interner`, `Holds`, `Context` and their proofs; `Layout`,
`TypeTables`; `Verification`, `Borrow`; `Arrays` and its proofs; `Session`,
`Dictionary`; `Documents`.

Then the proofs about pointers, `Context`, `Session`, `Layout` and `Reading`, for which the
last three were written without recursive operators.

Next:

1. *Proofs*: that a session implements `Dictionary`, from what is assumed of `Compile`
   and `Run`; the borrow checker's scan over its statements, once it is a recursive function.
2. *Outer interpreter*: the IR of `compile_interpreter`, compiled and run on `VM`
   with its natives acting on `fe`, shown to implement `InterpretAll`.
3. *Addresses*: storage that moves, and who still holds a pointer into it.
4. *Immediate functions* on the macro VM.
