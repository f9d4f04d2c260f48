------------------------------ MODULE Reading ------------------------------
(***************************************************************************)
(* Reading the source of a form (frontend_compile_source,                  *)
(* src/frontend.c): the outer interpreter takes it token by token and      *)
(* grows the tree IR.                                                      *)
(*                                                                         *)
(* The source is any sequence of up to words.max phrases, each one or more *)
(* tokens; what the frontend has built after each is a state of this       *)
(* machine.                                                                *)
(***************************************************************************)
EXTENDS Frontend

CONSTANT Vocabularies   \* a set of [phrases, max]: forms are written in one of them

\* A phrase is a sequence of tokens.
ASSUME VocabulariesAssumption ==
  \A v \in Vocabularies : \A p \in v.phrases : Len(p) \in Nat

VARIABLES
  words,      \* the vocabulary: phrases is the sequences of tokens the form may be
              \* made of, max the bound on their number
  fe,         \* the frontend's control-flow state
  read,       \* phrases read so far
  ended       \* whether the source has ended

reading == <<words, fe, read, ended>>

Init == words \in Vocabularies /\ fe = Fresh /\ read = 0 /\ ended = FALSE

Reads == ~ended /\ fe.error = "OK"

\* A round of the interpreter's loop for every token of phrase p.  A form that
\* cannot be closed any more within the bound is not followed.
Read(p) ==
  /\ Reads /\ read < words.max
  /\ read' = read + 1
  /\ fe' = InterpretAll(fe, p)
  /\ Len(fe'.scopes) <= words.max - read'
  /\ UNCHANGED <<words, ended>>

EndOfSource ==
  /\ Reads
  /\ ended' = TRUE
  /\ fe' = FinishSource(fe)
  /\ UNCHANGED <<words, read>>

Next == EndOfSource \/ \E p \in words.phrases : Read(p)

Spec == Init /\ [][Next]_reading

-----------------------------------------------------------------------------
(* Properties.                                                             *)

\* The cleanups of prefix Defers are as src/README.md shows them: no loop, branch or
\* declaration is in one.
PlainCleanups == \A k \in fe.cleanups : fe.blocks[k].kind = "BASIC"

BlockKinds == {"BASIC", "MANY", "CHAIN", "DEFER", "BRANCH", "LOOP", "BREAK", "VAR"}

\* The types of the frontend's state.
TypeOK ==
  /\ fe.error \in {"OK", "BAD_CONTROL_FLOW", "DUPLICATE_VAR", "UNKNOWN_WORD"}
  /\ \A k \in DOMAIN fe.blocks : fe.blocks[k].kind \in BlockKinds
  /\ fe.current \in DOMAIN fe.blocks
  /\ fe.depth \in Nat
  /\ \A s \in ToSet(fe.scopes) :
       {s.block, s.first, s.after} \subseteq DOMAIN fe.blocks

\* The function under construction is a tree of blocks at any time, unless a variable
\* is declared in a condition (module Documents has that form).
TreeShaped == ~fe.stray_var => IsTree(fe.blocks)

\* What is written next goes to an operation range that is still open: the
\* current block is a BASIC one, at the depth the frontend takes it to be at.
InPlace ==
  ~fe.stray_var /\ PlainCleanups =>
  /\ fe.blocks[fe.current].kind = "BASIC"
  /\ fe.depth = Depth(fe.blocks, fe.current)

\* The innermost of the loops that k is in: the others are around it.
IsInnermostLoop(blocks, k, loop) ==
  /\ loop \in LoopsAround(blocks, k)
  /\ \A other \in LoopsAround(blocks, k) \ {loop} : other \in Around(blocks, loop)

\* A break at depth d leaves all that is deeper than its target, d less its level: for a
\* Break the target is at the depth of the loop, for a Continue it is the body.
Reaches(blocks, k, loop, word) ==
  Depth(blocks, k) - blocks[k].level =
    Depth(blocks, loop) + (IF word = "Break" THEN 0 ELSE 1)

\* A Break leaves the innermost loop around it and a Continue the body of it,
\* also when they cross a Start or a Defer (frontend.c:571-572, 626).
BreaksReachTheirLoop ==
  [][\A p \in words.phrases :
       /\ Len(p) = 1 /\ p[1].w \in {"Break", "Continue"}
       /\ Read(p) /\ fe'.error = "OK" /\ ~fe.stray_var /\ PlainCleanups
       => \E loop \in DOMAIN fe'.blocks :
            /\ IsInnermostLoop(fe'.blocks, MiddleOf(fe), loop)
            /\ Reaches(fe'.blocks, MiddleOf(fe), loop, p[1].w)]_reading
=============================================================================
