------------------------------- MODULE Blocks -------------------------------
(***************************************************************************)
(* The tree IR (struct Block, src/ir.h): a function body is a tree of      *)
(* blocks kept in a flat array, entry block first.  Arrays are sequences   *)
(* here, so block k of the code is block k+1, and 0 stands for             *)
(* BLOCK_INVALID.                                                          *)
(***************************************************************************)
EXTENDS Integers, SequencesExt, FiniteSets

NoBlock == 0
Basic(start, len) == [kind |-> "BASIC", start |-> start, len |-> len]
Many(cur, next) == [kind |-> "MANY", cur |-> cur, next |-> next]
Chain(cur, next) == [kind |-> "CHAIN", cur |-> cur, next |-> next]
Break(level) == [kind |-> "BREAK", level |-> level]

ChildrenOf(b) ==
  CASE b.kind \in {"MANY", "CHAIN"} -> <<b.cur, b.next>>
    [] b.kind = "DEFER" -> <<b.next, b.defer>>
    [] b.kind = "BRANCH" -> <<b.yes, b.no>>
    [] b.kind \in {"LOOP", "VAR"} -> <<b.body>>
    [] OTHER -> <<>>

\* The kinds of block a BREAK counts when the defers are lowered.
Scoping == {"MANY", "LOOP", "VAR", "DEFER"}

\* All edges of the block graph, as <<parent, which child, child>>.
Edges(blocks) ==
  UNION {{<<p, i, ChildrenOf(blocks[p])[i]>> : i \in DOMAIN ChildrenOf(blocks[p])} :
           p \in DOMAIN blocks}

\* The blocks in ks and the ones they are children of.
WithParents(blocks, ks) ==
  ks \cup {p \in DOMAIN blocks :
           \E i \in DOMAIN ChildrenOf(blocks[p]) : ChildrenOf(blocks[p])[i] \in ks}

\* The blocks that k is in: those found on the way up after as many steps as there are
\* blocks.
Around(blocks, k) ==
  LET above[n \in 0..Len(blocks)] ==
        IF n = 0 THEN {k} ELSE WithParents(blocks, above[n - 1])
  IN above[Len(blocks)] \ {k}

\* A function is a tree of blocks (README, IR Model): every edge leads to a block or
\* nowhere, and all but the entry block have exactly one parent.
IsTree(blocks) ==
  LET edges == {e \in Edges(blocks) : e[3] # NoBlock} IN
  /\ \A e \in edges : e[3] \in 2..Len(blocks)
  /\ \A k \in 2..Len(blocks) :
       \E e \in edges : e[3] = k /\ \A other \in edges : other[3] = k => other = e

Depth(blocks, k) == Cardinality({p \in Around(blocks, k) : blocks[p].kind \in Scoping})
LoopsAround(blocks, k) == {p \in Around(blocks, k) : blocks[p].kind = "LOOP"}
=============================================================================
