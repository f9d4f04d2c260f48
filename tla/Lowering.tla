------------------------------ MODULE Lowering ------------------------------
(***************************************************************************)
(* remove_defers (src/ir.c) on the tree IR of module Blocks.  On the stack *)
(* of epilogues 0 stands for "no epilogue".                                *)
(* RECURSIVE operators: this module is for TLC only.                       *)
(***************************************************************************)
EXTENDS Blocks

\* EXTEND_HEAP: n more blocks, not yet filled in
Slots(res, n) == res \o [k \in 1..n |-> [kind |-> "EMPTY"]]

\* Append block b to the children of the MANY block dst; prev is the last chain
\* node so far.  The first child is held by dst itself, the others by a chain
\* node of their own, linked to the one before (append_chain_node).
AppendChild(res, dst, prev, b) ==
  LET child == Len(res) + 1
      link == child + 1
  IN IF res[dst].cur = NoBlock
     THEN [res |-> [Append(res, b) EXCEPT ![dst].cur = child],
           child |-> child, prev |-> NoBlock]
     ELSE [res |-> [res \o <<b, Chain(child, NoBlock)>> EXCEPT
                      ![IF prev = NoBlock THEN dst ELSE prev].next = link],
           child |-> child, prev |-> link]

RECURSIVE LowerBlock(_, _, _, _, _)
RECURSIVE LowerChildren(_, _, _, _, _, _, _)

\* A DEFER becomes MANY{CRASH_PAD{next, pad: defer}, defer}: the cleanup runs
\* after next, and instead of what is left of next when that crashes.
LowerDefer(blocks, b, dst, res, epis) ==
  LET pad == Len(res) + 1
      chain == Len(res) + 2
      defer == Len(res) + 3
      next == Len(res) + 4
      shape == [Slots(res, 4) EXCEPT
        ![dst] = Many(pad, chain),
        ![chain] = Chain(defer, NoBlock),
        ![pad] = [kind |-> "CRASH_PAD", body |-> next, pad |-> defer]]
      cleanup == LowerBlock(blocks, b.defer, defer, shape, Append(epis, 0))
  IN LowerBlock(blocks, b.next, next, cleanup, Append(epis, defer))

LowerCrashPad(blocks, b, dst, res, epis) ==
  LET body == Len(res) + 1
      pad == Len(res) + 2
      shape == [Slots(res, 2) EXCEPT ![dst].body = body, ![dst].pad = pad]
      handler == LowerBlock(blocks, b.pad, pad, shape, Append(epis, 0))
  IN LowerBlock(blocks, b.body, body, handler, Append(epis, pad))

LowerChildren(blocks, child, chain, dst, prev, res, epis) ==
  LET a == AppendChild(res, dst, prev, [kind |-> "EMPTY"])
      lowered == LowerBlock(blocks, child, a.child, a.res, epis)
  IN IF \/ chain \notin DOMAIN blocks
        \/ blocks[chain].kind # "CHAIN"
        \/ blocks[chain].cur = NoBlock
     THEN lowered
     ELSE LowerChildren(blocks, blocks[chain].cur, blocks[chain].next, dst,
                        a.prev, lowered, epis)

LowerMany(blocks, b, dst, res, epis) ==
  LET empty == [res EXCEPT ![dst] = Many(NoBlock, NoBlock)]
  IN IF b.cur = NoBlock THEN empty
     ELSE LowerChildren(blocks, b.cur, b.next, dst, NoBlock, empty, epis)

LowerBranch(blocks, b, dst, res, epis) ==
  LET yes == Len(res) + 1
      no == Len(res) + 2
      shape == [Slots(res, 2) EXCEPT ![dst].yes = yes, ![dst].no = no]
  IN LowerBlock(blocks, b.no, no,
                LowerBlock(blocks, b.yes, yes, shape, epis), epis)

\* LOOP and VAR: one child.
LowerBody(blocks, b, dst, res, epis) ==
  LET body == Len(res) + 1
      shape == [Slots(res, 1) EXCEPT ![dst].body = body]
  IN LowerBlock(blocks, b.body, body, shape, epis)

\* The epilogues a BREAK runs: those on the top `level' entries of the stack,
\* topmost first.  The stack has an entry for every block on the path, of any
\* kind, the BREAK included, and only those of defers and pads are not 0.
Epilogues(epis, level) ==
  SelectSeq([k \in 1..level |-> epis[Len(epis) + 1 - k]], LAMBDA d : d # 0)

\* One copy of each epilogue, as the children of dst; a copy is shallow.
RECURSIVE AppendCopies(_, _, _)
AppendCopies(a, dst, epilogues) ==
  IF epilogues = <<>> THEN a
  ELSE AppendCopies(AppendChild(a.res, dst, a.prev, a.res[Head(epilogues)]), dst,
                    Tail(epilogues))

\* MANY{copies of the epilogues.., BREAK one level further}
LowerBreak(b, dst, res, epis) ==
  LET crossed == Epilogues(epis, b.level)
      start == [res |-> [res EXCEPT ![dst] = Many(NoBlock, NoBlock)],
                child |-> NoBlock, prev |-> NoBlock]
      Leave(a) == AppendChild(a.res, dst, a.prev, Break(b.level + 1)).res
  IN IF crossed = <<>> THEN [res EXCEPT ![dst] = Break(b.level)]
     ELSE Leave(AppendCopies(start, dst, crossed))

\* _remove_defers: lower block src of blocks into slot dst of res
LowerBlock(blocks, src, dst, res, epis) ==
  LET b == blocks[src]
      placed == [res EXCEPT ![dst] = b]
      here == Append(epis, 0)
  IN CASE b.kind = "DEFER" -> LowerDefer(blocks, b, dst, placed, epis)
       [] b.kind = "CRASH_PAD" -> LowerCrashPad(blocks, b, dst, placed, epis)
       [] b.kind = "MANY" -> LowerMany(blocks, b, dst, placed, here)
       [] b.kind = "BRANCH" -> LowerBranch(blocks, b, dst, placed, here)
       [] b.kind \in {"LOOP", "VAR"} -> LowerBody(blocks, b, dst, placed, here)
       [] b.kind = "BREAK" -> LowerBreak(b, dst, placed, here)
       [] OTHER -> placed

remove_defers(blocks) == LowerBlock(blocks, 1, 1, Slots(<<>>, 1), <<>>)

\* lower_func_defers of the REPL: only when there is a DEFER to remove
LowerFunc(blocks) ==
  IF \E k \in DOMAIN blocks : blocks[k].kind = "DEFER"
  THEN remove_defers(blocks) ELSE blocks
=============================================================================
