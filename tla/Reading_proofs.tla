--------------------------- MODULE Reading_proofs ---------------------------
(***************************************************************************)
(* Proofs about module Reading: for any source, over any vocabulary.       *)
(***************************************************************************)
EXTENDS Reading, Numbers_proofs, FiniteSetTheorems

-----------------------------------------------------------------------------
(* Trees of blocks.                                                        *)

\* The blocks are a tree: own and place are the block that has c as a child and which
\* child it is, high is how far down the tree it is.
TreeBy(blocks, own, place, high) ==
  LET n == Len(blocks) IN
  /\ n \in Nat \ {0} /\ DOMAIN blocks = 1..n
  /\ own \in [2..n -> 1..n] /\ place \in [2..n -> {1, 2}] /\ high \in [1..n -> 0..(n - 1)]
  /\ \A c \in 2..n : /\ place[c] \in DOMAIN ChildrenOf(blocks[own[c]])
                     /\ ChildrenOf(blocks[own[c]])[place[c]] = c
                     /\ high[c] = high[own[c]] + 1
  /\ \A p \in 1..n : \A i \in DOMAIN ChildrenOf(blocks[p]) :
       LET c == ChildrenOf(blocks[p])[i]
       IN c = NoBlock \/ (c \in 2..n /\ own[c] = p /\ place[c] = i)

LEMMA TreeByIsTree ==
  ASSUME NEW blocks, NEW own, NEW place, NEW high, TreeBy(blocks, own, place, high)
  PROVE  IsTree(blocks)
<1> DEFINE n == Len(blocks)
           edges == {e \in Edges(blocks) : e[3] # NoBlock}
<1>1. ASSUME NEW e \in edges
      PROVE  e[3] \in 2..n /\ e = <<own[e[3]], place[e[3]], e[3]>>
  <2>1. PICK p \in 1..n : \E i \in DOMAIN ChildrenOf(blocks[p]) :
               e = <<p, i, ChildrenOf(blocks[p])[i]>>
    BY DEF Edges, TreeBy
  <2>2. PICK i \in DOMAIN ChildrenOf(blocks[p]) : e = <<p, i, ChildrenOf(blocks[p])[i]>>
    BY <2>1
  <2> QED BY <2>2 DEF TreeBy
<1>2. ASSUME NEW c \in 2..n PROVE <<own[c], place[c], c>> \in edges
  <2>1. /\ own[c] \in DOMAIN blocks /\ place[c] \in DOMAIN ChildrenOf(blocks[own[c]])
        /\ ChildrenOf(blocks[own[c]])[place[c]] = c /\ c # NoBlock
    BY DEF TreeBy, NoBlock
  <2> QED BY <2>1 DEF Edges
<1> HIDE DEF edges
<1>3. \A c \in 2..n :
        \E e \in edges : e[3] = c /\ \A other \in edges : other[3] = c => other = e
  <2> SUFFICES ASSUME NEW c \in 2..n
               PROVE  \E e \in edges : e[3] = c /\
                         \A other \in edges : other[3] = c => other = e
    OBVIOUS
  <2>1. <<own[c], place[c], c>> \in edges /\ <<own[c], place[c], c>>[3] = c
    BY <1>2
  <2>2. \A other \in edges : other[3] = c => other = <<own[c], place[c], c>>
    BY <1>1
  <2> QED BY <2>1, <2>2
<1> QED BY <1>1, <1>3 DEF IsTree, edges

\* What holds of the entry block, and of a block if it holds of its parent, holds of all.
LEMMA DownTheTree ==
  ASSUME NEW blocks, NEW own, NEW place, NEW high, TreeBy(blocks, own, place, high),
         NEW T, 1 \in T, \A c \in 2..Len(blocks) : own[c] \in T => c \in T
  PROVE  \A c \in 1..Len(blocks) : c \in T
<1> DEFINE n == Len(blocks)
           H == {d \in Nat : \A c \in 1..n : high[c] = d => c \in T}
<1>1. \A c \in 1..n : high[c] \in Nat /\ (c # 1 => c \in 2..n)
  BY DEF TreeBy
<1>2. \A c \in 2..n : own[c] \in 1..n /\ high[c] = high[own[c]] + 1
  BY DEF TreeBy
<1>3. 0 \in H
  <2>1. ASSUME NEW c \in 1..n, high[c] = 0 PROVE c = 1
    <3>1. CASE c \in 2..n
      <4>1. high[own[c]] \in Nat /\ high[c] = high[own[c]] + 1
        BY <1>1, <1>2, <3>1
      <4> QED BY <2>1, <4>1
    <3> QED BY <1>1, <3>1
  <2> QED BY <2>1
<1>4. ASSUME NEW d \in Nat, d \in H PROVE d + 1 \in H
  <2>1. ASSUME NEW c \in 1..n, high[c] = d + 1 PROVE c \in T
    <3>1. CASE c \in 2..n
      <4>1. own[c] \in 1..n /\ high[own[c]] \in Nat /\ high[c] = high[own[c]] + 1
        BY <1>1, <1>2, <3>1
      <4>2. high[own[c]] = d
        BY <2>1, <4>1
      <4> QED BY <1>4, <3>1, <4>1, <4>2
    <3> QED BY <1>1, <3>1
  <2> QED BY <2>1
<1> HIDE DEF H
<1>5. \A d \in Nat : d \in H
  BY <1>3, <1>4, Induction
<1> QED BY <1>1, <1>5 DEF H

-----------------------------------------------------------------------------
(* The blocks around a block.                                              *)

\* up has the blocks found on the way up from k after each number of steps, up to m.
Climbs(blocks, k, up, m) ==
  up = [i \in 0..m |-> IF i = 0 THEN {k} ELSE WithParents(blocks, up[i - 1])]

LEMMA ClimbsExist ==
  ASSUME NEW blocks, NEW k
  PROVE  \A m \in Nat : \E up : Climbs(blocks, k, up, m)
<1> DEFINE T == {m \in Nat : \E up : Climbs(blocks, k, up, m)}
<1>1. 0 \in T
  <2> DEFINE up == [i \in 0..0 |-> {k}]
  <2>1. Climbs(blocks, k, up, 0)
    BY DEF Climbs
  <2> QED BY <2>1
<1>2. ASSUME NEW m \in Nat, m \in T PROVE m + 1 \in T
  <2>1. PICK f : Climbs(blocks, k, f, m)
    BY <1>2
  <2> DEFINE g == [i \in 0..(m + 1) |-> IF i = m + 1 THEN WithParents(blocks, f[m]) ELSE f[i]]
             h(i) == IF i = 0 THEN {k} ELSE WithParents(blocks, g[i - 1])
  <2>2. ASSUME NEW i \in 0..(m + 1) PROVE g[i] = h(i)
    <3>1. CASE i = m + 1
      BY <3>1
    <3>2. CASE i \in 0..m
      <4>1. g[i] = f[i] /\ (i # 0 => g[i - 1] = f[i - 1])
        BY <3>2
      <4>2. f[i] = IF i = 0 THEN {k} ELSE WithParents(blocks, f[i - 1])
        BY <2>1, <3>2 DEF Climbs
      <4> QED BY <4>1, <4>2
    <3> QED BY <3>1, <3>2
  <2>3. g = [i \in 0..(m + 1) |-> h(i)]
    BY <2>2
  <2>4. Climbs(blocks, k, g, m + 1)
    BY <2>3 DEF Climbs
  <2> QED BY <2>4
<1> HIDE DEF T
<1>3. \A m \in Nat : m \in T
  BY <1>1, <1>2, Induction
<1> QED BY <1>3 DEF T

LEMMA AroundClimbs ==
  ASSUME NEW blocks, NEW k, Len(blocks) \in Nat
  PROVE  \E up : /\ Climbs(blocks, k, up, Len(blocks))
                 /\ Around(blocks, k) = up[Len(blocks)] \ {k}
<1> DEFINE n == Len(blocks)
           up == CHOOSE f : f = [i \in 0..n |-> IF i = 0 THEN {k}
                                 ELSE WithParents(blocks, f[i - 1])]
<1>1. \E f : f = [i \in 0..n |-> IF i = 0 THEN {k} ELSE WithParents(blocks, f[i - 1])]
  <2>1. \E f : Climbs(blocks, k, f, n)
    BY ClimbsExist
  <2> QED BY <2>1 DEF Climbs
<1>2. Climbs(blocks, k, up, n)
  BY <1>1 DEF Climbs
<1>3. Around(blocks, k) = up[n] \ {k}
  BY DEF Around
<1> QED BY <1>2, <1>3

\* One step up.
LEMMA ClimbStep ==
  ASSUME NEW blocks, NEW k, NEW m \in Nat, NEW up, Climbs(blocks, k, up, m)
  PROVE  /\ up[0] = {k}
         /\ \A i \in Nat : i < m => up[i + 1] = WithParents(blocks, up[i])
<1>1. \A i \in 0..m : up[i] = IF i = 0 THEN {k} ELSE WithParents(blocks, up[i - 1])
  BY DEF Climbs
<1>2. ASSUME NEW i \in Nat, i < m PROVE up[i + 1] = WithParents(blocks, up[i])
  <2>1. i + 1 \in 0..m /\ i + 1 # 0 /\ (i + 1) - 1 = i
    BY <1>2
  <2> QED BY <1>1, <2>1
<1> QED BY <1>1, <1>2

LEMMA ParentsInTree ==
  ASSUME NEW blocks, NEW own, NEW place, NEW high, TreeBy(blocks, own, place, high),
         NEW ks, ks \subseteq 1..Len(blocks)
  PROVE  WithParents(blocks, ks) = ks \cup {own[c] : c \in ks \ {1}}
<1> DEFINE n == Len(blocks)
<1>1. ASSUME NEW p \in WithParents(blocks, ks), p \notin ks
      PROVE  p \in {own[c] : c \in ks \ {1}}
  <2>1. PICK i \in DOMAIN ChildrenOf(blocks[p]) : ChildrenOf(blocks[p])[i] \in ks
    BY <1>1 DEF WithParents
  <2>2. p \in 1..n
    BY <1>1 DEF WithParents, TreeBy
  <2>3. PICK c : c = ChildrenOf(blocks[p])[i]
    OBVIOUS
  <2>4. c \in ks /\ c # NoBlock
    BY <2>1, <2>3 DEF NoBlock
  <2>5. c \in 2..n /\ own[c] = p
    BY <2>2, <2>3, <2>4 DEF TreeBy
  <2> QED BY <2>4, <2>5
<1>2. ASSUME NEW c \in ks, c # 1 PROVE own[c] \in WithParents(blocks, ks)
  <2>1. c \in 2..n
    BY <1>2 DEF TreeBy
  <2>2. /\ own[c] \in DOMAIN blocks /\ place[c] \in DOMAIN ChildrenOf(blocks[own[c]])
        /\ ChildrenOf(blocks[own[c]])[place[c]] = c
    BY <2>1 DEF TreeBy
  <2> QED BY <2>2 DEF WithParents
<1>3. ks \subseteq WithParents(blocks, ks)
  BY DEF WithParents
<1> QED BY <1>1, <1>2, <1>3

\* On the way up there are only blocks that are higher.
LEMMA ClimbsUp ==
  ASSUME NEW blocks, NEW own, NEW place, NEW high, TreeBy(blocks, own, place, high),
         NEW k \in 1..Len(blocks), NEW m \in Nat, NEW up, Climbs(blocks, k, up, m)
  PROVE  \A i \in 0..m : /\ up[i] \subseteq 1..Len(blocks) /\ k \in up[i]
                          /\ \A q \in up[i] : high[q] <= high[k]
<1> DEFINE n == Len(blocks)
           Good(i) == /\ up[i] \subseteq 1..n /\ k \in up[i]
                      /\ \A q \in up[i] : high[q] <= high[k]
           T == {i \in Nat : i <= m => Good(i)}
<1>1. \A q \in 1..n : high[q] \in Nat
  BY DEF TreeBy
<1>0. up[0] = {k} /\ \A i \in Nat : i < m => up[i + 1] = WithParents(blocks, up[i])
  BY ClimbStep
<1>2. 0 \in T
  BY <1>0, <1>1
<1>3. ASSUME NEW i \in Nat, i \in T PROVE i + 1 \in T
  <2>1. CASE i + 1 <= m
    <3>1. Good(i) /\ up[i + 1] = WithParents(blocks, up[i])
      BY <1>0, <1>3, <2>1
    <3>2. up[i + 1] = up[i] \cup {own[c] : c \in up[i] \ {1}}
      BY <3>1, ParentsInTree
    <3>3. ASSUME NEW c \in up[i], c # 1
          PROVE  own[c] \in 1..n /\ high[own[c]] <= high[k]
      <4>1. c \in 2..n /\ high[c] <= high[k]
        BY <3>1, <3>3 DEF TreeBy
      <4>2. own[c] \in 1..n /\ high[c] = high[own[c]] + 1
        BY <4>1 DEF TreeBy
      <4>3. high[own[c]] \in Nat /\ high[k] \in Nat
        BY <1>1, <4>2
      <4> QED BY <4>1, <4>2, <4>3
    <3> QED BY <3>1, <3>2, <3>3
  <2> QED BY <2>1
<1> HIDE DEF T
<1>4. \A i \in Nat : i \in T
  BY <1>2, <1>3, Induction
<1> QED BY <1>4 DEF T

\* The way up from a block is a step longer than that from its parent.
LEMMA ClimbFromChild ==
  ASSUME NEW blocks, NEW own, NEW place, NEW high, TreeBy(blocks, own, place, high),
         NEW c \in 2..Len(blocks), NEW m \in Nat,
         NEW up, Climbs(blocks, c, up, m), NEW above, Climbs(blocks, own[c], above, m)
  PROVE  \A i \in Nat : i < m => up[i + 1] = {c} \cup above[i]
<1> DEFINE n == Len(blocks)
           T == {i \in Nat : i < m => up[i + 1] = {c} \cup above[i]}
<1>1. own[c] \in 1..n /\ c \in 1..n /\ c # 1
  BY SMTT(30) DEF TreeBy
<1>2. /\ up[0] = {c} /\ above[0] = {own[c]}
      /\ \A i \in Nat : i < m => up[i + 1] = WithParents(blocks, up[i])
      /\ \A i \in Nat : i < m => above[i + 1] = WithParents(blocks, above[i])
  <2>1. up[0] = {c} /\ \A i \in Nat : i < m => up[i + 1] = WithParents(blocks, up[i])
    BY ONLY ClimbStep, m \in Nat, Climbs(blocks, c, up, m)
  <2>2. /\ above[0] = {own[c]}
        /\ \A i \in Nat : i < m => above[i + 1] = WithParents(blocks, above[i])
    BY ONLY ClimbStep, m \in Nat, Climbs(blocks, own[c], above, m)
  <2> QED BY <2>1, <2>2
<1>3. 0 \in T
  <2>1. CASE 0 < m
    <3>1. up[0 + 1] = WithParents(blocks, up[0])
      BY <1>2, <2>1
    <3>2. WithParents(blocks, {c}) = {c} \cup {own[k] : k \in {c} \ {1}}
      BY <1>1, ParentsInTree
    <3>3. {own[k] : k \in {c} \ {1}} = {own[c]}
      BY <1>1
    <3>4. up[0 + 1] = {c} \cup above[0]
      BY <1>2, <3>1, <3>2, <3>3
    <3> QED BY <3>4
  <2> QED BY <2>1
<1>4. ASSUME NEW i \in Nat, i \in T PROVE i + 1 \in T
  <2>1. CASE i + 1 < m
    <3>1. up[i + 1] = {c} \cup above[i]
      BY <1>4, <2>1
    <3>2. up[(i + 1) + 1] = WithParents(blocks, up[i + 1])
      BY <1>2, <2>1
    <3>3. above[i + 1] = WithParents(blocks, above[i])
      BY <1>2, <2>1
    <3>4. above[i] \subseteq 1..n /\ own[c] \in above[i + 1]
      BY <1>1, <2>1, ClimbsUp
    <3>5. above[i + 1] = above[i] \cup {own[k] : k \in above[i] \ {1}}
      BY <3>3, <3>4, ParentsInTree
    <3>6. up[(i + 1) + 1] = up[i + 1] \cup {own[k] : k \in up[i + 1] \ {1}}
      BY <1>1, <3>1, <3>2, <3>4, ParentsInTree
    <3>7. {own[k] : k \in up[i + 1] \ {1}} = {own[c]} \cup {own[k] : k \in above[i] \ {1}}
      BY <1>1, <3>1
    <3> QED BY <3>1, <3>4, <3>5, <3>6, <3>7
  <2> QED BY <2>1
<1> HIDE DEF T
<1>5. \A i \in Nat : i \in T
  BY <1>3, <1>4, Induction
<1> QED BY <1>5 DEF T

LEMMA ClimbFromEntry ==
  ASSUME NEW blocks, NEW own, NEW place, NEW high, TreeBy(blocks, own, place, high),
         NEW m \in Nat, NEW up, Climbs(blocks, 1, up, m)
  PROVE  \A i \in Nat : i <= m => up[i] = {1}
<1> DEFINE T == {i \in Nat : i <= m => up[i] = {1}}
<1>1. up[0] = {1} /\ \A i \in Nat : i < m => up[i + 1] = WithParents(blocks, up[i])
  BY ClimbStep
<1>2. WithParents(blocks, {1}) = {1}
  <2>1. {1} \subseteq 1..Len(blocks)
    BY DEF TreeBy
  <2>2. WithParents(blocks, {1}) = {1} \cup {own[c] : c \in {1} \ {1}}
    BY <2>1, ParentsInTree
  <2> QED BY <2>2
<1>3. 0 \in T
  BY <1>1
<1>4. ASSUME NEW i \in Nat, i \in T PROVE i + 1 \in T
  BY <1>1, <1>2, <1>4
<1> HIDE DEF T
<1>5. \A i \in Nat : i \in T
  BY <1>3, <1>4, Induction
<1> QED BY <1>5 DEF T

\* After as many steps as k is down the tree, nothing more is found.
LEMMA ClimbEnds ==
  ASSUME NEW blocks, NEW own, NEW place, NEW high, TreeBy(blocks, own, place, high),
         NEW m \in Nat
  PROVE  \A k \in 1..Len(blocks) : \A up : Climbs(blocks, k, up, m) =>
           \A i \in Nat : high[k] <= i /\ i < m => up[i + 1] = up[i]
<1> DEFINE n == Len(blocks)
           T == {k \in 1..n : \A up : Climbs(blocks, k, up, m) =>
                  \A i \in Nat : high[k] <= i /\ i < m => up[i + 1] = up[i]}
<1>1. 1 \in T
  <2> SUFFICES ASSUME NEW up, Climbs(blocks, 1, up, m)
               PROVE  \A i \in Nat : i < m => up[i + 1] = up[i]
    BY DEF TreeBy
  <2>1. \A i \in Nat : i <= m => up[i] = {1}
    BY ClimbFromEntry
  <2>2. ASSUME NEW i \in Nat, i < m PROVE up[i + 1] = up[i]
    <3>1. i <= m /\ i + 1 <= m /\ i + 1 \in Nat
      BY ONLY m \in Nat, i \in Nat, <2>2
    <3>2. up[i] = {1}
      BY ONLY i \in Nat, <2>1, <3>1
    <3>3. up[i + 1] = {1}
      BY ONLY <2>1, <3>1
    <3> QED BY ONLY <3>2, <3>3
  <2> QED BY <2>2
<1>2. ASSUME NEW c \in 2..n, own[c] \in T PROVE c \in T
  <2>1. ASSUME NEW up, Climbs(blocks, c, up, m), NEW i \in Nat, high[c] <= i, i < m
        PROVE  up[i + 1] = up[i]
    <3>1. PICK above : Climbs(blocks, own[c], above, m)
      BY ClimbsExist
    <3>2. /\ own[c] \in 1..n /\ high[own[c]] \in Nat
          /\ high[c] = high[own[c]] + 1
      BY DEF TreeBy
    <3>3. PICK j \in Nat : i = j + 1 /\ high[own[c]] <= j
      <4>1. i - 1 \in Nat /\ i = (i - 1) + 1 /\ high[own[c]] <= i - 1
        BY <2>1, <3>2
      <4> QED BY <4>1
    <3>4. above[j + 1] = above[j]
      BY <1>2, <2>1, <3>1, <3>3
    <3>5. up[i + 1] = {c} \cup above[i] /\ up[j + 1] = {c} \cup above[j]
      BY <2>1, <3>1, <3>3, ClimbFromChild
    <3> QED BY <3>3, <3>4, <3>5
  <2> QED BY <2>1
<1> HIDE DEF T
<1>3. \A k \in 1..n : k \in T
  BY <1>1, <1>2, DownTheTree
<1> QED BY <1>3 DEF T

\* Around the entry block there is nothing, around any other its parent and what is
\* around that.
LEMMA AroundInTree ==
  ASSUME NEW blocks, NEW own, NEW place, NEW high, TreeBy(blocks, own, place, high)
  PROVE  /\ Around(blocks, 1) = {}
         /\ \A c \in 2..Len(blocks) :
              /\ own[c] \in 1..Len(blocks)
              /\ Around(blocks, c) = Around(blocks, own[c]) \cup {own[c]}
              /\ own[c] \notin Around(blocks, own[c])
         /\ \A k \in 1..Len(blocks) : Around(blocks, k) \subseteq 1..Len(blocks)
<1> DEFINE n == Len(blocks)
<1>1. n \in Nat \ {0} /\ \A k \in 1..n : high[k] \in 0..(n - 1)
  BY DEF TreeBy
<1>2. ASSUME NEW k \in 1..n PROVE Around(blocks, k) \subseteq 1..n
  <2>1. PICK up : Climbs(blocks, k, up, n) /\ Around(blocks, k) = up[n] \ {k}
    BY <1>1, AroundClimbs
  <2> QED BY <1>1, <2>1, ClimbsUp
<1>3. Around(blocks, 1) = {}
  <2>1. PICK up : Climbs(blocks, 1, up, n) /\ Around(blocks, 1) = up[n] \ {1}
    BY <1>1, AroundClimbs
  <2>2. \A i \in Nat : i <= n => up[i] = {1}
    BY <1>1, <2>1, ClimbFromEntry
  <2> QED BY <1>1, <2>1, <2>2
<1>4. ASSUME NEW c \in 2..n
      PROVE  /\ own[c] \in 1..n
             /\ Around(blocks, c) = Around(blocks, own[c]) \cup {own[c]}
             /\ own[c] \notin Around(blocks, own[c])
  <2>1. PICK up : Climbs(blocks, c, up, n) /\ Around(blocks, c) = up[n] \ {c}
    BY <1>1, AroundClimbs
  <2>2. PICK above : /\ Climbs(blocks, own[c], above, n)
                     /\ Around(blocks, own[c]) = above[n] \ {own[c]}
    BY <1>1, AroundClimbs
  <2>3. /\ own[c] \in 1..n /\ c \in 1..n
        /\ high[c] = high[own[c]] + 1
    BY DEF TreeBy
  <2>4. PICK j \in Nat : n = j + 1 /\ high[own[c]] <= j
    <3>1. n - 1 \in Nat /\ n = (n - 1) + 1 /\ high[own[c]] <= n - 1
      BY <1>1, <2>3
    <3> QED BY <3>1
  <2>5. above[j + 1] = above[j]
    BY <1>1, <2>2, <2>3, <2>4, ClimbEnds
  <2>6. up[j + 1] = {c} \cup above[j]
    BY <1>1, <2>1, <2>2, <2>4, ClimbFromChild
  <2>7. c \notin above[n] /\ own[c] \in above[n]
    <3>1. own[c] \in above[n] /\ \A q \in above[n] : high[q] <= high[own[c]]
      BY <1>1, <2>2, <2>3, ClimbsUp
    <3>2. ~(high[c] <= high[own[c]])
      BY <1>1, <2>3
    <3> QED BY <3>1, <3>2
  <2> QED BY <2>1, <2>2, <2>3, <2>4, <2>5, <2>6, <2>7
<1> QED BY <1>2, <1>3, <1>4

\* A block that others are in has children.
LEMMA AroundHaveChildren ==
  ASSUME NEW blocks, NEW own, NEW place, NEW high, TreeBy(blocks, own, place, high)
  PROVE  \A k \in 1..Len(blocks) : \A p \in Around(blocks, k) : ChildrenOf(blocks[p]) # <<>>
<1> DEFINE n == Len(blocks)
           T == {k \in 1..n : \A p \in Around(blocks, k) : ChildrenOf(blocks[p]) # <<>>}
<1>1. 1 \in T
  BY AroundInTree DEF TreeBy
<1>2. ASSUME NEW c \in 2..n, own[c] \in T PROVE c \in T
  <2>1. Around(blocks, c) = Around(blocks, own[c]) \cup {own[c]} /\ c \in 1..n
    BY AroundInTree
  <2>2. ChildrenOf(blocks[own[c]]) # <<>>
    BY DEF TreeBy
  <2> QED BY <1>2, <2>1, <2>2
<1> HIDE DEF T
<1>3. \A k \in 1..n : k \in T
  BY <1>1, <1>2, DownTheTree
<1> QED BY <1>3 DEF T

\* What a block adds to the depth of its children, and to the loops they are in.
Below(b) == IF b.kind \in Scoping THEN 1 ELSE 0
LoopOf(blocks, p) == {q \in {p} : blocks[q].kind = "LOOP"}

LEMMA DepthInTree ==
  ASSUME NEW blocks, NEW own, NEW place, NEW high, TreeBy(blocks, own, place, high)
  PROVE  /\ Depth(blocks, 1) = 0 /\ LoopsAround(blocks, 1) = {}
         /\ \A k \in 1..Len(blocks) : Depth(blocks, k) \in Nat
         /\ \A c \in 2..Len(blocks) :
              /\ Depth(blocks, c) = Depth(blocks, own[c]) + Below(blocks[own[c]])
              /\ LoopsAround(blocks, c) =
                   LoopsAround(blocks, own[c]) \cup LoopOf(blocks, own[c])
<1> DEFINE n == Len(blocks)
           Scopes(k) == {p \in Around(blocks, k) : blocks[p].kind \in Scoping}
<1>1. ASSUME NEW k \in 1..n
      PROVE  IsFiniteSet(Scopes(k)) /\ Cardinality(Scopes(k)) \in Nat
  <2>1. n \in Nat /\ Scopes(k) \subseteq 1..n
    BY AroundInTree DEF TreeBy
  <2>2. IsFiniteSet(1..n)
    BY <2>1, FS_Interval
  <2> QED BY <2>1, <2>2, FS_Subset, FS_CardinalityType
<1>2. Depth(blocks, 1) = 0 /\ LoopsAround(blocks, 1) = {}
  <2>1. Scopes(1) = {} /\ Around(blocks, 1) = {}
    BY AroundInTree
  <2> QED BY <2>1, FS_EmptySet DEF Depth, LoopsAround
<1>3. ASSUME NEW c \in 2..n
      PROVE  Depth(blocks, c) = Depth(blocks, own[c]) + Below(blocks[own[c]])
  <2>1. /\ own[c] \in 1..n /\ own[c] \notin Around(blocks, own[c])
        /\ Around(blocks, c) = Around(blocks, own[c]) \cup {own[c]}
    BY AroundInTree
  <2>2. CASE blocks[own[c]].kind \in Scoping
    <3>1. Scopes(c) = Scopes(own[c]) \cup {own[c]} /\ own[c] \notin Scopes(own[c])
      BY <2>1, <2>2
    <3>2. Cardinality(Scopes(c)) = Cardinality(Scopes(own[c])) + 1
      BY <1>1, <2>1, <3>1, FS_AddElement
    <3> QED BY <2>2, <3>2 DEF Depth, Below
  <2>3. CASE blocks[own[c]].kind \notin Scoping
    <3>1. Scopes(c) = Scopes(own[c]) /\ Cardinality(Scopes(own[c])) \in Nat
      BY <1>1, <2>1, <2>3
    <3>2. /\ Depth(blocks, c) = Cardinality(Scopes(c))
          /\ Depth(blocks, own[c]) = Cardinality(Scopes(own[c]))
      BY DEF Depth
    <3>3. Below(blocks[own[c]]) = 0
      BY <2>3 DEF Below
    <3> HIDE DEF Scopes
    <3> QED BY <3>1, <3>2, <3>3
  <2> QED BY <2>2, <2>3
<1>4. ASSUME NEW c \in 2..n
      PROVE  LoopsAround(blocks, c) = LoopsAround(blocks, own[c]) \cup LoopOf(blocks, own[c])
  <2>1. Around(blocks, c) = Around(blocks, own[c]) \cup {own[c]}
    BY AroundInTree
  <2> QED BY <2>1 DEF LoopsAround, LoopOf
<1> QED BY <1>1, <1>2, <1>3, <1>4 DEF Depth

-----------------------------------------------------------------------------
(* A tree grows where it has a leaf: new blocks, all of them below block k.*)

IsBlockTree(blocks) ==
  \E own, place, high : TreeBy(blocks, own, place, high)

\* own, place: the parents of the new blocks, and which child of theirs each is; high:
\* how far below k each is.
Grows(blocks, more, k, own, place, high) ==
  LET n == Len(blocks)
      new == (n + 1)..Len(more)
  IN
  /\ Len(more) \in Nat /\ n <= Len(more) /\ DOMAIN more = 1..Len(more)
  /\ k \in 1..n /\ ChildrenOf(blocks[k]) = <<>>
  /\ \A i \in 1..n : i # k =>
       ChildrenOf(more[i]) = ChildrenOf(blocks[i]) /\ more[i].kind = blocks[i].kind
  /\ own \in [new -> {k} \cup new] /\ place \in [new -> {1, 2}]
  /\ high \in [new -> 1..(Len(more) - n)]
  /\ \A c \in new : /\ place[c] \in DOMAIN ChildrenOf(more[own[c]])
                     /\ ChildrenOf(more[own[c]])[place[c]] = c
                     /\ high[c] = (IF own[c] = k THEN 0 ELSE high[own[c]]) + 1
  /\ \A p \in {k} \cup new : \A i \in DOMAIN ChildrenOf(more[p]) :
       LET c == ChildrenOf(more[p])[i]
       IN c = NoBlock \/ (c \in new /\ own[c] = p /\ place[c] = i)

LEMMA GrownTree ==
  ASSUME NEW blocks, NEW own, NEW place, NEW high, TreeBy(blocks, own, place, high),
         NEW more, NEW k, NEW newown, NEW newplace, NEW newhigh,
         Grows(blocks, more, k, newown, newplace, newhigh)
  PROVE  LET n == Len(blocks) IN
         TreeBy(more,
           [c \in 2..Len(more) |-> IF c <= n THEN own[c] ELSE newown[c]],
           [c \in 2..Len(more) |-> IF c <= n THEN place[c] ELSE newplace[c]],
           [c \in 1..Len(more) |-> IF c <= n THEN high[c]
                                  ELSE high[k] + newhigh[c]])
<1> DEFINE n == Len(blocks)
           m == Len(more)
           new == (n + 1)..m
           O == [c \in 2..m |-> IF c <= n THEN own[c] ELSE newown[c]]
           P == [c \in 2..m |-> IF c <= n THEN place[c] ELSE newplace[c]]
           H == [c \in 1..m |-> IF c <= n THEN high[c] ELSE high[k] + newhigh[c]]
<1>1. /\ n \in Nat \ {0} /\ m \in Nat /\ n <= m /\ DOMAIN more = 1..m /\ k \in 1..n
      /\ own \in [2..n -> 1..n] /\ place \in [2..n -> {1, 2}] /\ high \in [1..n -> 0..(n - 1)]
      /\ newown \in [new -> {k} \cup new] /\ newplace \in [new -> {1, 2}]
      /\ newhigh \in [new -> 1..(m - n)]
  BY DEF TreeBy, Grows
<1>2. /\ \A c \in 2..n : O[c] = own[c] /\ P[c] = place[c]
      /\ \A c \in new : O[c] = newown[c] /\ P[c] = newplace[c]
      /\ \A c \in 1..n : H[c] = high[c]
      /\ \A c \in new : H[c] = high[k] + newhigh[c]
  BY <1>1
<1>3. O \in [2..m -> 1..m] /\ P \in [2..m -> {1, 2}]
  <2>1. ASSUME NEW c \in 2..m PROVE O[c] \in 1..m /\ P[c] \in {1, 2}
    <3> HIDE DEF O, P, H
    <3>1. CASE c \in 2..n
      <4>1. own[c] \in 1..n /\ place[c] \in {1, 2}
        BY <1>1, <3>1
      <4> QED BY <1>1, <1>2, <3>1, <4>1
    <3>2. CASE c \in new
      <4>1. newown[c] \in {k} \cup new /\ newplace[c] \in {1, 2}
        BY <1>1, <3>2
      <4>2. newown[c] \in 1..m
        BY <1>1, <4>1
      <4> QED BY <1>2, <3>2, <4>1, <4>2
    <3> QED BY <1>1, <3>1, <3>2
  <2> QED BY <2>1
<1>4. H \in [1..m -> 0..(m - 1)]
  <2>1. ASSUME NEW c \in 1..m PROVE H[c] \in 0..(m - 1)
    <3>1. CASE c \in 1..n
      BY <1>1, <1>2, <3>1
    <3>2. CASE c \in new
      <4>1. PICK d, e : d = high[k] /\ e = newhigh[c]
        OBVIOUS
      <4>2. d \in 0..(n - 1) /\ e \in 1..(m - n) /\ H[c] = d + e
        BY <1>1, <1>2, <3>2, <4>1
      <4> QED BY <1>1, <4>2
    <3> QED BY <1>1, <3>1, <3>2
  <2> QED BY <2>1
<1> HIDE DEF O, P, H
<1>5. ASSUME NEW c \in 2..m
      PROVE  /\ P[c] \in DOMAIN ChildrenOf(more[O[c]])
             /\ ChildrenOf(more[O[c]])[P[c]] = c
             /\ H[c] = H[O[c]] + 1
  <2>1. CASE c \in 2..n
    <3>1. /\ place[c] \in DOMAIN ChildrenOf(blocks[own[c]])
          /\ ChildrenOf(blocks[own[c]])[place[c]] = c
          /\ high[c] = high[own[c]] + 1 /\ own[c] \in 1..n
      BY <2>1 DEF TreeBy
    <3>2. own[c] # k
      BY <3>1 DEF Grows
    <3>3. ChildrenOf(more[own[c]]) = ChildrenOf(blocks[own[c]])
      BY <3>1, <3>2 DEF Grows
    <3>4. H[c] = high[c] /\ H[own[c]] = high[own[c]]
      BY <1>1, <1>2, <2>1, <3>1
    <3> QED BY <1>2, <2>1, <3>1, <3>3, <3>4
  <2>2. CASE c \in new
    <3>1. /\ newplace[c] \in DOMAIN ChildrenOf(more[newown[c]])
          /\ ChildrenOf(more[newown[c]])[newplace[c]] = c
          /\ newhigh[c] = (IF newown[c] = k THEN 0 ELSE newhigh[newown[c]]) + 1
      BY <2>2 DEF Grows
    <3>2. H[c] = H[newown[c]] + 1
      <4>1. high[k] \in Nat /\ H[k] = high[k] /\ H[c] = high[k] + newhigh[c]
        BY <1>1, <1>2, <2>2
      <4>2. CASE newown[c] = k
        BY <3>1, <4>1, <4>2
      <4>3. CASE newown[c] # k
        <5>1. newown[c] \in new /\ newhigh[newown[c]] \in Nat
          BY <1>1, <2>2, <4>3
        <5>2. H[newown[c]] = high[k] + newhigh[newown[c]]
          BY <1>2, <5>1
        <5> QED BY <3>1, <4>1, <4>3, <5>1, <5>2
      <4> QED BY <4>2, <4>3
    <3> QED BY <1>2, <2>2, <3>1, <3>2
  <2> QED BY <1>1, <2>1, <2>2
<1>6. ASSUME NEW p \in 1..m, NEW i \in DOMAIN ChildrenOf(more[p]),
             ChildrenOf(more[p])[i] # NoBlock
      PROVE  /\ ChildrenOf(more[p])[i] \in 2..m
             /\ O[ChildrenOf(more[p])[i]] = p /\ P[ChildrenOf(more[p])[i]] = i
  <2>1. PICK c : c = ChildrenOf(more[p])[i]
    OBVIOUS
  <2>2. CASE p \in {k} \cup new
    <3>1. c \in new /\ newown[c] = p /\ newplace[c] = i
      BY <1>6, <2>1, <2>2 DEF Grows
    <3> QED BY <1>1, <1>2, <2>1, <3>1
  <2>3. CASE p \in 1..n /\ p # k
    <3>1. ChildrenOf(more[p]) = ChildrenOf(blocks[p])
      BY <2>3 DEF Grows
    <3>2. c \in 2..n /\ own[c] = p /\ place[c] = i
      BY <1>6, <2>1, <2>3, <3>1 DEF TreeBy
    <3> QED BY <1>1, <1>2, <2>1, <3>2
  <2> QED BY <1>1, <2>2, <2>3
<1>7. m \in Nat \ {0}
  BY <1>1
<1>8. TreeBy(more, O, P, H)
  BY <1>1, <1>3, <1>4, <1>5, <1>6, <1>7 DEF TreeBy
<1> QED BY <1>8 DEF O, P, H

\* The blocks there were stay where they were, and a new one is one further down than
\* its parent.
LEMMA Grown ==
  ASSUME NEW blocks, IsBlockTree(blocks), NEW more, NEW k, NEW own, NEW place, NEW high,
         Grows(blocks, more, k, own, place, high)
  PROVE  /\ IsBlockTree(more)
         /\ \A x \in 1..Len(blocks) :
              /\ Depth(more, x) = Depth(blocks, x) /\ Depth(blocks, x) \in Nat
              /\ LoopsAround(more, x) = LoopsAround(blocks, x)
         /\ \A c \in (Len(blocks) + 1)..Len(more) :
              /\ Depth(more, c) = Depth(more, own[c]) + Below(more[own[c]])
              /\ LoopsAround(more, c) = LoopsAround(more, own[c]) \cup LoopOf(more, own[c])
<1> DEFINE n == Len(blocks)
           m == Len(more)
<1>1. PICK o, p, h : TreeBy(blocks, o, p, h)
  BY DEF IsBlockTree
<1>2. PICK o2, p2, h2 :
        /\ TreeBy(more, o2, p2, h2)
        /\ \A c \in 2..m : o2[c] = IF c <= n THEN o[c] ELSE own[c]
  <2> DEFINE O == [c \in 2..m |-> IF c <= n THEN o[c] ELSE own[c]]
             P == [c \in 2..m |-> IF c <= n THEN p[c] ELSE place[c]]
             H == [c \in 1..m |-> IF c <= n THEN h[c] ELSE h[k] + high[c]]
  <2>1. \A c \in 2..m : O[c] = IF c <= n THEN o[c] ELSE own[c]
    OBVIOUS
  <2>2. TreeBy(more, O, P, H)
    BY <1>1, GrownTree
  <2> HIDE DEF O, P, H
  <2> QED BY <2>1, <2>2
<1>3. n \in Nat \ {0} /\ m \in Nat /\ n <= m
  BY <1>1 DEF TreeBy, Grows
<1> DEFINE T == {x \in 1..n : Around(more, x) = Around(blocks, x)}
<1>4. 1 \in T
  BY <1>1, <1>2, <1>3, AroundInTree
<1>5. ASSUME NEW c \in 2..n, o[c] \in T PROVE c \in T
  <2>1. Around(blocks, c) = Around(blocks, o[c]) \cup {o[c]}
    BY <1>1, AroundInTree
  <2>2. c \in 2..m /\ o2[c] = o[c] /\ c \in 1..n
    BY <1>2, <1>3
  <2>3. Around(more, c) = Around(more, o2[c]) \cup {o2[c]}
    BY <1>2, <2>2, AroundInTree
  <2> QED BY <1>5, <2>1, <2>2, <2>3
<1> HIDE DEF T
<1>6. \A x \in 1..n : x \in T
  BY <1>1, <1>4, <1>5, DownTheTree
<1>7. ASSUME NEW x \in 1..n
      PROVE  Depth(more, x) = Depth(blocks, x) /\ LoopsAround(more, x) = LoopsAround(blocks, x)
  <2>1. Around(more, x) = Around(blocks, x)
    BY <1>6 DEF T
  <2>2. \A a \in Around(blocks, x) : a \in 1..n /\ ChildrenOf(blocks[a]) # <<>>
    BY <1>1, AroundInTree, AroundHaveChildren
  <2>3. \A a \in Around(blocks, x) : more[a].kind = blocks[a].kind
    BY <2>2 DEF Grows
  <2>4. {a \in Around(more, x) : more[a].kind \in Scoping} =
          {a \in Around(blocks, x) : blocks[a].kind \in Scoping}
    BY <2>1, <2>3
  <2>5. LoopsAround(more, x) = LoopsAround(blocks, x)
    BY <2>1, <2>3 DEF LoopsAround
  <2> QED BY <2>4, <2>5 DEF Depth
<1>8. \A c \in (n + 1)..m : c \in 2..m /\ o2[c] = own[c]
  BY <1>2, <1>3
<1>9. \A x \in 1..n : Depth(blocks, x) \in Nat
  BY <1>1, DepthInTree
<1>10. \A c \in (n + 1)..m :
         /\ Depth(more, c) = Depth(more, own[c]) + Below(more[own[c]])
         /\ LoopsAround(more, c) = LoopsAround(more, own[c]) \cup LoopOf(more, own[c])
  BY <1>2, <1>8, DepthInTree
<1> QED BY <1>2, <1>7, <1>9, <1>10 DEF IsBlockTree

-----------------------------------------------------------------------------
(* The ways in which a tree grows.                                         *)

LEMMA Seven ==
  ASSUME NEW n \in Nat
  PROVE  /\ (n + 1)..(n + 4) = {n + 1, n + 2, n + 3, n + 4}
         /\ (n + 1)..(n + 5) = {n + 1, n + 2, n + 3, n + 4, n + 5}
         /\ (n + 1)..(n + 7) = {n + 1, n + 2, n + 3, n + 4, n + 5, n + 6, n + 7}
OBVIOUS

LEMMA Children ==
  /\ \A i, j : /\ ChildrenOf(Many(i, j)) = <<i, j>> /\ Many(i, j).kind = "MANY"
               /\ ChildrenOf(Chain(i, j)) = <<i, j>> /\ Chain(i, j).kind = "CHAIN"
  /\ \A b : b.kind \in {"BASIC", "BREAK"} => ChildrenOf(b) = <<>>
BY DEF ChildrenOf, Many, Chain

\* What all of them share: block k, that was BASIC, is MANY, and the others are as they
\* were.
Kept(blocks, more, k, added) ==
  LET n == Len(blocks) IN
  /\ n \in Nat /\ DOMAIN blocks = 1..n
  /\ Len(more) = n + added /\ DOMAIN more = 1..(n + added)
  /\ k \in 1..n /\ blocks[k].kind = "BASIC"
  /\ \A i \in 1..n : i # k => more[i] = blocks[i]

\* begin_loop
LoopGrown(blocks, more, k) ==
  LET n == Len(blocks) IN
  /\ Kept(blocks, more, k, 7)
  /\ more[k] = Many(n + 3, n + 5)
  /\ more[n + 1].kind = "BASIC"
  /\ more[n + 2] = Many(n + 1, NoBlock)
  /\ more[n + 3].kind = "BASIC"
  /\ more[n + 4] = [kind |-> "LOOP", body |-> n + 2]
  /\ more[n + 5] = Chain(n + 4, n + 7)
  /\ more[n + 6].kind = "BASIC"
  /\ more[n + 7] = Chain(n + 6, NoBlock)

\* The blocks there were stay where they were.
SameTree(blocks, more) ==
  /\ IsBlockTree(more)
  /\ \A x \in 1..Len(blocks) : /\ Depth(more, x) = Depth(blocks, x)
                               /\ LoopsAround(more, x) = LoopsAround(blocks, x)

LoopTree(blocks, more, k) ==
  LET n == Len(blocks)
      d == Depth(blocks, k)
      loops == LoopsAround(blocks, k)
  IN /\ SameTree(blocks, more) /\ d \in Nat
     /\ Depth(more, n + 1) = d + 3 /\ LoopsAround(more, n + 1) = loops \cup {n + 4}
     /\ Depth(more, n + 4) = d + 1 /\ LoopsAround(more, n + 4) = loops
     /\ Depth(more, n + 6) = d + 1 /\ LoopsAround(more, n + 6) = loops

LEMMA LoopGrows ==
  ASSUME NEW blocks, IsBlockTree(blocks), NEW more, NEW k, LoopGrown(blocks, more, k)
  PROVE  LoopTree(blocks, more, k)
<1> DEFINE n == Len(blocks)
           new == (n + 1)..(n + 7)
           own == [c \in new |->
             IF c = n + 1 THEN n + 2 ELSE IF c = n + 2 THEN n + 4
             ELSE IF c \in {n + 3, n + 5} THEN k ELSE IF c \in {n + 4, n + 7} THEN n + 5
             ELSE n + 7]
           place == [c \in new |-> IF c \in {n + 5, n + 7} THEN 2 ELSE 1]
           high == [c \in new |->
             IF c = n + 1 THEN 4 ELSE IF c \in {n + 2, n + 6} THEN 3
             ELSE IF c \in {n + 3, n + 5} THEN 1 ELSE 2]
<1>1. /\ n \in Nat /\ k \in 1..n /\ k # n + 5 /\ Len(more) = n + 7 /\ DOMAIN more = 1..(n + 7)
      /\ ChildrenOf(blocks[k]) = <<>> /\ ChildrenOf(more[k]) = <<n + 3, n + 5>>
      /\ ChildrenOf(more[n + 1]) = <<>> /\ ChildrenOf(more[n + 2]) = <<n + 1, NoBlock>>
      /\ ChildrenOf(more[n + 3]) = <<>> /\ ChildrenOf(more[n + 4]) = <<n + 2>>
      /\ ChildrenOf(more[n + 5]) = <<n + 4, n + 7>>
      /\ ChildrenOf(more[n + 6]) = <<>> /\ ChildrenOf(more[n + 7]) = <<n + 6, NoBlock>>
      /\ \A i \in 1..n : i # k => more[i] = blocks[i]
  <2>1. ChildrenOf([kind |-> "LOOP", body |-> n + 2]) = <<n + 2>>
    BY DEF ChildrenOf
  <2> QED BY <2>1, Children DEF LoopGrown, Kept
<1>2. new = {n + 1, n + 2, n + 3, n + 4, n + 5, n + 6, n + 7}
  BY ONLY n \in Nat, Seven
<1>3. /\ own[n + 1] = n + 2 /\ own[n + 2] = n + 4 /\ own[n + 3] = k /\ own[n + 4] = n + 5
      /\ own[n + 5] = k /\ own[n + 6] = n + 7 /\ own[n + 7] = n + 5
  BY <1>1
<1>4. /\ place[n + 1] = 1 /\ place[n + 2] = 1 /\ place[n + 3] = 1 /\ place[n + 4] = 1
      /\ place[n + 5] = 2 /\ place[n + 6] = 1 /\ place[n + 7] = 2
  BY <1>1
<1>5. /\ high[n + 1] = 4 /\ high[n + 2] = 3 /\ high[n + 3] = 1 /\ high[n + 4] = 2
      /\ high[n + 5] = 1 /\ high[n + 6] = 3 /\ high[n + 7] = 2
  BY <1>1
<1>6. /\ own \in [new -> {k} \cup new] /\ place \in [new -> {1, 2}] /\ high \in [new -> 1..7]
  BY <1>1, <1>2
<1> HIDE DEF own, place, high
<1>7. ASSUME NEW c \in new
      PROVE  /\ place[c] \in DOMAIN ChildrenOf(more[own[c]])
             /\ ChildrenOf(more[own[c]])[place[c]] = c
             /\ high[c] = (IF own[c] = k THEN 0 ELSE high[own[c]]) + 1
  <2> HIDE DEF new
  <2>1. CASE c = n + 1
    BY <1>1, <1>3, <1>4, <1>5, <2>1
  <2>2. CASE c = n + 2
    BY <1>1, <1>3, <1>4, <1>5, <2>2
  <2>3. CASE c = n + 3
    BY <1>1, <1>3, <1>4, <1>5, <2>3
  <2>4. CASE c = n + 4
    BY <1>1, <1>3, <1>4, <1>5, <2>4
  <2>5. CASE c = n + 5
    BY <1>1, <1>3, <1>4, <1>5, <2>5
  <2>6. CASE c = n + 6
    BY <1>1, <1>3, <1>4, <1>5, <2>6
  <2>7. CASE c = n + 7
    BY <1>1, <1>3, <1>4, <1>5, <2>7
  <2> QED BY <1>2, <2>1, <2>2, <2>3, <2>4, <2>5, <2>6, <2>7
<1>8. ASSUME NEW p \in {k} \cup new, NEW i \in DOMAIN ChildrenOf(more[p]),
             ChildrenOf(more[p])[i] # NoBlock
      PROVE  LET c == ChildrenOf(more[p])[i] IN c \in new /\ own[c] = p /\ place[c] = i
  <2> HIDE DEF new
  <2>1. CASE p = k
    BY <1>1, <1>2, <1>3, <1>4, <1>8, <2>1
  <2>2. CASE p = n + 2
    BY <1>1, <1>2, <1>3, <1>4, <1>8, <2>2
  <2>3. CASE p = n + 4
    BY <1>1, <1>2, <1>3, <1>4, <1>8, <2>3
  <2>4. CASE p = n + 5
    BY <1>1, <1>2, <1>3, <1>4, <1>8, <2>4
  <2>5. CASE p = n + 7
    BY <1>1, <1>2, <1>3, <1>4, <1>8, <2>5
  <2>6. CASE p \in {n + 1, n + 3, n + 6}
    BY <1>1, <2>6
  <2> QED BY <1>2, <2>1, <2>2, <2>3, <2>4, <2>5, <2>6
<1>9. Grows(blocks, more, k, own, place, high)
  <2>1. Len(more) - n = 7 /\ n <= Len(more) /\ Len(more) \in Nat /\ new = (n + 1)..Len(more)
    BY <1>1
  <2> HIDE DEF new
  <2> QED BY ZenonT(60), <1>1, <1>6, <1>7, <1>8, <2>1 DEF Grows
<1>10. /\ IsBlockTree(more)
       /\ \A x \in 1..n :
            /\ Depth(more, x) = Depth(blocks, x) /\ Depth(blocks, x) \in Nat
            /\ LoopsAround(more, x) = LoopsAround(blocks, x)
       /\ \A c \in new :
            /\ Depth(more, c) = Depth(more, own[c]) + Below(more[own[c]])
            /\ LoopsAround(more, c) = LoopsAround(more, own[c]) \cup LoopOf(more, own[c])
  <2>1. new = (n + 1)..Len(more)
    BY <1>1
  <2> HIDE DEF new
  <2> QED BY <1>9, <2>1, Grown
<1> HIDE DEF new
<1>11. /\ Below(more[k]) = 1 /\ Below(more[n + 2]) = 1 /\ Below(more[n + 4]) = 1
       /\ Below(more[n + 5]) = 0 /\ Below(more[n + 7]) = 0
       /\ LoopOf(more, k) = {} /\ LoopOf(more, n + 2) = {} /\ LoopOf(more, n + 4) = {n + 4}
       /\ LoopOf(more, n + 5) = {} /\ LoopOf(more, n + 7) = {}
  BY Children DEF LoopGrown, Below, LoopOf, Scoping
<1>12. PICK d, loops : /\ d \in Nat /\ d = Depth(more, k) /\ d = Depth(blocks, k)
                       /\ loops = LoopsAround(more, k) /\ loops = LoopsAround(blocks, k)
  BY <1>1, <1>10
<1>13. /\ Depth(more, n + 5) = d + 1 /\ Depth(more, n + 4) = Depth(more, n + 5) + 0
       /\ Depth(more, n + 7) = Depth(more, n + 5) + 0
       /\ Depth(more, n + 6) = Depth(more, n + 7) + 0
       /\ Depth(more, n + 2) = Depth(more, n + 4) + 1
       /\ Depth(more, n + 1) = Depth(more, n + 2) + 1
  BY <1>2, <1>3, <1>10, <1>11, <1>12
<1>14. /\ LoopsAround(more, n + 5) = loops \cup LoopOf(more, k)
       /\ LoopsAround(more, n + 4) = LoopsAround(more, n + 5) \cup LoopOf(more, n + 5)
       /\ LoopsAround(more, n + 7) = LoopsAround(more, n + 5) \cup LoopOf(more, n + 5)
       /\ LoopsAround(more, n + 6) = LoopsAround(more, n + 7) \cup LoopOf(more, n + 7)
       /\ LoopsAround(more, n + 2) = LoopsAround(more, n + 4) \cup LoopOf(more, n + 4)
       /\ LoopsAround(more, n + 1) = LoopsAround(more, n + 2) \cup LoopOf(more, n + 2)
  BY <1>2, <1>3, <1>10, <1>12
<1>15. /\ Depth(more, n + 4) = d + 1 /\ Depth(more, n + 6) = d + 1
       /\ Depth(more, n + 1) = d + 3
  BY <1>12, <1>13
<1>16. /\ LoopsAround(more, n + 4) = loops /\ LoopsAround(more, n + 6) = loops
       /\ LoopsAround(more, n + 1) = loops \cup {n + 4}
  BY <1>11, <1>14
<1> QED BY <1>10, <1>12, <1>15, <1>16 DEF SameTree, LoopTree

\* begin_if and begin_epilogue
PairGrown(blocks, more, k) ==
  LET n == Len(blocks) IN
  /\ Kept(blocks, more, k, 7)
  /\ more[k] = Many(n + 3, n + 5)
  /\ more[n + 1].kind = "BASIC"
  /\ more[n + 2].kind = "BASIC"
  /\ more[n + 3].kind = "BASIC"
  /\ more[n + 4].kind \in {"BRANCH", "DEFER"} /\ ChildrenOf(more[n + 4]) = <<n + 1, n + 2>>
  /\ more[n + 5] = Chain(n + 4, n + 7)
  /\ more[n + 6].kind = "BASIC"
  /\ more[n + 7] = Chain(n + 6, NoBlock)

PairTree(blocks, more, k) ==
  LET n == Len(blocks)
      d == Depth(blocks, k)
      loops == LoopsAround(blocks, k)
  IN /\ SameTree(blocks, more) /\ d \in Nat
     /\ Depth(more, n + 4) = d + 1 /\ Depth(more, n + 6) = d + 1
     /\ Depth(more, n + 1) = d + 1 + Below(more[n + 4])
     /\ Depth(more, n + 2) = d + 1 + Below(more[n + 4])
     /\ LoopsAround(more, n + 1) = loops /\ LoopsAround(more, n + 2) = loops
     /\ LoopsAround(more, n + 4) = loops /\ LoopsAround(more, n + 6) = loops

LEMMA PairGrows ==
  ASSUME NEW blocks, IsBlockTree(blocks), NEW more, NEW k, PairGrown(blocks, more, k)
  PROVE  PairTree(blocks, more, k)
<1> DEFINE n == Len(blocks)
           new == (n + 1)..(n + 7)
           own == [c \in new |->
             IF c \in {n + 1, n + 2} THEN n + 4 ELSE IF c \in {n + 3, n + 5} THEN k
             ELSE IF c \in {n + 4, n + 7} THEN n + 5 ELSE n + 7]
           place == [c \in new |-> IF c \in {n + 1, n + 3, n + 4, n + 6} THEN 1 ELSE 2]
           high == [c \in new |->
             IF c \in {n + 1, n + 2, n + 6} THEN 3 ELSE IF c \in {n + 3, n + 5}
             THEN 1 ELSE 2]
<1>1. /\ n \in Nat /\ k \in 1..n /\ Len(more) = n + 7 /\ DOMAIN more = 1..(n + 7)
      /\ ChildrenOf(blocks[k]) = <<>>
      /\ ChildrenOf(more[k]) = <<n + 3, n + 5>> /\ ChildrenOf(more[n + 1]) = <<>>
      /\ ChildrenOf(more[n + 2]) = <<>>
      /\ ChildrenOf(more[n + 3]) = <<>> /\ ChildrenOf(more[n + 4]) = <<n + 1, n + 2>>
      /\ ChildrenOf(more[n + 5]) = <<n + 4, n + 7>>
      /\ ChildrenOf(more[n + 6]) = <<>> /\ ChildrenOf(more[n + 7]) = <<n + 6, NoBlock>>
      /\ \A i \in 1..n : i # k => more[i] = blocks[i]
  BY Children DEF PairGrown, Kept
<1>2. new = {n + 1, n + 2, n + 3, n + 4, n + 5, n + 6, n + 7}
  BY ONLY n \in Nat, Seven
<1>3. /\ own[n + 1] = n + 4 /\ own[n + 2] = n + 4 /\ own[n + 3] = k
      /\ own[n + 4] = n + 5 /\ own[n + 5] = k /\ own[n + 6] = n + 7
      /\ own[n + 7] = n + 5
  BY <1>1
<1>4. /\ place[n + 1] = 1 /\ place[n + 2] = 2 /\ place[n + 3] = 1
      /\ place[n + 4] = 1 /\ place[n + 5] = 2 /\ place[n + 6] = 1
      /\ place[n + 7] = 2
  BY <1>1
<1>5. /\ high[n + 1] = 3 /\ high[n + 2] = 3 /\ high[n + 3] = 1
      /\ high[n + 4] = 2 /\ high[n + 5] = 1 /\ high[n + 6] = 3
      /\ high[n + 7] = 2
  BY <1>1
<1>6. own \in [new -> {k} \cup new] /\ place \in [new -> {1, 2}] /\ high \in [new -> 1..7]
  BY <1>1, <1>2
<1> HIDE DEF own, place, high
<1>7. ASSUME NEW c \in new
      PROVE  /\ place[c] \in DOMAIN ChildrenOf(more[own[c]])
             /\ ChildrenOf(more[own[c]])[place[c]] = c
             /\ high[c] = (IF own[c] = k THEN 0 ELSE high[own[c]]) + 1
  <2> HIDE DEF new
  <2>1. CASE c = n + 1
    BY <1>1, <1>3, <1>4, <1>5, <2>1
  <2>2. CASE c = n + 2
    BY <1>1, <1>3, <1>4, <1>5, <2>2
  <2>3. CASE c = n + 3
    BY <1>1, <1>3, <1>4, <1>5, <2>3
  <2>4. CASE c = n + 4
    BY <1>1, <1>3, <1>4, <1>5, <2>4
  <2>5. CASE c = n + 5
    BY <1>1, <1>3, <1>4, <1>5, <2>5
  <2>6. CASE c = n + 6
    BY <1>1, <1>3, <1>4, <1>5, <2>6
  <2>7. CASE c = n + 7
    BY <1>1, <1>3, <1>4, <1>5, <2>7
  <2> QED BY <1>2, <2>1, <2>2, <2>3, <2>4, <2>5, <2>6, <2>7
<1>8. ASSUME NEW p \in {k} \cup new, NEW i \in DOMAIN ChildrenOf(more[p]),
             ChildrenOf(more[p])[i] # NoBlock
      PROVE  LET c == ChildrenOf(more[p])[i] IN c \in new /\ own[c] = p /\ place[c] = i
  <2> HIDE DEF new
  <2>1. CASE p = k
    BY <1>1, <1>2, <1>3, <1>4, <1>8, <2>1
  <2>2. CASE p = n + 4
    BY <1>1, <1>2, <1>3, <1>4, <1>8, <2>2
  <2>3. CASE p = n + 5
    BY <1>1, <1>2, <1>3, <1>4, <1>8, <2>3
  <2>4. CASE p = n + 7
    BY <1>1, <1>2, <1>3, <1>4, <1>8, <2>4
  <2>5. CASE p \in {n + 1, n + 2, n + 3, n + 6}
    BY <1>1, <2>5
  <2> QED BY <1>2, <2>1, <2>2, <2>3, <2>4, <2>5
<1>9. Grows(blocks, more, k, own, place, high)
  <2>1. /\ Len(more) - n = 7 /\ n <= Len(more) /\ Len(more) \in Nat
        /\ new = (n + 1)..Len(more)
    BY <1>1
  <2> HIDE DEF new
  <2> QED BY ZenonT(60), <1>1, <1>6, <1>7, <1>8, <2>1 DEF Grows
<1>10. /\ IsBlockTree(more)
       /\ \A x \in 1..n :
            /\ Depth(more, x) = Depth(blocks, x) /\ Depth(blocks, x) \in Nat
            /\ LoopsAround(more, x) = LoopsAround(blocks, x)
       /\ \A c \in new :
            /\ Depth(more, c) = Depth(more, own[c]) + Below(more[own[c]])
            /\ LoopsAround(more, c) = LoopsAround(more, own[c]) \cup LoopOf(more, own[c])
  <2>1. new = (n + 1)..Len(more)
    BY <1>1
  <2> HIDE DEF new
  <2> QED BY <1>9, <2>1, Grown
<1> HIDE DEF new
<1>11. /\ Below(more[k]) = 1 /\ Below(more[n + 4]) \in {0, 1} /\ Below(more[n + 5]) = 0
       /\ Below(more[n + 7]) = 0 /\ LoopOf(more, k) = {} /\ LoopOf(more, n + 4) = {}
       /\ LoopOf(more, n + 5) = {} /\ LoopOf(more, n + 7) = {}
  BY Children DEF PairGrown, Below, LoopOf, Scoping
<1>12. PICK d, loops : /\ d \in Nat /\ d = Depth(more, k) /\ d = Depth(blocks, k)
                       /\ loops = LoopsAround(more, k) /\ loops = LoopsAround(blocks, k)
  BY <1>1, <1>10
<1>13. /\ Depth(more, n + 5) = d + 1
       /\ Depth(more, n + 4) = Depth(more, n + 5) + 0
       /\ Depth(more, n + 7) = Depth(more, n + 5) + 0
       /\ Depth(more, n + 6) = Depth(more, n + 7) + 0
       /\ Depth(more, n + 1) = Depth(more, n + 4) + Below(more[n + 4])
       /\ Depth(more, n + 2) = Depth(more, n + 4) + Below(more[n + 4])
  BY <1>2, <1>3, <1>10, <1>11, <1>12
<1>14. /\ LoopsAround(more, n + 5) = loops \cup LoopOf(more, k)
       /\ LoopsAround(more, n + 4) = LoopsAround(more, n + 5) \cup LoopOf(more, n + 5)
       /\ LoopsAround(more, n + 7) = LoopsAround(more, n + 5) \cup LoopOf(more, n + 5)
       /\ LoopsAround(more, n + 6) = LoopsAround(more, n + 7) \cup LoopOf(more, n + 7)
       /\ LoopsAround(more, n + 1) = LoopsAround(more, n + 4) \cup LoopOf(more, n + 4)
       /\ LoopsAround(more, n + 2) = LoopsAround(more, n + 4) \cup LoopOf(more, n + 4)
  BY <1>2, <1>3, <1>10, <1>12
<1>15. /\ Depth(more, n + 4) = d + 1 /\ Depth(more, n + 6) = d + 1
       /\ Depth(more, n + 1) = d + 1 + Below(more[n + 4])
       /\ Depth(more, n + 2) = d + 1 + Below(more[n + 4])
  BY <1>11, <1>12, <1>13
<1>16. /\ LoopsAround(more, n + 1) = loops
       /\ LoopsAround(more, n + 2) = loops
       /\ LoopsAround(more, n + 4) = loops
       /\ LoopsAround(more, n + 6) = loops
  BY <1>11, <1>14
<1> QED BY <1>10, <1>12, <1>15, <1>16 DEF SameTree, PairTree

\* emit_loop_exit
BreakGrown(blocks, more, k) ==
  LET n == Len(blocks) IN
  /\ Kept(blocks, more, k, 5)
  /\ more[k] = Many(n + 1, n + 3)
  /\ more[n + 1].kind = "BASIC"
  /\ more[n + 2].kind = "BREAK"
  /\ more[n + 3] = Chain(n + 2, n + 5)
  /\ more[n + 4].kind = "BASIC"
  /\ more[n + 5] = Chain(n + 4, NoBlock)

BreakTree(blocks, more, k) ==
  LET n == Len(blocks)
      d == Depth(blocks, k)
      loops == LoopsAround(blocks, k)
  IN /\ SameTree(blocks, more) /\ d \in Nat
     /\ Depth(more, n + 2) = d + 1 /\ Depth(more, n + 4) = d + 1
     /\ LoopsAround(more, n + 2) = loops /\ LoopsAround(more, n + 4) = loops

LEMMA BreakGrows ==
  ASSUME NEW blocks, IsBlockTree(blocks), NEW more, NEW k, BreakGrown(blocks, more, k)
  PROVE  BreakTree(blocks, more, k)
<1> DEFINE n == Len(blocks)
           new == (n + 1)..(n + 5)
           own == [c \in new |->
             IF c \in {n + 1, n + 3} THEN k ELSE IF c \in {n + 2, n + 5} THEN n + 3
             ELSE n + 5]
           place == [c \in new |-> IF c \in {n + 1, n + 2, n + 4} THEN 1 ELSE 2]
           high == [c \in new |->
             IF c \in {n + 1, n + 3} THEN 1 ELSE IF c \in {n + 2, n + 5} THEN 2
             ELSE 3]
<1>1. /\ n \in Nat /\ k \in 1..n /\ Len(more) = n + 5 /\ DOMAIN more = 1..(n + 5)
      /\ ChildrenOf(blocks[k]) = <<>>
      /\ ChildrenOf(more[k]) = <<n + 1, n + 3>> /\ ChildrenOf(more[n + 1]) = <<>>
      /\ ChildrenOf(more[n + 2]) = <<>>
      /\ ChildrenOf(more[n + 3]) = <<n + 2, n + 5>> /\ ChildrenOf(more[n + 4]) = <<>>
      /\ ChildrenOf(more[n + 5]) = <<n + 4, NoBlock>>
      /\ \A i \in 1..n : i # k => more[i] = blocks[i]
  BY Children DEF BreakGrown, Kept
<1>2. new = {n + 1, n + 2, n + 3, n + 4, n + 5}
  BY ONLY n \in Nat, Seven
<1>3. /\ own[n + 1] = k /\ own[n + 2] = n + 3 /\ own[n + 3] = k
      /\ own[n + 4] = n + 5 /\ own[n + 5] = n + 3
  BY <1>1
<1>4. /\ place[n + 1] = 1 /\ place[n + 2] = 1 /\ place[n + 3] = 2
      /\ place[n + 4] = 1 /\ place[n + 5] = 2
  BY <1>1
<1>5. /\ high[n + 1] = 1 /\ high[n + 2] = 2 /\ high[n + 3] = 1
      /\ high[n + 4] = 3 /\ high[n + 5] = 2
  BY <1>1
<1>6. own \in [new -> {k} \cup new] /\ place \in [new -> {1, 2}] /\ high \in [new -> 1..5]
  BY <1>1, <1>2
<1> HIDE DEF own, place, high
<1>7. ASSUME NEW c \in new
      PROVE  /\ place[c] \in DOMAIN ChildrenOf(more[own[c]])
             /\ ChildrenOf(more[own[c]])[place[c]] = c
             /\ high[c] = (IF own[c] = k THEN 0 ELSE high[own[c]]) + 1
  <2> HIDE DEF new
  <2>1. CASE c = n + 1
    BY <1>1, <1>3, <1>4, <1>5, <2>1
  <2>2. CASE c = n + 2
    BY <1>1, <1>3, <1>4, <1>5, <2>2
  <2>3. CASE c = n + 3
    BY <1>1, <1>3, <1>4, <1>5, <2>3
  <2>4. CASE c = n + 4
    BY <1>1, <1>3, <1>4, <1>5, <2>4
  <2>5. CASE c = n + 5
    BY <1>1, <1>3, <1>4, <1>5, <2>5
  <2> QED BY <1>2, <2>1, <2>2, <2>3, <2>4, <2>5
<1>8. ASSUME NEW p \in {k} \cup new, NEW i \in DOMAIN ChildrenOf(more[p]),
             ChildrenOf(more[p])[i] # NoBlock
      PROVE  LET c == ChildrenOf(more[p])[i] IN c \in new /\ own[c] = p /\ place[c] = i
  <2> HIDE DEF new
  <2>1. CASE p = k
    BY <1>1, <1>2, <1>3, <1>4, <1>8, <2>1
  <2>2. CASE p = n + 3
    BY <1>1, <1>2, <1>3, <1>4, <1>8, <2>2
  <2>3. CASE p = n + 5
    BY <1>1, <1>2, <1>3, <1>4, <1>8, <2>3
  <2>4. CASE p \in {n + 1, n + 2, n + 4}
    BY <1>1, <2>4
  <2> QED BY <1>2, <2>1, <2>2, <2>3, <2>4
<1>9. Grows(blocks, more, k, own, place, high)
  <2>1. /\ Len(more) - n = 5 /\ n <= Len(more) /\ Len(more) \in Nat
        /\ new = (n + 1)..Len(more)
    BY <1>1
  <2> HIDE DEF new
  <2> QED BY ZenonT(60), <1>1, <1>6, <1>7, <1>8, <2>1 DEF Grows
<1>10. /\ IsBlockTree(more)
       /\ \A x \in 1..n :
            /\ Depth(more, x) = Depth(blocks, x) /\ Depth(blocks, x) \in Nat
            /\ LoopsAround(more, x) = LoopsAround(blocks, x)
       /\ \A c \in new :
            /\ Depth(more, c) = Depth(more, own[c]) + Below(more[own[c]])
            /\ LoopsAround(more, c) = LoopsAround(more, own[c]) \cup LoopOf(more, own[c])
  <2>1. new = (n + 1)..Len(more)
    BY <1>1
  <2> HIDE DEF new
  <2> QED BY <1>9, <2>1, Grown
<1> HIDE DEF new
<1>11. /\ Below(more[k]) = 1 /\ Below(more[n + 3]) = 0 /\ Below(more[n + 5]) = 0
       /\ LoopOf(more, k) = {} /\ LoopOf(more, n + 3) = {} /\ LoopOf(more, n + 5) = {}
  BY Children DEF BreakGrown, Below, LoopOf, Scoping
<1>12. PICK d, loops : /\ d \in Nat /\ d = Depth(more, k) /\ d = Depth(blocks, k)
                       /\ loops = LoopsAround(more, k) /\ loops = LoopsAround(blocks, k)
  BY <1>1, <1>10
<1>13. /\ Depth(more, n + 3) = d + 1
       /\ Depth(more, n + 2) = Depth(more, n + 3) + 0
       /\ Depth(more, n + 5) = Depth(more, n + 3) + 0
       /\ Depth(more, n + 4) = Depth(more, n + 5) + 0
  BY <1>2, <1>3, <1>10, <1>11, <1>12
<1>14. /\ LoopsAround(more, n + 3) = loops \cup LoopOf(more, k)
       /\ LoopsAround(more, n + 2) = LoopsAround(more, n + 3) \cup LoopOf(more, n + 3)
       /\ LoopsAround(more, n + 5) = LoopsAround(more, n + 3) \cup LoopOf(more, n + 3)
       /\ LoopsAround(more, n + 4) = LoopsAround(more, n + 5) \cup LoopOf(more, n + 5)
  BY <1>2, <1>3, <1>10, <1>12
<1>15. /\ Depth(more, n + 2) = d + 1 /\ Depth(more, n + 4) = d + 1
  BY <1>11, <1>12, <1>13
<1>16. /\ LoopsAround(more, n + 2) = loops
       /\ LoopsAround(more, n + 4) = loops
  BY <1>11, <1>14
<1> QED BY <1>10, <1>12, <1>15, <1>16 DEF SameTree, BreakTree

\* frontend_declare_var
VarGrown(blocks, more, k) ==
  LET n == Len(blocks) IN
  /\ Kept(blocks, more, k, 4)
  /\ more[k] = Many(n + 1, n + 3)
  /\ more[n + 1].kind = "BASIC"
  /\ more[n + 2].kind = "VAR" /\ ChildrenOf(more[n + 2]) = <<n + 4>>
  /\ more[n + 3] = Chain(n + 2, NoBlock)
  /\ more[n + 4].kind = "BASIC"

VarTree(blocks, more, k) ==
  LET n == Len(blocks)
      d == Depth(blocks, k)
      loops == LoopsAround(blocks, k)
  IN /\ SameTree(blocks, more) /\ d \in Nat
     /\ Depth(more, n + 4) = d + 2
     /\ LoopsAround(more, n + 4) = loops

LEMMA VarGrows ==
  ASSUME NEW blocks, IsBlockTree(blocks), NEW more, NEW k, VarGrown(blocks, more, k)
  PROVE  VarTree(blocks, more, k)
<1> DEFINE n == Len(blocks)
           new == (n + 1)..(n + 4)
           own == [c \in new |->
             IF c \in {n + 1, n + 3} THEN k ELSE IF c = n + 2 THEN n + 3 ELSE n + 2]
           place == [c \in new |-> IF c \in {n + 1, n + 2, n + 4} THEN 1 ELSE 2]
           high == [c \in new |->
             IF c \in {n + 1, n + 3} THEN 1 ELSE IF c = n + 2 THEN 2 ELSE 3]
<1>1. /\ n \in Nat /\ k \in 1..n /\ Len(more) = n + 4 /\ DOMAIN more = 1..(n + 4)
      /\ ChildrenOf(blocks[k]) = <<>>
      /\ ChildrenOf(more[k]) = <<n + 1, n + 3>> /\ ChildrenOf(more[n + 1]) = <<>>
      /\ ChildrenOf(more[n + 2]) = <<n + 4>>
      /\ ChildrenOf(more[n + 3]) = <<n + 2, NoBlock>> /\ ChildrenOf(more[n + 4]) = <<>>
      /\ \A i \in 1..n : i # k => more[i] = blocks[i]
  BY Children DEF VarGrown, Kept
<1>2. new = {n + 1, n + 2, n + 3, n + 4}
  BY ONLY n \in Nat, Seven
<1>3. /\ own[n + 1] = k /\ own[n + 2] = n + 3 /\ own[n + 3] = k
      /\ own[n + 4] = n + 2
  BY <1>1
<1>4. /\ place[n + 1] = 1 /\ place[n + 2] = 1 /\ place[n + 3] = 2
      /\ place[n + 4] = 1
  BY <1>1
<1>5. /\ high[n + 1] = 1 /\ high[n + 2] = 2 /\ high[n + 3] = 1
      /\ high[n + 4] = 3
  BY <1>1
<1>6. own \in [new -> {k} \cup new] /\ place \in [new -> {1, 2}] /\ high \in [new -> 1..4]
  BY <1>1, <1>2
<1> HIDE DEF own, place, high
<1>7. ASSUME NEW c \in new
      PROVE  /\ place[c] \in DOMAIN ChildrenOf(more[own[c]])
             /\ ChildrenOf(more[own[c]])[place[c]] = c
             /\ high[c] = (IF own[c] = k THEN 0 ELSE high[own[c]]) + 1
  <2> HIDE DEF new
  <2>1. CASE c = n + 1
    BY <1>1, <1>3, <1>4, <1>5, <2>1
  <2>2. CASE c = n + 2
    BY <1>1, <1>3, <1>4, <1>5, <2>2
  <2>3. CASE c = n + 3
    BY <1>1, <1>3, <1>4, <1>5, <2>3
  <2>4. CASE c = n + 4
    BY <1>1, <1>3, <1>4, <1>5, <2>4
  <2> QED BY <1>2, <2>1, <2>2, <2>3, <2>4
<1>8. ASSUME NEW p \in {k} \cup new, NEW i \in DOMAIN ChildrenOf(more[p]),
             ChildrenOf(more[p])[i] # NoBlock
      PROVE  LET c == ChildrenOf(more[p])[i] IN c \in new /\ own[c] = p /\ place[c] = i
  <2> HIDE DEF new
  <2>1. CASE p = k
    BY <1>1, <1>2, <1>3, <1>4, <1>8, <2>1
  <2>2. CASE p = n + 2
    BY <1>1, <1>2, <1>3, <1>4, <1>8, <2>2
  <2>3. CASE p = n + 3
    BY <1>1, <1>2, <1>3, <1>4, <1>8, <2>3
  <2>4. CASE p \in {n + 1, n + 4}
    BY <1>1, <2>4
  <2> QED BY <1>2, <2>1, <2>2, <2>3, <2>4
<1>9. Grows(blocks, more, k, own, place, high)
  <2>1. /\ Len(more) - n = 4 /\ n <= Len(more) /\ Len(more) \in Nat
        /\ new = (n + 1)..Len(more)
    BY <1>1
  <2> HIDE DEF new
  <2> QED BY ZenonT(60), <1>1, <1>6, <1>7, <1>8, <2>1 DEF Grows
<1>10. /\ IsBlockTree(more)
       /\ \A x \in 1..n :
            /\ Depth(more, x) = Depth(blocks, x) /\ Depth(blocks, x) \in Nat
            /\ LoopsAround(more, x) = LoopsAround(blocks, x)
       /\ \A c \in new :
            /\ Depth(more, c) = Depth(more, own[c]) + Below(more[own[c]])
            /\ LoopsAround(more, c) = LoopsAround(more, own[c]) \cup LoopOf(more, own[c])
  <2>1. new = (n + 1)..Len(more)
    BY <1>1
  <2> HIDE DEF new
  <2> QED BY <1>9, <2>1, Grown
<1> HIDE DEF new
<1>11. /\ Below(more[k]) = 1 /\ Below(more[n + 2]) = 1 /\ Below(more[n + 3]) = 0
       /\ LoopOf(more, k) = {} /\ LoopOf(more, n + 2) = {} /\ LoopOf(more, n + 3) = {}
  BY Children DEF VarGrown, Below, LoopOf, Scoping
<1>12. PICK d, loops : /\ d \in Nat /\ d = Depth(more, k) /\ d = Depth(blocks, k)
                       /\ loops = LoopsAround(more, k) /\ loops = LoopsAround(blocks, k)
  BY <1>1, <1>10
<1>13. /\ Depth(more, n + 3) = d + 1
       /\ Depth(more, n + 2) = Depth(more, n + 3) + 0
       /\ Depth(more, n + 4) = Depth(more, n + 2) + 1
  BY <1>2, <1>3, <1>10, <1>11, <1>12
<1>14. /\ LoopsAround(more, n + 3) = loops \cup LoopOf(more, k)
       /\ LoopsAround(more, n + 2) = LoopsAround(more, n + 3) \cup LoopOf(more, n + 3)
       /\ LoopsAround(more, n + 4) = LoopsAround(more, n + 2) \cup LoopOf(more, n + 2)
  BY <1>2, <1>3, <1>10, <1>12
<1>15. /\ Depth(more, n + 4) = d + 2
  BY <1>11, <1>12, <1>13
<1>16. /\ LoopsAround(more, n + 4) = loops
  BY <1>11, <1>14
<1> QED BY <1>10, <1>12, <1>15, <1>16 DEF SameTree, VarTree

\* Nothing is added and no block becomes of another kind: a tree stays what it is.
Alike(blocks, more) ==
  LET n == Len(blocks) IN
  /\ n \in Nat /\ DOMAIN blocks = 1..n /\ Len(more) = n /\ DOMAIN more = 1..n
  /\ \A i \in 1..n :
       more[i].kind = blocks[i].kind /\ ChildrenOf(more[i]) = ChildrenOf(blocks[i])

LEMMA AlikeTree ==
  ASSUME NEW blocks, IsBlockTree(blocks), NEW more, Alike(blocks, more),
         NEW k \in 1..Len(blocks), blocks[k].kind = "BASIC"
  PROVE  /\ IsBlockTree(more)
         /\ \A x \in 1..Len(blocks) : /\ Depth(more, x) = Depth(blocks, x)
                                      /\ LoopsAround(more, x) = LoopsAround(blocks, x)
<1> DEFINE n == Len(blocks)
           new == (n + 1)..Len(more)
           none == [c \in new |-> 1]
<1>1. n \in Nat /\ Len(more) = n /\ new = {}
  BY DEF Alike
<1>2. ChildrenOf(blocks[k]) = <<>> /\ ChildrenOf(more[k]) = <<>>
  BY Children DEF Alike
<1>3. /\ none \in [new -> {k} \cup new] /\ none \in [new -> {1, 2}]
      /\ none \in [new -> 1..(Len(more) - n)]
  BY <1>1
<1>4. Grows(blocks, more, k, none, none, none)
  BY <1>1, <1>2, <1>3 DEF Grows, Alike
<1> HIDE DEF none
<1> QED BY <1>4, Grown

-----------------------------------------------------------------------------
(* What the frontend keeps while it builds the tree.                       *)

Fields == {"blocks", "ops", "vars", "names", "scopes", "current", "depth", "error",
           "cleanups", "stray_var"}
IsFrontend(f) == f = [x \in Fields |-> f[x]]

IsSequence(s) == Len(s) \in Nat /\ s = [i \in 1..Len(s) |-> s[i]]

IsBlock(b) ==
  /\ b = [x \in DOMAIN b |-> b[x]] /\ "kind" \in DOMAIN b
  /\ b.kind \in BlockKinds
  /\ b.kind = "BRANCH" => "yes" \in DOMAIN b /\ "no" \in DOMAIN b

ScopeFields == {"kind", "phase", "block", "first", "second", "after", "parent_depth",
                "break_depth", "continue_depth", "delimiter_depth", "implicit_end"}

\* Parentheses are counted in a condition and in the cleanup of a prefix Defer.
Counts(s) ==
  \/ s.kind = "IF" /\ s.phase = "CONDITION"
  \/ s.kind = "EPILOGUE" /\ s.implicit_end /\ s.phase = "CLEANUP"

\* A block operations go to, or what became of one that they went to.
Soft(blocks, k) == k \in DOMAIN blocks /\ blocks[k].kind \in {"BASIC", "MANY"}

MiddleKind(kind) ==
  CASE kind = "LOOP" -> "LOOP" [] kind = "IF" -> "BRANCH" [] kind = "EPILOGUE" -> "DEFER"

ScopeOK(s, blocks) ==
  /\ s = [x \in ScopeFields |-> s[x]]
  /\ s.implicit_end \in BOOLEAN
  /\ \/ s.kind = "LOOP" /\ s.phase = "BODY"
     \/ s.kind = "IF" /\ s.phase \in {"WAIT_OPEN", "CONDITION", "BODY", "ELSE_BODY"}
     \/ /\ s.kind = "EPILOGUE"
        /\ s.phase \in {"BODY", "CLEANUP"} \cup
             {p \in {"CLEANUP_WAIT_OPEN"} : s.implicit_end}
  /\ s.parent_depth \in Nat /\ s.break_depth \in Nat /\ s.continue_depth \in Nat
  /\ s.delimiter_depth \in Nat /\ (s.delimiter_depth > 0 => Counts(s))
  /\ s.block \in DOMAIN blocks /\ blocks[s.block].kind = MiddleKind(s.kind)
  /\ s.first \in DOMAIN blocks /\ (s.kind # "LOOP" => Soft(blocks, s.first))
  /\ s.kind # "LOOP" => Soft(blocks, s.second)
  /\ Soft(blocks, s.after)
  /\ s.first # s.after /\ s.second # s.after /\ s.first # s.second

\* The types, of any source.
Typed(f) ==
  /\ IsFrontend(f)
  /\ IsSequence(f.blocks) /\ \A k \in 1..Len(f.blocks) : IsBlock(f.blocks[k])
  /\ IsSequence(f.scopes) /\ \A i \in 1..Len(f.scopes) : ScopeOK(f.scopes[i], f.blocks)
  /\ Soft(f.blocks, f.current)
  /\ f.depth \in Nat
  /\ f.error \in {"OK", "BAD_CONTROL_FLOW", "DUPLICATE_VAR", "UNKNOWN_WORD"}
  /\ f.cleanups \subseteq 1..Len(f.blocks)
  /\ f.stray_var \in BOOLEAN

\* The blocks of scope s that are not continued at yet, and will be.
AwaitsFirst(s) == s.kind = "EPILOGUE" /\ s.implicit_end /\ s.phase # "BODY"
AwaitsSecond(s) ==
  \/ s.kind = "IF" /\ s.phase # "ELSE_BODY"
  \/ s.kind = "EPILOGUE" /\ ~s.implicit_end /\ s.phase = "BODY"
Awaits(s) ==
  {s.after} \cup {k \in {s.first} : AwaitsFirst(s)} \cup {k \in {s.second} : AwaitsSecond(s)}

Waits(s) == s.phase \in {"WAIT_OPEN", "CONDITION", "CLEANUP_WAIT_OPEN"}

\* The current block and the awaited ones are BASIC, and no two of them are the same.
\* Only the innermost scope waits for a parenthesis or reads a condition; a cleanup that
\* is read and is BASIC is the current block.
Placed(blocks, scopes, current) ==
  /\ current \in DOMAIN blocks /\ blocks[current].kind = "BASIC"
  /\ \A i \in 1..Len(scopes) : \A k \in Awaits(scopes[i]) :
       /\ blocks[k].kind = "BASIC" /\ k # current
       /\ \A j \in 1..Len(scopes) : k \in Awaits(scopes[j]) => i = j
  /\ \A i \in 1..Len(scopes) :
       /\ Waits(scopes[i]) => i = Len(scopes)
       /\ scopes[i].kind = "IF" /\ Waits(scopes[i]) => current = scopes[i].first
       /\ AwaitsFirst(scopes[i]) /\ blocks[scopes[i].second].kind = "BASIC" =>
            i = Len(scopes) /\ current = scopes[i].second

\* The loops around the current block are the open ones, and those around a block that
\* is awaited the ones that are open when it is continued at.
LoopBlocks(scopes, n) == {scopes[i].block : i \in {i \in 1..n : scopes[i].kind = "LOOP"}}
InLoops(blocks, scopes, current) ==
  /\ LoopsAround(blocks, current) = LoopBlocks(scopes, Len(scopes))
  /\ \A i \in 1..Len(scopes) :
       /\ \A k \in Awaits(scopes[i]) : LoopsAround(blocks, k) = LoopBlocks(scopes, i - 1)
       /\ scopes[i].kind = "LOOP" =>
            LoopsAround(blocks, scopes[i].block) = LoopBlocks(scopes, i - 1)

\* The depths the frontend keeps are those in the tree.
DeepScope(blocks, s) ==
  /\ Depth(blocks, s.after) = s.parent_depth + 1
  /\ s.kind = "IF" => Depth(blocks, s.second) = s.parent_depth + 1
  /\ s.kind = "EPILOGUE" => /\ Depth(blocks, s.first) = s.parent_depth + 2
                            /\ Depth(blocks, s.second) = s.parent_depth + 2
  /\ s.kind = "LOOP" => /\ Depth(blocks, s.block) = s.parent_depth + 1
                        /\ s.break_depth = s.parent_depth + 2
                        /\ s.continue_depth = s.parent_depth + 3
Deep(blocks, scopes, current, depth) ==
  /\ depth = Depth(blocks, current)
  /\ \A i \in 1..Len(scopes) : DeepScope(blocks, scopes[i])

Plain(f) == \A k \in f.cleanups : f.blocks[k].kind = "BASIC"

\* The tree, of a source without a declaration in a condition.
Built(f) ==
  /\ IsBlockTree(f.blocks)
  /\ Placed(f.blocks, f.scopes, f.current)
  /\ InLoops(f.blocks, f.scopes, f.current)
  /\ Plain(f) => Deep(f.blocks, f.scopes, f.current, f.depth)

ReadingInv(f) == Typed(f) /\ (~f.stray_var => Built(f))

\* The scopes that stay in place.
LEMMA SameScopes ==
  ASSUME NEW scopes, NEW more, NEW n \in Nat, \A i \in 1..n : more[i] = scopes[i]
  PROVE  \A i \in 0..n : LoopBlocks(more, i) = LoopBlocks(scopes, i)
BY DEF LoopBlocks

LEMMA AwaitedInside ==
  ASSUME NEW f, Typed(f)
  PROVE  \A i \in 1..Len(f.scopes) :
           /\ f.scopes[i].block \in 1..Len(f.blocks)
           /\ \A k \in Awaits(f.scopes[i]) : k \in 1..Len(f.blocks)
<1>1. DOMAIN f.blocks = 1..Len(f.blocks)
  BY DEF Typed, IsSequence
<1>2. ASSUME NEW i \in 1..Len(f.scopes)
      PROVE  /\ f.scopes[i].block \in 1..Len(f.blocks)
             /\ \A k \in Awaits(f.scopes[i]) : k \in 1..Len(f.blocks)
  <2>1. ScopeOK(f.scopes[i], f.blocks)
    BY DEF Typed
  <2> QED BY <1>1, <2>1 DEF ScopeOK, Awaits, AwaitsSecond, Soft
<1> QED BY <1>2

Quiet(f) == f.scopes = <<>> \/ ~Waits(Top(f))

LEMMA QuietScopes ==
  ASSUME NEW f, Typed(f), Built(f), Quiet(f)
  PROVE  \A i \in 1..Len(f.scopes) : ~Waits(f.scopes[i])
<1>1. IsSequence(f.scopes) /\ Placed(f.blocks, f.scopes, f.current)
  BY DEF Typed, Built
<1>2. ASSUME NEW i \in 1..Len(f.scopes), Waits(f.scopes[i]) PROVE FALSE
  <2>1. i = Len(f.scopes) /\ f.scopes # <<>>
    BY <1>1, <1>2 DEF Placed, IsSequence
  <2> QED BY <1>2, <2>1 DEF Quiet, Top, Last
<1> QED BY <1>2

\* The tree has grown below the current block, which is MANY now.
Grew(f, g, added) ==
  /\ Kept(f.blocks, g.blocks, f.current, added) /\ added \in Nat
  /\ g.blocks[f.current].kind = "MANY"
  /\ IsBlockTree(g.blocks)
  /\ \A x \in 1..Len(f.blocks) :
       /\ Depth(g.blocks, x) = Depth(f.blocks, x)
       /\ LoopsAround(g.blocks, x) = LoopsAround(f.blocks, x)
  /\ g.cleanups = f.cleanups

LEMMA GrewPlain ==
  ASSUME NEW f, Typed(f), NEW g, NEW added, Grew(f, g, added), Plain(g)
  PROVE  Plain(f)
<1> SUFFICES ASSUME NEW k \in f.cleanups PROVE f.blocks[k].kind = "BASIC"
  BY DEF Plain
<1>1. k \in 1..Len(f.blocks) /\ k \in g.cleanups
  BY DEF Typed, Grew
<1>2. g.blocks[k].kind = "BASIC"
  BY <1>1 DEF Plain
<1> QED BY <1>1, <1>2 DEF Grew, Kept

LEMMA GrewScopes ==
  ASSUME NEW f, Typed(f), Built(f), NEW g, NEW added, Grew(f, g, added),
         NEW i \in 1..Len(f.scopes), NEW s, s = f.scopes[i]
  PROVE  /\ \A k \in Awaits(s) :
              /\ k \in 1..Len(f.blocks) /\ g.blocks[k].kind = "BASIC"
              /\ LoopsAround(g.blocks, k) = LoopBlocks(f.scopes, i - 1)
         /\ ~(AwaitsFirst(s) /\ g.blocks[s.second].kind = "BASIC")
         /\ s.kind = "LOOP" =>
              LoopsAround(g.blocks, s.block) = LoopBlocks(f.scopes, i - 1)
         /\ Plain(g) => DeepScope(g.blocks, s)
<1> DEFINE n == Len(f.blocks)
<1>1. /\ ScopeOK(s, f.blocks) /\ DOMAIN f.blocks = 1..n
      /\ Placed(f.blocks, f.scopes, f.current) /\ InLoops(f.blocks, f.scopes, f.current)
      /\ Plain(f) => Deep(f.blocks, f.scopes, f.current, f.depth)
  BY DEF Typed, Built, IsSequence
<1>2. /\ \A x \in 1..n : x # f.current => g.blocks[x] = f.blocks[x]
      /\ g.blocks[f.current].kind = "MANY"
      /\ \A x \in 1..n : /\ Depth(g.blocks, x) = Depth(f.blocks, x)
                         /\ LoopsAround(g.blocks, x) = LoopsAround(f.blocks, x)
  BY DEF Grew, Kept
<1>3. s.block \in 1..n /\ \A k \in Awaits(s) : k \in 1..n
  BY AwaitedInside
<1>4. \A k \in Awaits(s) :
        /\ g.blocks[k].kind = "BASIC"
        /\ LoopsAround(g.blocks, k) = LoopBlocks(f.scopes, i - 1)
  <2> SUFFICES ASSUME NEW k \in Awaits(s)
               PROVE  /\ g.blocks[k].kind = "BASIC"
                      /\ LoopsAround(g.blocks, k) = LoopBlocks(f.scopes, i - 1)
    OBVIOUS
  <2>1. f.blocks[k].kind = "BASIC" /\ k # f.current /\ k \in 1..n
    BY <1>1, <1>3 DEF Placed
  <2>2. LoopsAround(f.blocks, k) = LoopBlocks(f.scopes, i - 1)
    BY <1>1 DEF InLoops
  <2> QED BY <1>2, <2>1, <2>2
<1>5. ASSUME AwaitsFirst(s), g.blocks[s.second].kind = "BASIC" PROVE FALSE
  <2>1. s.second \in 1..n
    BY <1>1, <1>5 DEF ScopeOK, Soft, AwaitsFirst
  <2>2. s.second # f.current /\ f.blocks[s.second].kind = "BASIC"
    BY <1>2, <1>5, <2>1
  <2> QED BY <1>1, <1>5, <2>2 DEF Placed
<1>6. s.kind = "LOOP" => LoopsAround(g.blocks, s.block) = LoopBlocks(f.scopes, i - 1)
  BY <1>1, <1>2, <1>3 DEF InLoops
<1>7. ASSUME Plain(g) PROVE DeepScope(g.blocks, s)
  <2>1. DeepScope(f.blocks, s)
    BY <1>1, <1>7, GrewPlain DEF Deep
  <2>2. s.after \in 1..n /\ s.block \in 1..n /\ s.first \in 1..n
        /\ (s.kind # "LOOP" => s.second \in 1..n)
    BY <1>1 DEF ScopeOK, Soft
  <2> QED BY <1>2, <2>1, <2>2 DEF DeepScope
<1> QED BY <1>3, <1>4, <1>5, <1>6, <1>7

\* A form was opened: a scope more, whose blocks are new.
LEMMA PushKeeps ==
  ASSUME NEW f, Typed(f), Built(f), Quiet(f), NEW g, NEW added, Grew(f, g, added),
         NEW s, g.scopes = Append(f.scopes, s), ScopeOK(s, g.blocks),
         g.current \in (Len(f.blocks) + 1)..Len(g.blocks),
         g.blocks[g.current].kind = "BASIC",
         LoopsAround(g.blocks, g.current) =
           LoopsAround(f.blocks, f.current) \cup {k \in {s.block} : s.kind = "LOOP"},
         s.kind = "LOOP" =>
           LoopsAround(g.blocks, s.block) = LoopsAround(f.blocks, f.current),
         \A k \in Awaits(s) :
           /\ k \in (Len(f.blocks) + 1)..Len(g.blocks) /\ k # g.current
           /\ g.blocks[k].kind = "BASIC"
           /\ LoopsAround(g.blocks, k) = LoopsAround(f.blocks, f.current),
         s.kind = "IF" /\ Waits(s) => g.current = s.first,
         AwaitsFirst(s) => g.current = s.second,
         f.depth = Depth(f.blocks, f.current) =>
           g.depth = Depth(g.blocks, g.current) /\ DeepScope(g.blocks, s)
  PROVE  Built(g)
<1> DEFINE n == Len(f.blocks)
           m == Len(f.scopes)
<1>1. /\ n \in Nat /\ Len(g.blocks) \in Nat /\ DOMAIN g.blocks = 1..Len(g.blocks)
      /\ n <= Len(g.blocks)
  BY DEF Grew, Kept
<1>2. /\ m \in Nat /\ Len(g.scopes) = m + 1 /\ g.scopes[m + 1] = s
      /\ \A i \in 1..m : g.scopes[i] = f.scopes[i]
  BY DEF Typed, IsSequence
<1>3. \A i \in 1..(m + 1) : i = m + 1 \/ i \in 1..m
  BY <1>2
<1>4. \A i \in 1..m :
        /\ \A k \in Awaits(g.scopes[i]) :
             /\ k \in 1..n /\ g.blocks[k].kind = "BASIC"
             /\ LoopsAround(g.blocks, k) = LoopBlocks(f.scopes, i - 1)
        /\ ~(AwaitsFirst(g.scopes[i]) /\ g.blocks[g.scopes[i].second].kind = "BASIC")
        /\ g.scopes[i].kind = "LOOP" =>
             LoopsAround(g.blocks, g.scopes[i].block) = LoopBlocks(f.scopes, i - 1)
        /\ Plain(g) => DeepScope(g.blocks, g.scopes[i])
  BY <1>2, GrewScopes
<1>5. \A i \in 1..m : ~Waits(g.scopes[i])
  BY <1>2, QuietScopes
<1>6. Placed(g.blocks, g.scopes, g.current)
  <2>1. ASSUME NEW i \in 1..(m + 1), NEW k \in Awaits(g.scopes[i])
        PROVE  g.blocks[k].kind = "BASIC" /\ k # g.current
    BY <1>1, <1>2, <1>3, <1>4
  <2>2. ASSUME NEW i \in 1..(m + 1), NEW k \in Awaits(g.scopes[i]),
               NEW j \in 1..(m + 1), k \in Awaits(g.scopes[j])
        PROVE  i = j
    <3>1. CASE i \in 1..m /\ j \in 1..m
      <4>1. k \in Awaits(f.scopes[i]) /\ k \in Awaits(f.scopes[j])
        BY <1>2, <2>2, <3>1
      <4> QED BY <3>1, <4>1 DEF Built, Placed
    <3>2. ASSUME NEW q \in 1..m, k \in Awaits(g.scopes[q]), k \in Awaits(s) PROVE FALSE
      <4>1. k \in 1..n
        BY <1>4, <3>2
      <4>2. k \in (n + 1)..Len(g.blocks)
        BY <3>2
      <4> QED BY <1>1, <4>1, <4>2
    <3>3. CASE i = m + 1 \/ j = m + 1
      BY <1>2, <1>3, <2>2, <3>2, <3>3
    <3> QED BY <1>3, <3>1, <3>3
  <2>3. ASSUME NEW i \in 1..(m + 1)
        PROVE  /\ Waits(g.scopes[i]) => i = m + 1
               /\ g.scopes[i].kind = "IF" /\ Waits(g.scopes[i]) =>
                    g.current = g.scopes[i].first
               /\ AwaitsFirst(g.scopes[i]) /\ g.blocks[g.scopes[i].second].kind = "BASIC" =>
                    i = m + 1 /\ g.current = g.scopes[i].second
    BY <1>2, <1>3, <1>4, <1>5
  <2>4. g.current \in DOMAIN g.blocks
    BY <1>1
  <2> QED BY <1>2, <2>1, <2>2, <2>3, <2>4 DEF Placed
<1>7. InLoops(g.blocks, g.scopes, g.current)
  <2>0. m \in Nat /\ \A i \in 1..m : g.scopes[i] = f.scopes[i]
    BY <1>2
  <2>1. \A i \in 0..m : LoopBlocks(g.scopes, i) = LoopBlocks(f.scopes, i)
    BY ONLY <2>0, SameScopes
  <2>2. LoopsAround(f.blocks, f.current) = LoopBlocks(f.scopes, m)
    BY DEF Built, InLoops
  <2>3. LoopBlocks(g.scopes, m + 1) =
          LoopBlocks(g.scopes, m) \cup {k \in {s.block} : s.kind = "LOOP"}
    BY <1>2, <1>3 DEF LoopBlocks
  <2>4. LoopsAround(g.blocks, g.current) = LoopBlocks(g.scopes, m + 1)
    BY <1>2, <2>1, <2>2, <2>3
  <2>5. ASSUME NEW i \in 1..m
        PROVE  /\ \A k \in Awaits(g.scopes[i]) :
                    LoopsAround(g.blocks, k) = LoopBlocks(g.scopes, i - 1)
               /\ g.scopes[i].kind = "LOOP" =>
                    LoopsAround(g.blocks, g.scopes[i].block) = LoopBlocks(g.scopes, i - 1)
    <3>1. i - 1 \in 0..m
      BY <1>2
    <3> QED BY <1>4, <2>1, <3>1
  <2>6. /\ \A k \in Awaits(s) : LoopsAround(g.blocks, k) = LoopBlocks(g.scopes, m)
        /\ s.kind = "LOOP" => LoopsAround(g.blocks, s.block) = LoopBlocks(g.scopes, m)
    BY <1>2, <2>1, <2>2
  <2>7. (m + 1) - 1 = m
    BY <1>2
  <2> QED BY <1>2, <1>3, <2>4, <2>5, <2>6, <2>7 DEF InLoops
<1>8. ASSUME Plain(g) PROVE Deep(g.blocks, g.scopes, g.current, g.depth)
  <2>1. Plain(f)
    BY <1>8, GrewPlain
  <2>2. f.depth = Depth(f.blocks, f.current)
    BY <2>1 DEF Built, Deep
  <2> QED BY <1>2, <1>3, <1>4, <1>8, <2>2 DEF Deep
<1> QED BY <1>6, <1>7, <1>8 DEF Built, Grew

\* The tree has grown, and what follows goes to a new block.
LEMMA GrowKeeps ==
  ASSUME NEW f, Typed(f), Built(f), NEW g, NEW added, Grew(f, g, added),
         g.scopes = f.scopes,
         f.scopes = <<>> \/ ~(Top(f).kind = "IF" /\ Waits(Top(f))),
         g.current \in (Len(f.blocks) + 1)..Len(g.blocks),
         g.blocks[g.current].kind = "BASIC",
         LoopsAround(g.blocks, g.current) = LoopsAround(f.blocks, f.current),
         f.depth = Depth(f.blocks, f.current) => g.depth = Depth(g.blocks, g.current)
  PROVE  Built(g)
<1> DEFINE n == Len(f.blocks)
           m == Len(f.scopes)
<1>1. /\ n \in Nat /\ Len(g.blocks) \in Nat /\ DOMAIN g.blocks = 1..Len(g.blocks)
      /\ n <= Len(g.blocks)
  BY DEF Grew, Kept
<1>2. m \in Nat /\ IsSequence(f.scopes)
  BY DEF Typed, IsSequence
<1>3. \A i \in 1..m :
        /\ \A k \in Awaits(f.scopes[i]) :
             /\ k \in 1..n /\ g.blocks[k].kind = "BASIC"
             /\ LoopsAround(g.blocks, k) = LoopBlocks(f.scopes, i - 1)
        /\ ~(AwaitsFirst(f.scopes[i]) /\ g.blocks[f.scopes[i].second].kind = "BASIC")
        /\ f.scopes[i].kind = "LOOP" =>
             LoopsAround(g.blocks, f.scopes[i].block) = LoopBlocks(f.scopes, i - 1)
        /\ Plain(g) => DeepScope(g.blocks, f.scopes[i])
  BY GrewScopes
<1>4. Placed(g.blocks, f.scopes, g.current)
  <2>1. ASSUME NEW i \in 1..m, NEW k \in Awaits(f.scopes[i])
        PROVE  /\ g.blocks[k].kind = "BASIC" /\ k # g.current
               /\ \A j \in 1..m : k \in Awaits(f.scopes[j]) => i = j
    <3>1. g.blocks[k].kind = "BASIC" /\ k # g.current
      BY <1>1, <1>3
    <3>2. \A j \in 1..m : k \in Awaits(f.scopes[j]) => i = j
      BY DEF Built, Placed
    <3> QED BY <3>1, <3>2
  <2>2. ASSUME NEW i \in 1..m
        PROVE  /\ Waits(f.scopes[i]) => i = m
               /\ ~(f.scopes[i].kind = "IF" /\ Waits(f.scopes[i]))
    <3>1. Waits(f.scopes[i]) => i = m
      BY DEF Built, Placed
    <3>2. f.scopes # <<>> /\ Top(f) = f.scopes[m]
      BY <1>2 DEF Top, Last, IsSequence
    <3> QED BY <3>1, <3>2
  <2>3. g.current \in DOMAIN g.blocks
    BY <1>1
  <2> QED BY <1>3, <2>1, <2>2, <2>3 DEF Placed
<1>5. InLoops(g.blocks, f.scopes, g.current)
  BY <1>3 DEF Built, InLoops
<1>6. ASSUME Plain(g) PROVE Deep(g.blocks, f.scopes, g.current, g.depth)
  <2>1. f.depth = Depth(f.blocks, f.current)
    BY <1>6, GrewPlain DEF Built, Deep
  <2> QED BY <1>3, <1>6, <2>1 DEF Deep
<1> QED BY <1>4, <1>5, <1>6 DEF Built, Grew

\* Nothing is added to the tree and no block becomes of another kind.
Still(f, g) ==
  /\ Alike(f.blocks, g.blocks)
  /\ f.cleanups \subseteq g.cleanups

LEMMA StillTree ==
  ASSUME NEW f, Typed(f), Built(f), NEW g, Still(f, g)
  PROVE  /\ IsBlockTree(g.blocks)
         /\ DOMAIN f.blocks = 1..Len(f.blocks) /\ DOMAIN g.blocks = 1..Len(f.blocks)
         /\ \A x \in 1..Len(f.blocks) : /\ Depth(g.blocks, x) = Depth(f.blocks, x)
                                        /\ LoopsAround(g.blocks, x) = LoopsAround(f.blocks, x)
                                        /\ g.blocks[x].kind = f.blocks[x].kind
         /\ Plain(g) => Plain(f)
         /\ f.current \in 1..Len(f.blocks) /\ f.blocks[f.current].kind = "BASIC"
<1>1. /\ DOMAIN f.blocks = 1..Len(f.blocks) /\ DOMAIN g.blocks = 1..Len(f.blocks)
      /\ \A x \in 1..Len(f.blocks) : g.blocks[x].kind = f.blocks[x].kind
  BY DEF Still, Alike
<1>2. f.current \in 1..Len(f.blocks) /\ f.blocks[f.current].kind = "BASIC"
  BY <1>1 DEF Built, Placed
<1>3. /\ IsBlockTree(g.blocks)
      /\ \A x \in 1..Len(f.blocks) : /\ Depth(g.blocks, x) = Depth(f.blocks, x)
                                     /\ LoopsAround(g.blocks, x) = LoopsAround(f.blocks, x)
  BY <1>2, AlikeTree DEF Still, Built
<1>4. Plain(g) => Plain(f)
  BY <1>1 DEF Plain, Still, Typed
<1> QED BY <1>1, <1>2, <1>3, <1>4

\* A scope that stays, with the blocks it awaits.
StaysAwaited(f, g, i) ==
  \A k \in Awaits(f.scopes[i]) :
    /\ k \in 1..Len(f.blocks) /\ g.blocks[k].kind = "BASIC" /\ k # f.current
    /\ LoopsAround(g.blocks, k) = LoopBlocks(f.scopes, i - 1)
    /\ \A j \in 1..Len(f.scopes) : k \in Awaits(f.scopes[j]) => i = j
Rests(f, g, i) ==
  /\ Waits(f.scopes[i]) => i = Len(f.scopes)
  /\ f.scopes[i].kind = "IF" /\ Waits(f.scopes[i]) => f.current = f.scopes[i].first
  /\ AwaitsFirst(f.scopes[i]) /\ g.blocks[f.scopes[i].second].kind = "BASIC" =>
       i = Len(f.scopes) /\ f.current = f.scopes[i].second
StaysAround(f, g, i) ==
  f.scopes[i].kind = "LOOP" =>
    LoopsAround(g.blocks, f.scopes[i].block) = LoopBlocks(f.scopes, i - 1)
StaysDeep(f, g, i) ==
  Plain(g) => DeepScope(g.blocks, f.scopes[i]) /\ DeepScope(f.blocks, f.scopes[i])

LEMMA StillScope ==
  ASSUME NEW f, Typed(f), Built(f), NEW g, Still(f, g)
  PROVE  \A i \in 1..Len(f.scopes) :
           StaysAwaited(f, g, i) /\ Rests(f, g, i) /\ StaysAround(f, g, i)
           /\ StaysDeep(f, g, i)
<1> SUFFICES ASSUME NEW i \in 1..Len(f.scopes)
             PROVE  /\ StaysAwaited(f, g, i) /\ Rests(f, g, i)
                    /\ StaysAround(f, g, i) /\ StaysDeep(f, g, i)
  OBVIOUS
<1>0. PICK s, n : s = f.scopes[i] /\ n = Len(f.blocks)
  OBVIOUS
<1>1. /\ ScopeOK(s, f.blocks)
      /\ Placed(f.blocks, f.scopes, f.current) /\ InLoops(f.blocks, f.scopes, f.current)
      /\ Plain(f) => Deep(f.blocks, f.scopes, f.current, f.depth)
  BY <1>0 DEF Typed, Built
<1>2. /\ DOMAIN f.blocks = 1..n /\ DOMAIN g.blocks = 1..n
      /\ \A x \in 1..n : /\ Depth(g.blocks, x) = Depth(f.blocks, x)
                         /\ LoopsAround(g.blocks, x) = LoopsAround(f.blocks, x)
                         /\ g.blocks[x].kind = f.blocks[x].kind
      /\ Plain(g) => Plain(f)
  BY <1>0, StillTree
<1>3. s.block \in 1..n /\ \A k \in Awaits(s) : k \in 1..n
  BY <1>0, AwaitedInside
<1>4. StaysAwaited(f, g, i)
  <2> SUFFICES ASSUME NEW k \in Awaits(s)
               PROVE  /\ k \in 1..n /\ g.blocks[k].kind = "BASIC" /\ k # f.current
                      /\ LoopsAround(g.blocks, k) = LoopBlocks(f.scopes, i - 1)
                      /\ \A j \in 1..Len(f.scopes) : k \in Awaits(f.scopes[j]) => i = j
    BY <1>0 DEF StaysAwaited
  <2>1. f.blocks[k].kind = "BASIC" /\ k # f.current /\ k \in 1..n
    BY <1>0, <1>1, <1>3 DEF Placed
  <2>2. LoopsAround(f.blocks, k) = LoopBlocks(f.scopes, i - 1)
    BY <1>0, <1>1 DEF InLoops
  <2>3. \A j \in 1..Len(f.scopes) : k \in Awaits(f.scopes[j]) => i = j
    BY <1>0, <1>1 DEF Placed
  <2> QED BY <1>2, <2>1, <2>2, <2>3
<1>5. Rests(f, g, i)
  <2>1. /\ Waits(s) => i = Len(f.scopes)
        /\ s.kind = "IF" /\ Waits(s) => f.current = s.first
    BY <1>0, <1>1 DEF Placed
  <2>2. ASSUME AwaitsFirst(s), g.blocks[s.second].kind = "BASIC"
        PROVE  i = Len(f.scopes) /\ f.current = s.second
    <3>1. s.second \in 1..n
      BY <1>1, <1>2, <2>2 DEF ScopeOK, Soft, AwaitsFirst
    <3> QED BY <1>0, <1>1, <1>2, <2>2, <3>1 DEF Placed
  <2> QED BY <1>0, <2>1, <2>2 DEF Rests
<1>7. StaysAround(f, g, i)
  BY <1>0, <1>1, <1>2, <1>3 DEF InLoops, StaysAround
<1>8. ASSUME Plain(g) PROVE DeepScope(g.blocks, s) /\ DeepScope(f.blocks, s)
  <2>1. DeepScope(f.blocks, s)
    BY <1>0, <1>1, <1>2, <1>8 DEF Deep
  <2>2. s.after \in 1..n /\ s.block \in 1..n /\ s.first \in 1..n
        /\ (s.kind # "LOOP" => s.second \in 1..n)
    BY <1>1, <1>2 DEF ScopeOK, Soft
  <2> QED BY <1>2, <2>1, <2>2 DEF DeepScope
<1> QED BY <1>0, <1>4, <1>5, <1>7, <1>8 DEF StaysDeep

\* The innermost form was closed.
LEMMA CloseKeeps ==
  ASSUME NEW f, Typed(f), Built(f), NEW g, Still(f, g), f.scopes # <<>>,
         Len(g.scopes) = Len(f.scopes) - 1,
         \A i \in 1..(Len(f.scopes) - 1) : g.scopes[i] = f.scopes[i],
         g.current = Top(f).after, g.depth = Top(f).parent_depth + 1
  PROVE  Built(g)
<1> DEFINE n == Len(f.blocks)
<1>0. PICK m \in Nat : Len(f.scopes) = m + 1 /\ Len(g.scopes) = m
  <2>1. Len(f.scopes) \in Nat /\ Len(f.scopes) # 0
    BY DEF Typed, IsSequence
  <2>2. Len(f.scopes) - 1 \in Nat
    BY <2>1
  <2> QED BY <2>1, <2>2
<1>1. /\ \A i \in 1..m : g.scopes[i] = f.scopes[i] /\ i \in 1..(m + 1) /\ i # m + 1
      /\ m + 1 \in 1..(m + 1) /\ (m + 1) - 1 = m
  BY <1>0
<1>2. PICK s : s = f.scopes[m + 1] /\ s = Top(f)
  BY <1>0 DEF Top, Last
<1>3. g.current \in Awaits(s)
  BY <1>2 DEF Awaits
<1>4. /\ StaysAwaited(f, g, m + 1)
      /\ Plain(g) => DeepScope(g.blocks, s)
  BY <1>0, <1>1, <1>2, StillScope DEF StaysDeep
<1>5. \A i \in 1..m :
        /\ StaysAwaited(f, g, i) /\ StaysAround(f, g, i) /\ StaysDeep(f, g, i)
        /\ ~Waits(f.scopes[i])
        /\ ~(AwaitsFirst(f.scopes[i]) /\ g.blocks[f.scopes[i].second].kind = "BASIC")
  <2> SUFFICES ASSUME NEW i \in 1..m
               PROVE  /\ StaysAwaited(f, g, i) /\ StaysAround(f, g, i) /\ StaysDeep(f, g, i)
                      /\ ~Waits(f.scopes[i])
                      /\ ~(/\ AwaitsFirst(f.scopes[i])
                           /\ g.blocks[f.scopes[i].second].kind = "BASIC")
    OBVIOUS
  <2>1. i \in 1..Len(f.scopes) /\ i # Len(f.scopes)
    BY <1>0
  <2>2. /\ StaysAwaited(f, g, i) /\ StaysAround(f, g, i) /\ StaysDeep(f, g, i)
        /\ Rests(f, g, i)
    BY <2>1, StillScope
  <2> QED BY <2>1, <2>2 DEF Rests
<1> HIDE DEF n
<1>6. /\ IsBlockTree(g.blocks) /\ DOMAIN g.blocks = 1..Len(f.blocks)
  BY StillTree
<1>7. Placed(g.blocks, g.scopes, g.current)
  <2>1. g.current \in DOMAIN g.blocks /\ g.blocks[g.current].kind = "BASIC"
    BY <1>2, <1>3, <1>4, <1>6 DEF StaysAwaited
  <2>2. ASSUME NEW i \in 1..m, NEW k \in Awaits(g.scopes[i])
        PROVE  /\ g.blocks[k].kind = "BASIC" /\ k # g.current
               /\ \A j \in 1..m : k \in Awaits(g.scopes[j]) => i = j
    <3>1. k \in Awaits(f.scopes[i])
      BY <1>1, <2>2
    <3>2. /\ g.blocks[k].kind = "BASIC"
          /\ \A j \in 1..(m + 1) : k \in Awaits(f.scopes[j]) => i = j
      BY <1>0, <1>5, <3>1 DEF StaysAwaited
    <3> QED BY <1>1, <1>2, <1>3, <3>2
  <2> QED BY <1>0, <1>1, <1>5, <2>1, <2>2 DEF Placed
<1>8. \A i \in 0..m : LoopBlocks(g.scopes, i) = LoopBlocks(f.scopes, i)
  <2>1. m \in Nat /\ \A i \in 1..m : g.scopes[i] = f.scopes[i]
    BY <1>1
  <2> QED BY ONLY <2>1, SameScopes
<1>9. InLoops(g.blocks, g.scopes, g.current)
  <2>1. m \in 0..m /\ \A i \in 1..m : i - 1 \in 0..m
    OBVIOUS
  <2> QED
    BY <1>0, <1>1, <1>2, <1>3, <1>4, <1>5, <1>8, <2>1
    DEF InLoops, StaysAround, StaysAwaited
<1>10. ASSUME Plain(g) PROVE Deep(g.blocks, g.scopes, g.current, g.depth)
  <2>1. g.depth = Depth(g.blocks, g.current)
    BY <1>2, <1>4, <1>10 DEF DeepScope
  <2>2. \A i \in 1..m : DeepScope(g.blocks, g.scopes[i])
    <3> SUFFICES ASSUME NEW i \in 1..m PROVE DeepScope(g.blocks, f.scopes[i])
      BY <1>1
    <3>1. StaysDeep(f, g, i)
      BY <1>5
    <3> QED BY <1>10, <3>1 DEF StaysDeep
  <2> QED BY <1>0, <2>1, <2>2 DEF Deep
<1> QED BY <1>6, <1>7, <1>9, <1>10 DEF Built

\* The innermost scope s became t, that awaits no more than s did; what follows goes where
\* it went, or to a block that is no longer awaited.
SameForm(s, t) ==
  /\ t.kind = s.kind /\ t.block = s.block /\ t.first = s.first /\ t.second = s.second
  /\ t.after = s.after /\ t.parent_depth = s.parent_depth
  /\ t.break_depth = s.break_depth /\ t.continue_depth = s.continue_depth
  /\ t.implicit_end = s.implicit_end

LEMMA PhaseKeeps ==
  ASSUME NEW f, Typed(f), Built(f), NEW g, Still(f, g), f.scopes # <<>>,
         NEW s, s = Top(f), NEW t, SameForm(s, t), Awaits(t) \subseteq Awaits(s),
         Len(g.scopes) = Len(f.scopes), g.scopes[Len(f.scopes)] = t,
         \A i \in 1..(Len(f.scopes) - 1) : g.scopes[i] = f.scopes[i],
         g.current \notin Awaits(t),
         g.current = f.current \/ (g.current \in Awaits(s) /\ s.kind # "LOOP"),
         t.kind = "IF" /\ Waits(t) => g.current = t.first,
         AwaitsFirst(t) /\ g.blocks[t.second].kind = "BASIC" => g.current = t.second,
         Plain(g) /\ f.depth = Depth(f.blocks, f.current) /\ DeepScope(f.blocks, s) =>
           g.depth = Depth(f.blocks, g.current)
  PROVE  Built(g)
<1> DEFINE n == Len(f.blocks)
<1>0. PICK m \in Nat : Len(f.scopes) = m + 1 /\ Len(f.scopes) - 1 = m
  <2>1. Len(f.scopes) \in Nat /\ Len(f.scopes) # 0
    BY DEF Typed, IsSequence
  <2>2. Len(f.scopes) - 1 \in Nat /\ Len(f.scopes) = (Len(f.scopes) - 1) + 1
    BY <2>1
  <2> QED BY <2>1, <2>2
<1>1. /\ \A i \in 1..m : g.scopes[i] = f.scopes[i] /\ i \in 1..(m + 1) /\ i # m + 1
      /\ m + 1 \in 1..(m + 1) /\ (m + 1) - 1 = m
      /\ \A i \in 1..(m + 1) : i = m + 1 \/ i \in 1..m
      /\ Len(g.scopes) = m + 1 /\ g.scopes[m + 1] = t
  BY <1>0
<1>2. s = f.scopes[m + 1]
  BY <1>0 DEF Top, Last
<1>4. StaysAwaited(f, g, m + 1) /\ StaysAround(f, g, m + 1) /\ StaysDeep(f, g, m + 1)
  BY <1>0, <1>1, StillScope
<1>5. \A i \in 1..m :
        /\ StaysAwaited(f, g, i) /\ StaysAround(f, g, i) /\ StaysDeep(f, g, i)
        /\ ~Waits(f.scopes[i])
        /\ ~(AwaitsFirst(f.scopes[i]) /\ g.blocks[f.scopes[i].second].kind = "BASIC")
  <2> SUFFICES ASSUME NEW i \in 1..m
               PROVE  /\ StaysAwaited(f, g, i) /\ StaysAround(f, g, i) /\ StaysDeep(f, g, i)
                      /\ ~Waits(f.scopes[i])
                      /\ ~(/\ AwaitsFirst(f.scopes[i])
                           /\ g.blocks[f.scopes[i].second].kind = "BASIC")
    OBVIOUS
  <2>1. i \in 1..Len(f.scopes) /\ i # Len(f.scopes)
    BY <1>0
  <2>2. /\ StaysAwaited(f, g, i) /\ StaysAround(f, g, i) /\ StaysDeep(f, g, i)
        /\ Rests(f, g, i)
    BY <2>1, StillScope
  <2> QED BY <2>1, <2>2 DEF Rests
<1> HIDE DEF n
<1>6. /\ IsBlockTree(g.blocks) /\ DOMAIN g.blocks = 1..n
      /\ f.current \in 1..n /\ f.blocks[f.current].kind = "BASIC"
      /\ \A x \in 1..n : /\ Depth(g.blocks, x) = Depth(f.blocks, x)
                         /\ LoopsAround(g.blocks, x) = LoopsAround(f.blocks, x)
                         /\ g.blocks[x].kind = f.blocks[x].kind
      /\ Plain(g) => Plain(f)
  BY StillTree DEF n
<1>7. Placed(g.blocks, g.scopes, g.current)
  <2>1. g.current \in DOMAIN g.blocks /\ g.blocks[g.current].kind = "BASIC"
    BY <1>2, <1>4, <1>6 DEF StaysAwaited, n
  <2>2. ASSUME NEW i \in 1..m, NEW k \in Awaits(g.scopes[i])
        PROVE  /\ g.blocks[k].kind = "BASIC" /\ k # g.current
               /\ \A j \in 1..(m + 1) : k \in Awaits(g.scopes[j]) => i = j
    <3>1. k \in Awaits(f.scopes[i]) /\ i \in 1..(m + 1) /\ i # m + 1
      BY <1>1, <2>2
    <3>2. /\ g.blocks[k].kind = "BASIC" /\ k # f.current
          /\ \A j \in 1..(m + 1) : k \in Awaits(f.scopes[j]) => i = j
      BY <1>0, <1>5, <3>1 DEF StaysAwaited
    <3>3. k \notin Awaits(s)
      BY <1>1, <1>2, <3>1, <3>2
    <3>4. ASSUME NEW j \in 1..(m + 1), k \in Awaits(g.scopes[j]) PROVE i = j
      BY <1>1, <3>2, <3>3, <3>4
    <3> QED BY <3>2, <3>3, <3>4
  <2>3. ASSUME NEW k \in Awaits(t)
        PROVE  /\ g.blocks[k].kind = "BASIC" /\ k # g.current
               /\ \A j \in 1..(m + 1) : k \in Awaits(g.scopes[j]) => m + 1 = j
    <3>1. k \in Awaits(s)
      BY <2>3
    <3>2. /\ g.blocks[k].kind = "BASIC"
          /\ \A j \in 1..(m + 1) : k \in Awaits(f.scopes[j]) => m + 1 = j
      BY <1>0, <1>2, <1>4, <3>1 DEF StaysAwaited
    <3>3. ASSUME NEW j \in 1..(m + 1), k \in Awaits(g.scopes[j]) PROVE m + 1 = j
      BY <1>1, <3>2, <3>3
    <3> QED BY <2>3, <3>2, <3>3
  <2>4. ASSUME NEW i \in 1..(m + 1)
        PROVE  /\ Waits(g.scopes[i]) => i = m + 1
               /\ g.scopes[i].kind = "IF" /\ Waits(g.scopes[i]) =>
                    g.current = g.scopes[i].first
               /\ AwaitsFirst(g.scopes[i]) /\ g.blocks[g.scopes[i].second].kind = "BASIC" =>
                    i = m + 1 /\ g.current = g.scopes[i].second
    <3>1. CASE i = m + 1
      BY <1>1, <3>1
    <3>2. CASE i \in 1..m
      BY <1>1, <1>5, <3>2
    <3> QED BY <1>1, <3>1, <3>2
  <2>5. ASSUME NEW i \in 1..(m + 1), NEW k \in Awaits(g.scopes[i])
        PROVE  /\ g.blocks[k].kind = "BASIC" /\ k # g.current
               /\ \A j \in 1..(m + 1) : k \in Awaits(g.scopes[j]) => i = j
    <3>1. CASE i = m + 1
      BY <1>1, <2>3, <2>5, <3>1
    <3>2. CASE i \in 1..m
      BY <2>2, <2>5, <3>2
    <3> QED BY <1>1, <3>1, <3>2
  <2> QED BY <1>1, <2>1, <2>4, <2>5 DEF Placed
<1>8. \A i \in 0..(m + 1) : LoopBlocks(g.scopes, i) = LoopBlocks(f.scopes, i)
  <2>1. \A i \in 1..(m + 1) : /\ g.scopes[i].kind = f.scopes[i].kind
                              /\ g.scopes[i].block = f.scopes[i].block
    BY <1>1, <1>2 DEF SameForm
  <2>2. ASSUME NEW i \in 0..(m + 1) PROVE LoopBlocks(g.scopes, i) = LoopBlocks(f.scopes, i)
    <3>1. \A j \in 1..i : j \in 1..(m + 1)
      OBVIOUS
    <3> QED BY <2>1, <3>1 DEF LoopBlocks
  <2> QED BY <2>2
<1>9. LoopsAround(g.blocks, g.current) = LoopBlocks(g.scopes, m + 1)
  <2>1. CASE g.current = f.current
    BY <1>0, <1>6, <1>8, <2>1 DEF Built, InLoops
  <2>2. CASE g.current \in Awaits(s) /\ s.kind # "LOOP"
    <3>1. LoopBlocks(f.scopes, m) = LoopBlocks(f.scopes, m + 1)
      BY <1>1, <1>2, <2>2 DEF LoopBlocks
    <3> QED BY <1>1, <1>2, <1>4, <1>8, <2>2, <3>1 DEF StaysAwaited
  <2> QED BY <2>1, <2>2
<1>10. InLoops(g.blocks, g.scopes, g.current)
  <2>1. m \in 0..(m + 1) /\ \A i \in 1..m : i - 1 \in 0..(m + 1)
    OBVIOUS
  <2>2. ASSUME NEW i \in 1..m
        PROVE  /\ \A k \in Awaits(g.scopes[i]) :
                    LoopsAround(g.blocks, k) = LoopBlocks(g.scopes, i - 1)
               /\ g.scopes[i].kind = "LOOP" =>
                    LoopsAround(g.blocks, g.scopes[i].block) = LoopBlocks(g.scopes, i - 1)
    BY <1>1, <1>5, <1>8, <2>1 DEF StaysAwaited, StaysAround
  <2>3. /\ \A k \in Awaits(t) : LoopsAround(g.blocks, k) = LoopBlocks(g.scopes, m)
        /\ t.kind = "LOOP" => LoopsAround(g.blocks, t.block) = LoopBlocks(g.scopes, m)
    BY <1>1, <1>2, <1>4, <1>8, <2>1 DEF SameForm, StaysAwaited, StaysAround
  <2> QED BY <1>1, <1>9, <2>2, <2>3 DEF InLoops
<1>11. ASSUME Plain(g) PROVE Deep(g.blocks, g.scopes, g.current, g.depth)
  <2>1. f.depth = Depth(f.blocks, f.current)
    BY <1>6, <1>11 DEF Built, Deep
  <2>2. g.current \in 1..n
    BY <1>2, <1>4, <1>6 DEF StaysAwaited, n
  <2>3. DeepScope(g.blocks, s) /\ DeepScope(f.blocks, s)
    BY <1>2, <1>4, <1>11 DEF StaysDeep
  <2>4. g.depth = Depth(g.blocks, g.current)
    BY <1>6, <1>11, <2>1, <2>2, <2>3
  <2>5. DeepScope(g.blocks, t)
    BY <2>3 DEF DeepScope, SameForm
  <2> QED BY <1>1, <1>5, <1>11, <2>4, <2>5 DEF Deep, StaysDeep
<1> QED BY <1>6, <1>7, <1>10, <1>11 DEF Built

\* The scopes and the place that is written to stay as they are.
LEMMA StillKeeps ==
  ASSUME NEW f, Typed(f), Built(f), NEW g, Still(f, g), g.scopes = f.scopes,
         g.current = f.current, g.depth = f.depth
  PROVE  Built(g)
<1>1. /\ IsBlockTree(g.blocks) /\ DOMAIN g.blocks = DOMAIN f.blocks
      /\ DOMAIN f.blocks = 1..Len(f.blocks)
      /\ f.current \in 1..Len(f.blocks) /\ f.blocks[f.current].kind = "BASIC"
      /\ \A x \in 1..Len(f.blocks) :
           /\ Depth(g.blocks, x) = Depth(f.blocks, x)
           /\ LoopsAround(g.blocks, x) = LoopsAround(f.blocks, x)
           /\ g.blocks[x].kind = f.blocks[x].kind
      /\ Plain(g) => Plain(f)
  BY StillTree
<1>2. \A i \in 1..Len(f.scopes) :
        StaysAwaited(f, g, i) /\ Rests(f, g, i) /\ StaysAround(f, g, i) /\ StaysDeep(f, g, i)
  BY StillScope
<1>3. Placed(g.blocks, g.scopes, g.current)
  BY <1>1, <1>2 DEF Placed, StaysAwaited, Rests
<1>4. InLoops(g.blocks, g.scopes, g.current)
  BY <1>1, <1>2 DEF InLoops, Built, StaysAwaited, StaysAround
<1>5. Plain(g) => Deep(g.blocks, g.scopes, g.current, g.depth)
  BY <1>1, <1>2 DEF Deep, Built, StaysDeep
<1> QED BY <1>1, <1>3, <1>4, <1>5 DEF Built

-----------------------------------------------------------------------------
(* What the words do to the frontend.                                      *)

LEMMA SequencesAre ==
  ASSUME NEW S, NEW s \in Seq(S)
  PROVE  IsSequence(s) /\ DOMAIN s = 1..Len(s)
BY DEF IsSequence

\* The rest of the frontend's state.
SameRest(f, g) ==
  /\ IsFrontend(g)
  /\ g.error = f.error /\ g.cleanups = f.cleanups /\ g.stray_var = f.stray_var

\* Two blocks are added to a sequence of them.
LEMMA TwoMore ==
  ASSUME NEW blocks, IsSequence(blocks), NEW x, NEW y
  PROVE  LET n == Len(blocks)
             more == blocks \o <<x, y>>
         IN /\ IsSequence(more) /\ Len(more) = n + 2
            /\ \A i \in 1..n : more[i] = blocks[i]
            /\ more[n + 1] = x /\ more[n + 2] = y
<1> DEFINE n == Len(blocks)
           S == {blocks[i] : i \in 1..n} \cup {x, y}
           more == blocks \o <<x, y>>
<1>1. n \in Nat /\ blocks \in Seq(S) /\ <<x, y>> \in Seq(S)
  BY DEF IsSequence
<1>2. more \in Seq(S) /\ Len(more) = n + 2
  BY <1>1
<1>3. /\ \A i \in 1..n : more[i] = blocks[i]
      /\ more[n + 1] = x /\ more[n + 2] = y
  BY <1>1
<1> HIDE DEF S
<1>4. IsSequence(more)
  BY <1>2, SequencesAre
<1> QED BY <1>2, <1>3, <1>4

\* g is f with the current block wrapped around middle.
Wrapped(f, g, middle) ==
  LET n == Len(f.blocks) IN
  /\ SameRest(f, g) /\ g.scopes = f.scopes /\ g.depth = f.depth /\ g.current = f.current
  /\ IsSequence(g.blocks) /\ Len(g.blocks) = n + 5
  /\ \A i \in 1..n : i # f.current => g.blocks[i] = f.blocks[i]
  /\ g.blocks[f.current] = Many(n + 1, n + 3)
  /\ g.blocks[n + 1] = f.blocks[f.current]
  /\ g.blocks[n + 2] = middle
  /\ g.blocks[n + 3] = Chain(n + 2, n + 5)
  /\ g.blocks[n + 4] = NewBasic(f)
  /\ g.blocks[n + 5] = Chain(n + 4, NoBlock)

LEMMA WrapEffect ==
  ASSUME NEW f, IsFrontend(f), IsSequence(f.blocks), f.current \in 1..Len(f.blocks),
         NEW middle
  PROVE  Wrapped(f, Wrap(f, middle), middle)
<1> DEFINE n == Len(f.blocks)
           five == <<f.blocks[f.current], middle, Chain(MiddleOf(f), n + 5),
                    NewBasic(f), Chain(AfterOf(f), NoBlock)>>
           long == f.blocks \o five
           many == Many(n + 1, n + 3)
           blocks == [long EXCEPT ![f.current] = many]
           S == {f.blocks[i] : i \in 1..n} \cup
                  {middle, Chain(MiddleOf(f), n + 5), NewBasic(f), Chain(AfterOf(f), NoBlock)}
<1>1. Wrap(f, middle) = [f EXCEPT !.blocks = blocks]
  BY DEF Wrap
<1>2. n \in Nat /\ f.blocks \in Seq(S) /\ five \in Seq(S) /\ Len(five) = 5
  BY DEF IsSequence
<1>3. /\ long \in Seq(S) /\ Len(long) = n + 5
      /\ \A i \in 1..n : long[i] = f.blocks[i]
      /\ \A i \in 1..5 : long[n + i] = five[i]
  BY SMTT(30), <1>2
<1>4. /\ long[n + 1] = f.blocks[f.current] /\ long[n + 2] = middle
      /\ long[n + 3] = Chain(MiddleOf(f), n + 5) /\ long[n + 4] = NewBasic(f)
      /\ long[n + 5] = Chain(AfterOf(f), NoBlock)
  BY <1>3
<1> HIDE DEF S, long, five, many
<1>5. IsSequence(blocks) /\ Len(blocks) = n + 5
  <2>1. IsSequence(long) /\ DOMAIN long = 1..(n + 5)
    BY <1>3, SequencesAre
  <2>2. blocks = [i \in 1..(n + 5) |-> IF i = f.current THEN many ELSE long[i]]
    BY <2>1
  <2>3. n + 5 \in Nat
    BY <1>2
  <2> HIDE DEF blocks
  <2>4. Len(blocks) = n + 5
    BY <2>2, <2>3
  <2>5. blocks = [i \in 1..Len(blocks) |-> blocks[i]]
    BY <2>2, <2>4
  <2> QED BY <2>3, <2>4, <2>5 DEF IsSequence
<1>6. /\ \A i \in 1..(n + 5) : i # f.current => blocks[i] = long[i]
      /\ blocks[f.current] = many
  BY <1>2, <1>3
<1> HIDE DEF blocks
<1>7. /\ SameRest(f, [f EXCEPT !.blocks = blocks])
      /\ LET g == [f EXCEPT !.blocks = blocks] IN
         g.blocks = blocks /\ g.scopes = f.scopes /\ g.depth = f.depth /\ g.current = f.current
  BY DEF IsFrontend, Fields, SameRest
<1>8. /\ \A i \in 1..n : i # f.current => blocks[i] = f.blocks[i]
      /\ blocks[n + 1] = long[n + 1] /\ blocks[n + 2] = long[n + 2]
      /\ blocks[n + 3] = long[n + 3] /\ blocks[n + 4] = long[n + 4]
      /\ blocks[n + 5] = long[n + 5]
  <2>1. /\ \A i \in 1..n : i \in 1..(n + 5)
        /\ n + 1 \in 1..(n + 5) /\ n + 1 # f.current
        /\ n + 2 \in 1..(n + 5) /\ n + 2 # f.current
        /\ n + 3 \in 1..(n + 5) /\ n + 3 # f.current
        /\ n + 4 \in 1..(n + 5) /\ n + 4 # f.current
        /\ n + 5 \in 1..(n + 5) /\ n + 5 # f.current
    BY <1>2
  <2>2. \A i \in 1..n : i # f.current => blocks[i] = f.blocks[i]
    BY <1>3, <1>6, <2>1
  <2> QED BY <1>6, <2>1, <2>2
<1>9. /\ blocks[f.current] = Many(n + 1, n + 3)
      /\ blocks[n + 1] = f.blocks[f.current] /\ blocks[n + 2] = middle
      /\ blocks[n + 3] = Chain(n + 2, n + 5) /\ blocks[n + 4] = NewBasic(f)
      /\ blocks[n + 5] = Chain(n + 4, NoBlock)
  BY <1>4, <1>6, <1>8 DEF MiddleOf, AfterOf, many
<1> QED BY <1>1, <1>5, <1>7, <1>8, <1>9 DEF Wrapped

\* g is f after Loop, If, Start or Defer: the current block is wrapped around middle, whose
\* parts x and y are new, and scope s is entered.
Opened(f, g, x, y, middle, s) ==
  LET n == Len(f.blocks) IN
  /\ SameRest(f, g) /\ g.scopes = Append(f.scopes, s)
  /\ IsSequence(g.blocks) /\ Len(g.blocks) = n + 7
  /\ \A i \in 1..n : i # f.current => g.blocks[i] = f.blocks[i]
  /\ g.blocks[f.current] = Many(n + 3, n + 5)
  /\ g.blocks[n + 1] = x
  /\ g.blocks[n + 2] = y
  /\ g.blocks[n + 3] = f.blocks[f.current]
  /\ g.blocks[n + 4] = middle
  /\ g.blocks[n + 5] = Chain(n + 4, n + 7)
  /\ g.blocks[n + 6] = NewBasic(f)
  /\ g.blocks[n + 7] = Chain(n + 6, NoBlock)

OpenedFrom(f, two, g, x, y, middle, s, c, d) ==
  /\ Opened(f, g, x, y, middle, s) /\ g.current = c /\ g.depth = d
  /\ MiddleOf(two) = Len(f.blocks) + 4 /\ AfterOf(two) = Len(f.blocks) + 6
  /\ two.depth = f.depth

LEMMA OpenEffect ==
  ASSUME NEW f, IsFrontend(f), IsSequence(f.blocks), f.current \in 1..Len(f.blocks),
         NEW x, NEW y, NEW middle, NEW s, NEW c, NEW d,
         NEW two, two = [f EXCEPT !.blocks = @ \o <<x, y>>],
         NEW g, g = Open(Wrap(two, middle), s, c, d)
  PROVE  OpenedFrom(f, two, g, x, y, middle, s, c, d)
<1> DEFINE n == Len(f.blocks)
           more == f.blocks \o <<x, y>>
           w == Wrap(two, middle)
<1>1. /\ n \in Nat /\ IsSequence(more) /\ Len(more) = n + 2
      /\ \A i \in 1..n : more[i] = f.blocks[i]
      /\ more[n + 1] = x /\ more[n + 2] = y
  <2>1. n \in Nat
    BY DEF IsSequence
  <2> QED BY SMTT(30), <2>1, TwoMore
<1> HIDE DEF more
<1>2. /\ SameRest(f, two) /\ two.blocks = more /\ two.scopes = f.scopes
      /\ two.current = f.current /\ two.depth = f.depth /\ two.ops = f.ops
  BY DEF IsFrontend, Fields, SameRest, more
<1>3. /\ f.current \in 1..(n + 2) /\ (n + 2) + 1 = n + 3 /\ (n + 2) + 2 = n + 4
      /\ (n + 2) + 3 = n + 5 /\ (n + 2) + 4 = n + 6 /\ (n + 2) + 5 = n + 7
  BY <1>1
<1>4. NewBasic(two) = NewBasic(f) /\ MiddleOf(two) = n + 4 /\ AfterOf(two) = n + 6
  BY <1>1, <1>2, <1>3 DEF NewBasic, MiddleOf, AfterOf
<1>5. /\ IsFrontend(two) /\ IsSequence(two.blocks)
      /\ two.current \in 1..Len(two.blocks) /\ Len(two.blocks) = n + 2
  BY <1>1, <1>2, <1>3 DEF SameRest
<1>6. /\ SameRest(two, w) /\ w.scopes = f.scopes
      /\ IsSequence(w.blocks) /\ Len(w.blocks) = n + 7
      /\ \A i \in 1..(n + 2) : i # f.current => w.blocks[i] = more[i]
      /\ w.blocks[f.current] = Many(n + 3, n + 5)
      /\ w.blocks[n + 3] = more[f.current]
      /\ w.blocks[n + 4] = middle
      /\ w.blocks[n + 5] = Chain(n + 4, n + 7)
      /\ w.blocks[n + 6] = NewBasic(f)
      /\ w.blocks[n + 7] = Chain(n + 6, NoBlock)
  <2>1. Wrapped(two, w, middle)
    BY <1>5, WrapEffect
  <2> HIDE DEF w
  <2> QED BY <2>1, <1>2, <1>3, <1>4, <1>5 DEF Wrapped
<1>10. g = Open(w, s, c, d)
  OBVIOUS
<1> HIDE DEF w
<1>7. /\ SameRest(f, g) /\ g.scopes = Append(f.scopes, s) /\ g.current = c /\ g.depth = d
      /\ g.blocks = w.blocks
  <2>1. g = [w EXCEPT !.scopes = Append(@, s), !.current = c, !.depth = d]
    BY <1>10 DEF Open
  <2>2. /\ IsFrontend(w) /\ w.error = f.error /\ w.cleanups = f.cleanups
        /\ w.stray_var = f.stray_var /\ w.scopes = f.scopes
    BY <1>2, <1>6 DEF SameRest
  <2> QED BY ONLY <2>1, <2>2 DEF IsFrontend, Fields, SameRest
<1>8. /\ \A i \in 1..n : i \in 1..(n + 2)
      /\ n + 1 \in 1..(n + 2) /\ n + 2 \in 1..(n + 2)
      /\ n + 1 # f.current /\ n + 2 # f.current
  BY <1>1
<1>9. /\ \A i \in 1..n : i # f.current => g.blocks[i] = f.blocks[i]
      /\ g.blocks[n + 1] = x /\ g.blocks[n + 2] = y
      /\ g.blocks[n + 3] = f.blocks[f.current]
  BY <1>1, <1>6, <1>7, <1>8
<1> QED BY <1>2, <1>4, <1>6, <1>7, <1>9 DEF Opened, OpenedFrom

-----------------------------------------------------------------------------
(* Types.                                                                  *)

LEMMA BlocksAre ==
  /\ \A i, j : /\ IsBlock(Basic(i, j)) /\ Basic(i, j).kind = "BASIC"
               /\ IsBlock(Many(i, j)) /\ Many(i, j).kind = "MANY"
               /\ IsBlock(Chain(i, j)) /\ Chain(i, j).kind = "CHAIN"
               /\ IsBlock([kind |-> "VAR", var |-> i, body |-> j])
               /\ IsBlock([kind |-> "DEFER", next |-> i, defer |-> j])
  /\ \A i : IsBlock([kind |-> "LOOP", body |-> i])
  /\ \A i : IsBlock(Break(i)) /\ Break(i).kind = "BREAK"
  /\ \A c, i, j : IsBlock([kind |-> "BRANCH", cond |-> c, yes |-> i, no |-> j])
BY DEF IsBlock, BlockKinds, Basic, Many, Chain, Break

\* No block became of another kind, but for BASIC ones that became MANY.
KindsKept(blocks, more) ==
  \A x \in DOMAIN blocks :
    /\ x \in DOMAIN more
    /\ \/ more[x].kind = blocks[x].kind
       \/ blocks[x].kind \in {"BASIC", "MANY"} /\ more[x].kind \in {"BASIC", "MANY"}

LEMMA SoftKept ==
  ASSUME NEW blocks, NEW more, KindsKept(blocks, more), NEW k, Soft(blocks, k)
  PROVE  Soft(more, k)
BY DEF KindsKept, Soft

LEMMA ScopeKept ==
  ASSUME NEW blocks, NEW more, KindsKept(blocks, more), NEW s, ScopeOK(s, blocks)
  PROVE  ScopeOK(s, more)
<1>1. /\ s.kind \in {"LOOP", "IF", "EPILOGUE"}
      /\ s.block \in DOMAIN blocks /\ blocks[s.block].kind = MiddleKind(s.kind)
      /\ s.first \in DOMAIN blocks /\ (s.kind # "LOOP" => Soft(blocks, s.first))
      /\ (s.kind # "LOOP" => Soft(blocks, s.second))
      /\ Soft(blocks, s.after)
  BY DEF ScopeOK
<1>2. s.block \in DOMAIN more /\ more[s.block].kind = MiddleKind(s.kind)
  BY <1>1 DEF KindsKept, MiddleKind
<1>3. /\ s.first \in DOMAIN more /\ (s.kind # "LOOP" => Soft(more, s.first))
      /\ (s.kind # "LOOP" => Soft(more, s.second))
      /\ Soft(more, s.after)
  BY <1>1, SoftKept DEF KindsKept
<1> QED BY <1>2, <1>3 DEF ScopeOK

Errors == {"OK", "BAD_CONTROL_FLOW", "DUPLICATE_VAR", "UNKNOWN_WORD"}

LEMMA TypedKept ==
  ASSUME NEW f, Typed(f), NEW g, IsFrontend(g),
         IsSequence(g.blocks), \A k \in 1..Len(g.blocks) : IsBlock(g.blocks[k]),
         KindsKept(f.blocks, g.blocks),
         IsSequence(g.scopes),
         \A i \in 1..Len(g.scopes) :
           \/ ScopeOK(g.scopes[i], g.blocks)
           \/ i \in 1..Len(f.scopes) /\ g.scopes[i] = f.scopes[i],
         Soft(g.blocks, g.current), g.depth \in Nat, g.error \in Errors,
         g.cleanups \subseteq 1..Len(g.blocks), g.stray_var \in BOOLEAN
  PROVE  Typed(g)
<1>1. ASSUME NEW i \in 1..Len(g.scopes) PROVE ScopeOK(g.scopes[i], g.blocks)
  <2>1. CASE i \in 1..Len(f.scopes) /\ g.scopes[i] = f.scopes[i]
    <3>1. ScopeOK(f.scopes[i], f.blocks)
      BY <2>1 DEF Typed
    <3> QED BY <2>1, <3>1, ScopeKept
  <2> QED BY <2>1
<1> QED BY <1>1 DEF Typed, Errors

LEMMA CurrentInside ==
  ASSUME NEW f, Typed(f)
  PROVE  /\ IsFrontend(f) /\ IsSequence(f.blocks) /\ f.current \in 1..Len(f.blocks)
         /\ DOMAIN f.blocks = 1..Len(f.blocks) /\ Len(f.blocks) \in Nat
         /\ f.blocks[f.current].kind \in {"BASIC", "MANY"}
         /\ IsSequence(f.scopes) /\ Len(f.scopes) \in Nat
BY DEF Typed, IsSequence, Soft

LEMMA Pushed ==
  ASSUME NEW s, IsSequence(s), NEW x
  PROVE  /\ IsSequence(Append(s, x)) /\ Len(Append(s, x)) = Len(s) + 1
         /\ Append(s, x)[Len(s) + 1] = x
         /\ \A i \in 1..Len(s) : Append(s, x)[i] = s[i]
<1> DEFINE S == {s[i] : i \in 1..Len(s)} \cup {x}
<1>1. s \in Seq(S) /\ x \in S
  BY DEF IsSequence
<1> HIDE DEF S
<1>2. Append(s, x) \in Seq(S)
  BY <1>1
<1>3. IsSequence(Append(s, x))
  BY <1>2, SequencesAre
<1> QED BY <1>1, <1>3

LEMMA OpenTyped ==
  ASSUME NEW f, Typed(f), NEW x, NEW y, NEW middle, NEW s, NEW g,
         Opened(f, g, x, y, middle, s), IsBlock(x), IsBlock(y), IsBlock(middle),
         ScopeOK(s, g.blocks), Soft(g.blocks, g.current), g.depth \in Nat
  PROVE  Typed(g)
<1> DEFINE n == Len(f.blocks)
<1>1. n \in Nat /\ f.current \in 1..n /\ IsFrontend(g) /\ IsSequence(f.scopes)
      /\ DOMAIN f.blocks = 1..n /\ f.blocks[f.current].kind \in {"BASIC", "MANY"}
  BY CurrentInside DEF Opened, SameRest
<1>2. IsSequence(g.blocks) /\ Len(g.blocks) = n + 7 /\ DOMAIN g.blocks = 1..(n + 7)
  BY DEF Opened, IsSequence
<1>3. KindsKept(f.blocks, g.blocks)
  <2> SUFFICES ASSUME NEW k \in 1..n
               PROVE  /\ k \in 1..(n + 7)
                      /\ \/ g.blocks[k].kind = f.blocks[k].kind
                         \/ /\ f.blocks[k].kind \in {"BASIC", "MANY"}
                            /\ g.blocks[k].kind \in {"BASIC", "MANY"}
    BY <1>1, <1>2 DEF KindsKept
  <2>1. k \in 1..(n + 7)
    BY <1>1
  <2>2. CASE k = f.current
    BY SMTT(30), <1>1, <2>1, <2>2, BlocksAre DEF Opened
  <2>3. CASE k # f.current
    BY <2>1, <2>3 DEF Opened
  <2> QED BY <2>2, <2>3
<1>4. ASSUME NEW k \in 1..(n + 7) PROVE IsBlock(g.blocks[k])
  <2>1. \A i \in 1..n : IsBlock(f.blocks[i])
    BY DEF Typed
  <2>2. CASE k \in 1..n
    <3>1. CASE k = f.current
      <4>1. g.blocks[k] = Many(n + 3, n + 5)
        BY <3>1 DEF Opened
      <4> QED BY <4>1, BlocksAre
    <3>2. CASE k # f.current
      BY <2>1, <2>2, <3>2 DEF Opened
    <3> QED BY <3>1, <3>2
  <2>3. CASE k \in (n + 1)..(n + 7)
    <3>1. k \in {n + 1, n + 2, n + 3, n + 4, n + 5, n + 6, n + 7}
      BY <1>1, <2>3, Seven
    <3>2. /\ IsBlock(f.blocks[f.current]) /\ IsBlock(NewBasic(f))
          /\ IsBlock(Chain(n + 4, n + 7)) /\ IsBlock(Chain(n + 6, NoBlock))
      BY <1>1, <2>1, BlocksAre DEF NewBasic
    <3> QED BY <3>1, <3>2 DEF Opened
  <2> QED BY <1>1, <2>2, <2>3
<1>5. /\ IsSequence(g.scopes)
      /\ \A i \in 1..Len(g.scopes) :
           \/ ScopeOK(g.scopes[i], g.blocks)
           \/ i \in 1..Len(f.scopes) /\ g.scopes[i] = f.scopes[i]
  <2>1. /\ IsSequence(g.scopes) /\ Len(g.scopes) = Len(f.scopes) + 1
        /\ g.scopes[Len(f.scopes) + 1] = s
        /\ \A i \in 1..Len(f.scopes) : g.scopes[i] = f.scopes[i]
    BY <1>1, Pushed DEF Opened
  <2>2. Len(f.scopes) \in Nat
    BY CurrentInside
  <2>3. \A i \in 1..(Len(f.scopes) + 1) : i \in 1..Len(f.scopes) \/ i = Len(f.scopes) + 1
    BY <2>2
  <2> QED BY <2>1, <2>3
<1>6. /\ g.error \in Errors /\ g.cleanups \subseteq 1..Len(g.blocks)
      /\ g.stray_var \in BOOLEAN
  <2>1. /\ f.error \in Errors /\ f.cleanups \subseteq 1..n /\ f.stray_var \in BOOLEAN
    BY DEF Typed, Errors
  <2>2. 1..n \subseteq 1..(n + 7)
    BY <1>1
  <2> QED BY <1>2, <2>1, <2>2 DEF Opened, SameRest
<1> QED BY <1>1, <1>2, <1>3, <1>4, <1>5, <1>6, TypedKept

-----------------------------------------------------------------------------
(* Each word keeps the invariant.                                          *)

Ready(f) == ReadingInv(f) /\ (~f.stray_var => Quiet(f))

\* The scopes of the forms.
FormScope(f, kind, phase, first, second, implicit) ==
  [kind |-> kind, phase |-> phase, block |-> Len(f.blocks) + 4, first |-> first,
   second |-> second, after |-> Len(f.blocks) + 6, parent_depth |-> f.depth,
   break_depth |-> 0, continue_depth |-> 0, delimiter_depth |-> 0,
   implicit_end |-> implicit]
LoopScope(f) ==
  [FormScope(f, "LOOP", "BODY", Len(f.blocks) + 2, NoBlock, FALSE) EXCEPT
     !.break_depth = f.depth + 2, !.continue_depth = f.depth + 3]

LEMMA LoopEffect ==
  ASSUME NEW f, Typed(f)
  PROVE  LET n == Len(f.blocks)
             g == begin_loop(f)
         IN /\ Opened(f, g, NewBasic(f), Many(n + 1, NoBlock),
                      [kind |-> "LOOP", body |-> n + 2], LoopScope(f))
            /\ g.current = n + 1 /\ g.depth = f.depth + 3
<1> DEFINE n == Len(f.blocks)
           x == NewBasic(f)
           y == Many(n + 1, NoBlock)
           middle == [kind |-> "LOOP", body |-> n + 2]
<1>1. PICK two : two = [f EXCEPT !.blocks = @ \o <<x, y>>]
  OBVIOUS
<1>2. PICK scope : scope = [Scope("LOOP", "BODY", two, n + 2, NoBlock, FALSE) EXCEPT
                              !.break_depth = f.depth + 2, !.continue_depth = f.depth + 3]
  OBVIOUS
<1>3. PICK g : g = Open(Wrap(two, middle), scope, n + 1, f.depth + 3)
  OBVIOUS
<1>4. /\ IsFrontend(f) /\ IsSequence(f.blocks) /\ f.current \in 1..n /\ n \in Nat
  BY CurrentInside
<1>5. begin_loop(f) = g
  BY <1>1, <1>2, <1>3, <1>4 DEF begin_loop, BreakDepth
<1> HIDE DEF x, y, middle
<1>6. /\ Opened(f, g, x, y, middle, scope)
      /\ g.current = n + 1 /\ g.depth = f.depth + 3
      /\ MiddleOf(two) = n + 4 /\ AfterOf(two) = n + 6 /\ two.depth = f.depth
  <2>1. OpenedFrom(f, two, g, x, y, middle, scope, n + 1, f.depth + 3)
    BY <1>1, <1>3, <1>4, OpenEffect
  <2> QED BY <2>1 DEF OpenedFrom
<1>7. scope = LoopScope(f)
  <2>1. Scope("LOOP", "BODY", two, n + 2, NoBlock, FALSE) =
          FormScope(f, "LOOP", "BODY", n + 2, NoBlock, FALSE)
    BY <1>6 DEF Scope, FormScope
  <2> QED BY <1>2, <2>1 DEF LoopScope
<1> QED BY <1>5, <1>6, <1>7 DEF x, y, middle

LEMMA LoopKeeps ==
  ASSUME NEW f, Ready(f)
  PROVE  ReadingInv(begin_loop(f))
<1> DEFINE n == Len(f.blocks)
           s == LoopScope(f)
<1>0. PICK g : g = begin_loop(f)
  OBVIOUS
<1>1. /\ Opened(f, g, NewBasic(f), Many(n + 1, NoBlock), [kind |-> "LOOP", body |-> n + 2], s)
      /\ g.current = n + 1 /\ g.depth = f.depth + 3
  BY <1>0, LoopEffect DEF Ready, ReadingInv
<1>2. /\ Typed(f) /\ n \in Nat /\ f.current \in 1..n /\ f.depth \in Nat
      /\ DOMAIN f.blocks = 1..n
  BY CurrentInside DEF Ready, ReadingInv, Typed
<1>3. /\ DOMAIN g.blocks = 1..(n + 7) /\ Len(g.blocks) = n + 7
      /\ g.blocks[n + 1].kind = "BASIC" /\ g.blocks[n + 2].kind = "MANY"
      /\ g.blocks[n + 4].kind = "LOOP" /\ g.blocks[n + 6].kind = "BASIC"
  <2>1. DOMAIN g.blocks = 1..(n + 7) /\ Len(g.blocks) = n + 7
    BY <1>1 DEF Opened, IsSequence
  <2> QED BY <1>1, <2>1, BlocksAre DEF Opened, NewBasic
<1>4. /\ s.kind = "LOOP" /\ s.phase = "BODY" /\ s.block = n + 4 /\ s.first = n + 2
      /\ s.second = 0 /\ s.after = n + 6 /\ s.parent_depth = f.depth
      /\ s.break_depth = f.depth + 2 /\ s.continue_depth = f.depth + 3
      /\ s.delimiter_depth = 0 /\ s.implicit_end = FALSE
      /\ s = [x \in ScopeFields |-> s[x]]
  BY DEF LoopScope, FormScope, ScopeFields, NoBlock
<1> HIDE DEF s
<1>5. ScopeOK(s, g.blocks)
  <2>1. /\ s.block \in DOMAIN g.blocks /\ g.blocks[s.block].kind = MiddleKind(s.kind)
        /\ s.first \in DOMAIN g.blocks /\ Soft(g.blocks, s.after)
    BY SMTT(30), <1>2, <1>3, <1>4 DEF MiddleKind, Soft
  <2>2. /\ s.first # s.after /\ s.second # s.after /\ s.first # s.second
        /\ s.parent_depth \in Nat /\ s.break_depth \in Nat /\ s.continue_depth \in Nat
        /\ s.delimiter_depth \in Nat /\ ~(s.delimiter_depth > 0)
    BY <1>2, <1>4
  <2> QED BY <1>4, <2>1, <2>2 DEF ScopeOK
<1>6. Typed(g)
  <2>1. Soft(g.blocks, g.current) /\ g.depth \in Nat
    BY <1>1, <1>2, <1>3 DEF Soft
  <2>2. /\ IsBlock(NewBasic(f)) /\ IsBlock(Many(n + 1, NoBlock))
        /\ IsBlock([kind |-> "LOOP", body |-> n + 2])
    BY BlocksAre DEF NewBasic
  <2> QED BY <1>1, <1>2, <1>5, <2>1, <2>2, OpenTyped
<1>7. ASSUME ~g.stray_var PROVE Built(g)
  <2>1. Built(f) /\ Quiet(f)
    BY <1>1, <1>7 DEF Ready, ReadingInv, Opened, SameRest
  <2>2. IsBlockTree(f.blocks) /\ f.blocks[f.current].kind = "BASIC"
    BY <2>1 DEF Built, Placed
  <2>3. LoopGrown(f.blocks, g.blocks, f.current)
    <3>1. Kept(f.blocks, g.blocks, f.current, 7)
      BY <1>1, <1>2, <1>3, <2>2 DEF Kept, Opened
    <3> QED BY <1>1, <1>3, <2>2, <3>1 DEF LoopGrown, Opened
  <2>4. LoopTree(f.blocks, g.blocks, f.current)
    BY <2>2, <2>3, LoopGrows
  <2>5. Grew(f, g, 7)
    <3>1. g.blocks[f.current].kind = "MANY" /\ g.cleanups = f.cleanups
      BY <1>1, BlocksAre DEF Opened, SameRest
    <3> QED BY <2>3, <2>4, <3>1 DEF Grew, LoopGrown, LoopTree, SameTree
  <2>6. Awaits(s) = {n + 6}
    BY <1>4 DEF Awaits, AwaitsFirst, AwaitsSecond
  <2>7. f.depth = Depth(f.blocks, f.current) =>
          g.depth = Depth(g.blocks, g.current) /\ DeepScope(g.blocks, s)
    BY <1>1, <1>4, <2>4 DEF DeepScope, LoopTree
  <2>8. /\ n + 6 \in (n + 1)..Len(g.blocks) /\ n + 1 \in (n + 1)..Len(g.blocks)
        /\ n + 6 # n + 1
    BY <1>2, <1>3
  <2>9. /\ LoopsAround(g.blocks, g.current) =
             LoopsAround(f.blocks, f.current) \cup {k \in {s.block} : s.kind = "LOOP"}
        /\ LoopsAround(g.blocks, s.block) = LoopsAround(f.blocks, f.current)
        /\ LoopsAround(g.blocks, n + 6) = LoopsAround(f.blocks, f.current)
    BY <1>1, <1>4, <2>4 DEF LoopTree
  <2>10. ScopeOK(s, g.blocks) /\ g.scopes = Append(f.scopes, s)
    BY <1>1, <1>5 DEF Opened
  <2>11. \A k \in Awaits(s) :
           /\ k \in (n + 1)..Len(g.blocks) /\ k # g.current
           /\ g.blocks[k].kind = "BASIC"
           /\ LoopsAround(g.blocks, k) = LoopsAround(f.blocks, f.current)
    BY <1>1, <1>3, <2>6, <2>8, <2>9
  <2>12. s.kind # "IF" /\ ~AwaitsFirst(s)
    BY <1>4 DEF AwaitsFirst
  <2>13. g.current \in (n + 1)..Len(g.blocks) /\ g.blocks[g.current].kind = "BASIC"
    BY <1>1, <1>3, <2>8
  <2> QED BY <1>2, <2>1, <2>5, <2>7, <2>9, <2>10, <2>11, <2>12, <2>13, PushKeeps
<1> QED BY <1>0, <1>6, <1>7 DEF ReadingInv

\* If, Start and Defer: what is entered, and where what follows goes.
PairOpened(f, g, kind, phase, implicit, middle) ==
  LET n == Len(f.blocks) IN
  /\ Opened(f, g, NewBasic(f), NewBasic(f), middle,
            FormScope(f, kind, phase, n + 1, n + 2, implicit))
  /\ IsBlock(middle) /\ middle.kind = MiddleKind(kind)
  /\ ChildrenOf(middle) = <<n + 1, n + 2>>
  /\ \/ /\ kind = "IF" /\ phase = "WAIT_OPEN" /\ implicit = FALSE
        /\ g.current = n + 1 /\ g.depth = f.depth + 1
     \/ /\ kind = "EPILOGUE" /\ phase = "BODY" /\ implicit = FALSE
        /\ g.current = n + 1 /\ g.depth = f.depth + 2
     \/ /\ kind = "EPILOGUE" /\ phase = "CLEANUP_WAIT_OPEN" /\ implicit = TRUE
        /\ g.current = n + 2 /\ g.depth = f.depth + 2

LEMMA PairKeeps ==
  ASSUME NEW f, Ready(f), NEW g, NEW kind, NEW phase, NEW implicit, NEW middle,
         PairOpened(f, g, kind, phase, implicit, middle)
  PROVE  ReadingInv(g)
<1> DEFINE n == Len(f.blocks)
<1>0. PICK s : s = FormScope(f, kind, phase, n + 1, n + 2, implicit)
  OBVIOUS
<1>1. /\ Opened(f, g, NewBasic(f), NewBasic(f), middle, s)
      /\ IsBlock(middle) /\ middle.kind = MiddleKind(kind)
      /\ ChildrenOf(middle) = <<n + 1, n + 2>>
  BY <1>0 DEF PairOpened
<1>2. /\ Typed(f) /\ n \in Nat /\ f.current \in 1..n /\ f.depth \in Nat
      /\ DOMAIN f.blocks = 1..n
  BY CurrentInside DEF Ready, ReadingInv, Typed
<1>3. /\ DOMAIN g.blocks = 1..(n + 7) /\ Len(g.blocks) = n + 7
      /\ g.blocks[n + 1].kind = "BASIC" /\ g.blocks[n + 2].kind = "BASIC"
      /\ g.blocks[n + 4] = middle /\ g.blocks[n + 6].kind = "BASIC"
  <2>1. DOMAIN g.blocks = 1..(n + 7) /\ Len(g.blocks) = n + 7
    BY <1>1 DEF Opened, IsSequence
  <2> QED BY <1>1, <2>1, BlocksAre DEF Opened, NewBasic
<1>4. /\ s.kind = kind /\ s.phase = phase /\ s.block = n + 4 /\ s.first = n + 1
      /\ s.second = n + 2 /\ s.after = n + 6 /\ s.parent_depth = f.depth
      /\ s.break_depth = 0 /\ s.continue_depth = 0
      /\ s.delimiter_depth = 0 /\ s.implicit_end = implicit
      /\ s = [x \in ScopeFields |-> s[x]]
  BY <1>0 DEF FormScope, ScopeFields
<1>5. \/ /\ s.kind = "IF" /\ s.phase = "WAIT_OPEN" /\ ~s.implicit_end
         /\ s.implicit_end \in BOOLEAN /\ g.blocks[n + 4].kind = "BRANCH"
         /\ g.current = n + 1 /\ g.depth = f.depth + 1
      \/ /\ s.kind = "EPILOGUE" /\ s.phase = "BODY" /\ ~s.implicit_end
         /\ s.implicit_end \in BOOLEAN /\ g.blocks[n + 4].kind = "DEFER"
         /\ g.current = n + 1 /\ g.depth = f.depth + 2
      \/ /\ s.kind = "EPILOGUE" /\ s.phase = "CLEANUP_WAIT_OPEN" /\ s.implicit_end
         /\ s.implicit_end \in BOOLEAN /\ g.blocks[n + 4].kind = "DEFER"
         /\ g.current = n + 2 /\ g.depth = f.depth + 2
  <2>1. /\ kind = "IF" => middle.kind = "BRANCH"
        /\ kind = "EPILOGUE" => middle.kind = "DEFER"
    BY <1>1 DEF MiddleKind
  <2> QED BY <1>3, <1>4, <2>1 DEF PairOpened
<1>6. ScopeOK(s, g.blocks)
  <2>1. s.block \in DOMAIN g.blocks /\ g.blocks[s.block].kind = MiddleKind(s.kind)
    BY <1>1, <1>2, <1>3, <1>4
  <2>2. /\ s.first \in DOMAIN g.blocks /\ Soft(g.blocks, s.first)
        /\ Soft(g.blocks, s.second) /\ Soft(g.blocks, s.after)
    BY SMTT(30), <1>2, <1>3, <1>4 DEF Soft
  <2>3. /\ s.first # s.after /\ s.second # s.after /\ s.first # s.second
        /\ s.parent_depth \in Nat /\ s.break_depth \in Nat /\ s.continue_depth \in Nat
        /\ s.delimiter_depth \in Nat /\ ~(s.delimiter_depth > 0)
    BY <1>2, <1>4
  <2> QED BY <1>4, <1>5, <2>1, <2>2, <2>3 DEF ScopeOK
<1>7. Typed(g)
  <2>1. Soft(g.blocks, g.current) /\ g.depth \in Nat
    <3>1. n + 1 \in 1..(n + 7) /\ n + 2 \in 1..(n + 7)
      BY <1>2
    <3>2. g.current \in {n + 1, n + 2} /\ g.depth \in Nat
      BY <1>2, <1>5
    <3> QED BY <1>3, <3>1, <3>2 DEF Soft
  <2>2. IsBlock(NewBasic(f))
    BY BlocksAre DEF NewBasic
  <2> QED BY <1>1, <1>2, <1>6, <2>1, <2>2, OpenTyped
<1>8. ASSUME ~g.stray_var PROVE Built(g)
  <2>1. Built(f) /\ Quiet(f)
    BY <1>1, <1>8 DEF Ready, ReadingInv, Opened, SameRest
  <2>2. IsBlockTree(f.blocks) /\ f.blocks[f.current].kind = "BASIC"
    BY <2>1 DEF Built, Placed
  <2>3. PairGrown(f.blocks, g.blocks, f.current)
    <3>1. Kept(f.blocks, g.blocks, f.current, 7)
      BY <1>1, <1>2, <1>3, <2>2 DEF Kept, Opened
    <3>2. g.blocks[n + 4].kind \in {"BRANCH", "DEFER"}
      BY <1>5
    <3> QED BY <1>1, <1>3, <2>2, <3>1, <3>2 DEF PairGrown, Opened
  <2>4. PairTree(f.blocks, g.blocks, f.current)
    BY <2>2, <2>3, PairGrows
  <2>5. Grew(f, g, 7)
    <3>1. g.blocks[f.current].kind = "MANY" /\ g.cleanups = f.cleanups
      BY <1>1, BlocksAre DEF Opened, SameRest
    <3> QED BY <2>3, <2>4, <3>1 DEF Grew, PairGrown, PairTree, SameTree
  <2>6. /\ Awaits(s) \subseteq {n + 1, n + 2, n + 6} /\ g.current \notin Awaits(s)
        /\ s.kind = "IF" /\ Waits(s) => g.current = s.first
        /\ AwaitsFirst(s) => g.current = s.second
        /\ s.kind # "LOOP"
    <3>1. n + 1 # n + 2 /\ n + 1 # n + 6 /\ n + 2 # n + 6
      BY <1>2
    <3> QED BY <1>4, <1>5, <3>1 DEF Awaits, AwaitsFirst, AwaitsSecond
  <2>7. f.depth = Depth(f.blocks, f.current) =>
          g.depth = Depth(g.blocks, g.current) /\ DeepScope(g.blocks, s)
    <3>1. PICK d \in Nat : /\ d = Depth(f.blocks, f.current)
                           /\ Depth(g.blocks, n + 6) = d + 1
                           /\ Depth(g.blocks, n + 1) = d + 1 + Below(g.blocks[n + 4])
                           /\ Depth(g.blocks, n + 2) = d + 1 + Below(g.blocks[n + 4])
      BY <2>4 DEF PairTree
    <3>2. /\ g.blocks[n + 4].kind = "BRANCH" => Below(g.blocks[n + 4]) = 0
          /\ g.blocks[n + 4].kind = "DEFER" => Below(g.blocks[n + 4]) = 1
      BY DEF Below, Scoping
    <3>3. /\ g.blocks[n + 4].kind = "BRANCH" =>
               Depth(g.blocks, n + 1) = d + 1 /\ Depth(g.blocks, n + 2) = d + 1
          /\ g.blocks[n + 4].kind = "DEFER" =>
               Depth(g.blocks, n + 1) = d + 2 /\ Depth(g.blocks, n + 2) = d + 2
      BY <3>1, <3>2
    <3> QED BY <1>4, <1>5, <3>1, <3>3 DEF DeepScope
  <2>8. \A k \in {n + 1, n + 2, n + 6} :
           /\ k \in (n + 1)..Len(g.blocks) /\ g.blocks[k].kind = "BASIC"
           /\ LoopsAround(g.blocks, k) = LoopsAround(f.blocks, f.current)
    <3>1. /\ n + 1 \in (n + 1)..(n + 7) /\ n + 2 \in (n + 1)..(n + 7)
          /\ n + 6 \in (n + 1)..(n + 7)
      BY <1>2
    <3> QED BY <1>3, <2>4, <3>1 DEF PairTree
  <2>9. g.current \in {n + 1, n + 2}
    BY <1>5
  <2>10. LoopsAround(g.blocks, g.current) =
           LoopsAround(f.blocks, f.current) \cup {k \in {s.block} : s.kind = "LOOP"}
    BY <2>6, <2>8, <2>9
  <2>11. ScopeOK(s, g.blocks) /\ g.scopes = Append(f.scopes, s)
    BY <1>1, <1>6 DEF Opened
  <2>12. \A k \in Awaits(s) :
           /\ k \in (n + 1)..Len(g.blocks) /\ k # g.current
           /\ g.blocks[k].kind = "BASIC"
           /\ LoopsAround(g.blocks, k) = LoopsAround(f.blocks, f.current)
    BY <2>6, <2>8
  <2>13. g.current \in (n + 1)..Len(g.blocks) /\ g.blocks[g.current].kind = "BASIC"
    BY <2>8, <2>9
  <2> QED BY <1>2, <2>1, <2>5, <2>6, <2>7, <2>10, <2>11, <2>12, <2>13, PushKeeps
<1> QED BY <1>7, <1>8 DEF ReadingInv

LEMMA IfKeeps ==
  ASSUME NEW f, Ready(f)
  PROVE  ReadingInv(begin_if(f))
<1> DEFINE n == Len(f.blocks)
           x == NewBasic(f)
           y == NewBasic(f)
           middle == [kind |-> "BRANCH", cond |-> [start |-> Len(f.ops), len |-> 0],
                      yes |-> n + 1, no |-> n + 2]
<1>1. PICK two : two = [f EXCEPT !.blocks = @ \o <<x, y>>]
  OBVIOUS
<1>2. PICK scope : scope = Scope("IF", "WAIT_OPEN", two, n + 1, n + 2, FALSE)
  OBVIOUS
<1>3. PICK g : g = Open(Wrap(two, middle), scope, n + 1, f.depth + 1)
  OBVIOUS
<1>4. /\ IsFrontend(f) /\ IsSequence(f.blocks) /\ f.current \in 1..n /\ n \in Nat
  BY CurrentInside DEF Ready, ReadingInv
<1>5. begin_if(f) = g
  <2>1. (n + 1) + 1 = n + 2
    BY <1>4
  <2> QED BY <2>1, <1>1, <1>2, <1>3, <1>4 DEF begin_if
<1>6. /\ IsBlock(middle) /\ middle.kind = MiddleKind("IF")
      /\ ChildrenOf(middle) = <<n + 1, n + 2>>
  BY BlocksAre DEF MiddleKind, ChildrenOf
<1> HIDE DEF x, y, middle
<1>7. /\ Opened(f, g, x, y, middle, scope)
      /\ g.current = n + 1 /\ g.depth = f.depth + 1
      /\ MiddleOf(two) = n + 4 /\ AfterOf(two) = n + 6 /\ two.depth = f.depth
  <2>1. OpenedFrom(f, two, g, x, y, middle, scope, n + 1, f.depth + 1)
    BY <1>1, <1>3, <1>4, OpenEffect
  <2> QED BY <2>1 DEF OpenedFrom
<1>8. scope = FormScope(f, "IF", "WAIT_OPEN", n + 1, n + 2, FALSE)
  BY <1>2, <1>7 DEF Scope, FormScope
<1>9. PairOpened(f, g, "IF", "WAIT_OPEN", FALSE, middle)
  BY <1>6, <1>7, <1>8 DEF PairOpened, x, y
<1> QED BY <1>5, <1>9, PairKeeps

LEMMA EpilogueKeeps ==
  ASSUME NEW f, Ready(f), NEW implicit \in BOOLEAN
  PROVE  ReadingInv(begin_epilogue(f, implicit))
<1> DEFINE n == Len(f.blocks)
           x == NewBasic(f)
           y == NewBasic(f)
           middle == [kind |-> "DEFER", next |-> n + 1, defer |-> n + 2]
           phase == IF implicit THEN "CLEANUP_WAIT_OPEN" ELSE "BODY"
           c == IF implicit THEN n + 2 ELSE n + 1
<1>1. PICK two : two = [f EXCEPT !.blocks = @ \o <<x, y>>]
  OBVIOUS
<1>2. PICK scope : scope = Scope("EPILOGUE", phase, two, n + 1, n + 2, implicit)
  OBVIOUS
<1>3. PICK g : g = Open(Wrap(two, middle), scope, c, f.depth + 2)
  OBVIOUS
<1>4. /\ IsFrontend(f) /\ IsSequence(f.blocks) /\ f.current \in 1..n /\ n \in Nat
  BY CurrentInside DEF Ready, ReadingInv
<1>5. begin_epilogue(f, implicit) = g
  <2>1. (n + 1) + 1 = n + 2
    BY <1>4
  <2> QED BY <2>1, <1>1, <1>2, <1>3, <1>4 DEF begin_epilogue
<1>6. /\ IsBlock(middle) /\ middle.kind = MiddleKind("EPILOGUE")
      /\ ChildrenOf(middle) = <<n + 1, n + 2>>
  BY BlocksAre DEF MiddleKind, ChildrenOf
<1> HIDE DEF x, y, middle, phase, c
<1>7. /\ Opened(f, g, x, y, middle, scope)
      /\ g.current = c /\ g.depth = f.depth + 2
      /\ MiddleOf(two) = n + 4 /\ AfterOf(two) = n + 6 /\ two.depth = f.depth
  <2>1. OpenedFrom(f, two, g, x, y, middle, scope, c, f.depth + 2)
    BY <1>1, <1>3, <1>4, OpenEffect
  <2> QED BY <2>1 DEF OpenedFrom
<1>8. scope = FormScope(f, "EPILOGUE", phase, n + 1, n + 2, implicit)
  BY <1>2, <1>7 DEF Scope, FormScope
<1>9. PairOpened(f, g, "EPILOGUE", phase, implicit, middle)
  BY <1>6, <1>7, <1>8 DEF PairOpened, x, y, phase, c
<1> QED BY <1>5, <1>9, PairKeeps

-----------------------------------------------------------------------------
(* The words that add no block.                                            *)

\* The blocks stay of the kinds they are, and only those in ks may have other children.
Touched(blocks, more, ks) ==
  /\ IsSequence(more) /\ Len(more) = Len(blocks)
  /\ \A i \in 1..Len(blocks) :
       /\ IsBlock(more[i]) /\ more[i].kind = blocks[i].kind
       /\ i \notin ks => ChildrenOf(more[i]) = ChildrenOf(blocks[i])

LEMMA TouchedAlike ==
  ASSUME NEW blocks, IsSequence(blocks), NEW more, NEW ks, Touched(blocks, more, ks),
         \A k \in ks : blocks[k].kind = "BASIC"
  PROVE  Alike(blocks, more)
<1>1. /\ Len(blocks) \in Nat /\ DOMAIN blocks = 1..Len(blocks)
      /\ Len(more) = Len(blocks) /\ DOMAIN more = 1..Len(blocks)
  BY DEF IsSequence, Touched
<1>2. ASSUME NEW i \in 1..Len(blocks)
      PROVE  more[i].kind = blocks[i].kind /\ ChildrenOf(more[i]) = ChildrenOf(blocks[i])
  <2>1. CASE i \in ks
    <3>1. blocks[i].kind = "BASIC" /\ more[i].kind = "BASIC"
      BY <2>1 DEF Touched
    <3> QED BY <3>1, Children
  <2>2. CASE i \notin ks
    BY <2>2 DEF Touched
  <2> QED BY <2>1, <2>2
<1> QED BY <1>1, <1>2 DEF Alike

LEMMA TouchedTwice ==
  ASSUME NEW blocks, NEW more, NEW ks, Touched(blocks, more, ks),
         NEW again, NEW js, Touched(more, again, js)
  PROVE  Touched(blocks, again, ks \cup js)
BY DEF Touched

LEMMA TouchBlock ==
  ASSUME NEW blocks, IsSequence(blocks), \A i \in 1..Len(blocks) : IsBlock(blocks[i]),
         NEW k \in 1..Len(blocks), NEW b, IsBlock(b), b.kind = blocks[k].kind
  PROVE  Touched(blocks, [blocks EXCEPT ![k] = b], {k})
<1>1. Len(blocks) \in Nat /\ DOMAIN blocks = 1..Len(blocks)
  BY DEF IsSequence
<1>2. PICK more : more = [blocks EXCEPT ![k] = b]
  OBVIOUS
<1>3. more = [i \in 1..Len(blocks) |-> IF i = k THEN b ELSE blocks[i]]
  BY <1>1, <1>2
<1>4. Len(more) = Len(blocks) /\ more = [i \in 1..Len(more) |-> more[i]]
  BY <1>1, <1>3
<1>5. IsSequence(more)
  BY <1>1, <1>4 DEF IsSequence
<1> QED BY <1>2, <1>3, <1>4, <1>5 DEF Touched

LEMMA SetKeeps ==
  ASSUME NEW b, IsBlock(b), NEW n
  PROVE  /\ IsBlock(SetStart(b, n)) /\ SetStart(b, n).kind = b.kind
         /\ IsBlock(SetLen(b, n)) /\ SetLen(b, n).kind = b.kind
BY DEF IsBlock, SetStart, SetLen

\* What a scope may be in, and what it counts.
PhaseOK(t) ==
  /\ t = [x \in ScopeFields |-> t[x]]
  /\ \/ t.kind = "LOOP" /\ t.phase = "BODY"
     \/ t.kind = "IF" /\ t.phase \in {"WAIT_OPEN", "CONDITION", "BODY", "ELSE_BODY"}
     \/ /\ t.kind = "EPILOGUE"
        /\ t.phase \in {"BODY", "CLEANUP"} \cup
             {p \in {"CLEANUP_WAIT_OPEN"} : t.implicit_end}
  /\ t.delimiter_depth \in Nat /\ (t.delimiter_depth > 0 => Counts(t))

LEMMA FormKept ==
  ASSUME NEW s, NEW blocks, ScopeOK(s, blocks), NEW t, SameForm(s, t), PhaseOK(t)
  PROVE  ScopeOK(t, blocks)
BY DEF ScopeOK, SameForm, PhaseOK

LEMMA TypedTouched ==
  ASSUME NEW f, Typed(f), NEW g, IsFrontend(g),
         NEW ks, Touched(f.blocks, g.blocks, ks), IsSequence(g.scopes),
         \A i \in 1..Len(g.scopes) :
           /\ i \in 1..Len(f.scopes)
           /\ \/ g.scopes[i] = f.scopes[i]
              \/ SameForm(f.scopes[i], g.scopes[i]) /\ PhaseOK(g.scopes[i]),
         Soft(f.blocks, g.current), g.depth \in Nat, g.error \in Errors,
         g.cleanups \subseteq 1..Len(f.blocks), g.stray_var \in BOOLEAN
  PROVE  Typed(g)
<1>1. /\ IsSequence(g.blocks) /\ Len(g.blocks) = Len(f.blocks)
      /\ DOMAIN f.blocks = 1..Len(f.blocks) /\ DOMAIN g.blocks = 1..Len(f.blocks)
      /\ \A i \in 1..Len(f.blocks) :
            IsBlock(g.blocks[i]) /\ g.blocks[i].kind = f.blocks[i].kind
  BY DEF Touched, Typed, IsSequence
<1>2. KindsKept(f.blocks, g.blocks)
  BY <1>1 DEF KindsKept
<1>3. Soft(g.blocks, g.current)
  BY <1>2, SoftKept
<1>4. \A i \in 1..Len(g.scopes) :
        \/ ScopeOK(g.scopes[i], g.blocks)
        \/ i \in 1..Len(f.scopes) /\ g.scopes[i] = f.scopes[i]
  <2> SUFFICES ASSUME NEW i \in 1..Len(g.scopes), i \in 1..Len(f.scopes),
                      SameForm(f.scopes[i], g.scopes[i]), PhaseOK(g.scopes[i])
               PROVE  ScopeOK(g.scopes[i], g.blocks)
    OBVIOUS
  <2>1. ScopeOK(f.scopes[i], g.blocks)
    BY <1>2, ScopeKept DEF Typed
  <2> QED BY <2>1, FormKept
<1> QED BY <1>1, <1>2, <1>3, <1>4, TypedKept

LEMMA TopScope ==
  ASSUME NEW f, Typed(f), f.scopes # <<>>
  PROVE  /\ Len(f.scopes) \in Nat /\ Len(f.scopes) \in 1..Len(f.scopes)
         /\ Top(f) = f.scopes[Len(f.scopes)] /\ ScopeOK(Top(f), f.blocks)
         /\ Len(f.scopes) - 1 \in Nat /\ Len(f.scopes) = (Len(f.scopes) - 1) + 1
<1>1. Len(f.scopes) \in Nat /\ IsSequence(f.scopes)
  BY DEF Typed, IsSequence
<1>2. Len(f.scopes) # 0
  BY <1>1 DEF IsSequence
<1>3. Top(f) = f.scopes[Len(f.scopes)] /\ Len(f.scopes) \in 1..Len(f.scopes)
  BY <1>1, <1>2 DEF Top, Last
<1> QED BY <1>1, <1>2, <1>3 DEF Typed

\* g is f with the innermost form closed.
Closed(f, g, ks) ==
  /\ SameRest(f, g)
  /\ Touched(f.blocks, g.blocks, ks)
  /\ IsSequence(g.scopes) /\ Len(g.scopes) = Len(f.scopes) - 1
  /\ \A i \in 1..(Len(f.scopes) - 1) : g.scopes[i] = f.scopes[i]
  /\ g.current = Top(f).after /\ g.depth = Top(f).parent_depth + 1

LEMMA ClosedKeeps ==
  ASSUME NEW f, ReadingInv(f), f.scopes # <<>>, NEW g, NEW ks, Closed(f, g, ks),
         ks \subseteq Awaits(Top(f))
  PROVE  Ready(g)
<1> DEFINE m == Len(f.scopes) - 1
<1>1. /\ Typed(f) /\ Len(f.scopes) \in Nat /\ Len(f.scopes) \in 1..Len(f.scopes)
      /\ Top(f) = f.scopes[Len(f.scopes)] /\ ScopeOK(Top(f), f.blocks)
      /\ m \in Nat /\ Len(f.scopes) = m + 1
  BY TopScope DEF ReadingInv
<1>2. Typed(g)
  <2>1. \A i \in 1..Len(g.scopes) : i \in 1..Len(f.scopes) /\ g.scopes[i] = f.scopes[i]
    BY <1>1 DEF Closed
  <2>2. Soft(f.blocks, g.current) /\ g.depth \in Nat
    <3>1. g.current = Top(f).after /\ g.depth = Top(f).parent_depth + 1
      BY DEF Closed
    <3>2. Soft(f.blocks, Top(f).after) /\ Top(f).parent_depth \in Nat
      BY <1>1 DEF ScopeOK
    <3> QED BY ONLY <3>1, <3>2
  <2>3. /\ f.error \in Errors /\ f.cleanups \subseteq 1..Len(f.blocks)
        /\ f.stray_var \in BOOLEAN
    BY <1>1 DEF Typed, Errors
  <2>4. /\ IsFrontend(g) /\ Touched(f.blocks, g.blocks, ks) /\ IsSequence(g.scopes)
        /\ g.error = f.error /\ g.cleanups = f.cleanups /\ g.stray_var = f.stray_var
    BY DEF Closed, SameRest
  <2> QED BY <1>1, <2>1, <2>2, <2>3, <2>4, TypedTouched
<1>3. ASSUME ~g.stray_var PROVE Built(g) /\ Quiet(g)
  <2>1. Built(f) /\ Placed(f.blocks, f.scopes, f.current)
    BY <1>3 DEF ReadingInv, Closed, SameRest, Built
  <2>2. \A k \in ks : f.blocks[k].kind = "BASIC"
    BY <1>1, <2>1 DEF Placed
  <2>3. Still(f, g)
    <3>1. IsSequence(f.blocks)
      BY <1>1 DEF Typed
    <3>2. Alike(f.blocks, g.blocks)
      BY <2>2, <3>1, TouchedAlike DEF Closed
    <3> QED BY <3>2 DEF Still, Closed, SameRest
  <2>4. Built(g)
    BY <1>1, <2>1, <2>3, CloseKeeps DEF Closed
  <2>5. Quiet(g)
    <3>1. CASE g.scopes = <<>>
      BY <3>1 DEF Quiet
    <3>2. CASE g.scopes # <<>>
      <4>1. Top(g) = g.scopes[m] /\ m \in 1..m
        BY <1>2, <3>2, TopScope DEF Closed
      <4>2. Top(g) = f.scopes[m] /\ m \in 1..Len(f.scopes) /\ m # Len(f.scopes)
        BY <1>1, <4>1 DEF Closed
      <4>3. ~Waits(f.scopes[m])
        BY <2>1, <4>2 DEF Placed
      <4> QED BY <4>2, <4>3 DEF Quiet
    <3> QED BY <3>1, <3>2
  <2> QED BY <2>4, <2>5
<1> QED BY <1>2, <1>3 DEF Ready, ReadingInv

\* The innermost scope went on to t.
Phased(f, g, t, ks) ==
  /\ IsFrontend(g) /\ g.error = f.error /\ g.stray_var = f.stray_var
  /\ f.cleanups \subseteq g.cleanups /\ g.cleanups \subseteq 1..Len(f.blocks)
  /\ Touched(f.blocks, g.blocks, ks)
  /\ IsSequence(g.scopes) /\ Len(g.scopes) = Len(f.scopes)
  /\ g.scopes[Len(f.scopes)] = t
  /\ \A i \in 1..(Len(f.scopes) - 1) : g.scopes[i] = f.scopes[i]
  /\ SameForm(Top(f), t) /\ PhaseOK(t)
  /\ Soft(f.blocks, g.current) /\ g.depth \in Nat

\* The frontend goes on, in the same blocks, where scope t says.
GoesOn(f, g, s, t, ks) ==
  /\ f.scopes # <<>> /\ s = Top(f)
  /\ Phased(f, g, t, ks)
  /\ f.stray_var \/ ks \subseteq Awaits(s) \cup {f.current}
  /\ Awaits(t) \subseteq Awaits(s) /\ (f.stray_var \/ g.current \notin Awaits(t))
  /\ \/ f.stray_var \/ g.current = f.current
     \/ g.current \in Awaits(s) /\ s.kind # "LOOP"
  /\ t.kind = "IF" /\ Waits(t) => f.stray_var \/ g.current = t.first
  /\ AwaitsFirst(t) /\ g.blocks[t.second].kind = "BASIC" /\ ~f.stray_var =>
       g.current = t.second
  /\ Plain(g) /\ Built(f) /\ f.depth = Depth(f.blocks, f.current)
              /\ DeepScope(f.blocks, s) =>
       g.depth = Depth(f.blocks, g.current)

LEMMA PhasedKeeps ==
  ASSUME NEW f, ReadingInv(f), NEW s, NEW g, NEW t, NEW ks, GoesOn(f, g, s, t, ks)
  PROVE  ReadingInv(g)
<1>0. /\ f.scopes # <<>> /\ s = Top(f) /\ Phased(f, g, t, ks)
      /\ f.stray_var \/ ks \subseteq Awaits(s) \cup {f.current}
      /\ Awaits(t) \subseteq Awaits(s) /\ (f.stray_var \/ g.current \notin Awaits(t))
      /\ \/ f.stray_var \/ g.current = f.current
         \/ g.current \in Awaits(s) /\ s.kind # "LOOP"
      /\ t.kind = "IF" /\ Waits(t) => f.stray_var \/ g.current = t.first
      /\ AwaitsFirst(t) /\ g.blocks[t.second].kind = "BASIC" /\ ~f.stray_var =>
           g.current = t.second
      /\ Plain(g) /\ Built(f) /\ f.depth = Depth(f.blocks, f.current)
                  /\ DeepScope(f.blocks, s) =>
           g.depth = Depth(f.blocks, g.current)
  BY DEF GoesOn
<1> DEFINE m == Len(f.scopes) - 1
<1>1. /\ Typed(f) /\ Len(f.scopes) \in Nat /\ Len(f.scopes) \in 1..Len(f.scopes)
      /\ Top(f) = f.scopes[Len(f.scopes)]
      /\ m \in Nat /\ Len(f.scopes) = m + 1
  BY <1>0, TopScope DEF ReadingInv
<1>2. Typed(g)
  <2>1. ASSUME NEW i \in 1..Len(g.scopes)
        PROVE  /\ i \in 1..Len(f.scopes)
               /\ \/ g.scopes[i] = f.scopes[i]
                  \/ SameForm(f.scopes[i], g.scopes[i]) /\ PhaseOK(g.scopes[i])
    <3>1. CASE i = Len(f.scopes)
      BY <1>0, <1>1, <3>1 DEF Phased
    <3>2. CASE i \in 1..m
      BY <1>0, <1>1, <3>2 DEF Phased
    <3>3. i = Len(f.scopes) \/ i \in 1..m
      BY <1>0, <1>1 DEF Phased
    <3> QED BY <3>1, <3>2, <3>3
  <2>2. f.error \in Errors /\ f.stray_var \in BOOLEAN
    BY <1>1 DEF Typed, Errors
  <2>3. /\ IsFrontend(g) /\ Touched(f.blocks, g.blocks, ks) /\ IsSequence(g.scopes)
        /\ g.error = f.error /\ g.cleanups \subseteq 1..Len(f.blocks)
        /\ g.stray_var = f.stray_var /\ Soft(f.blocks, g.current) /\ g.depth \in Nat
    BY <1>0 DEF Phased
  <2> QED BY <1>1, <2>1, <2>2, <2>3, TypedTouched
<1>3. ASSUME ~g.stray_var PROVE Built(g)
  <2>1. /\ Built(f) /\ Placed(f.blocks, f.scopes, f.current) /\ ~f.stray_var
    BY <1>0, <1>3 DEF ReadingInv, Phased, Built
  <2>2. \A k \in ks : f.blocks[k].kind = "BASIC"
    BY <1>0, <1>1, <2>1 DEF Placed
  <2>3. Still(f, g)
    <3>1. IsSequence(f.blocks)
      BY <1>1 DEF Typed
    <3>2. Alike(f.blocks, g.blocks)
      BY <1>0, <2>2, <3>1, TouchedAlike DEF Phased
    <3> QED BY <1>0, <3>2 DEF Still, Phased
  <2>4. /\ SameForm(s, t) /\ Len(g.scopes) = Len(f.scopes)
        /\ g.scopes[Len(f.scopes)] = t
        /\ \A i \in 1..(Len(f.scopes) - 1) : g.scopes[i] = f.scopes[i]
    BY <1>0 DEF Phased
  <2>5. /\ g.current \notin Awaits(t)
        /\ g.current = f.current \/ (g.current \in Awaits(s) /\ s.kind # "LOOP")
        /\ t.kind = "IF" /\ Waits(t) => g.current = t.first
        /\ AwaitsFirst(t) /\ g.blocks[t.second].kind = "BASIC" => g.current = t.second
        /\ Plain(g) /\ f.depth = Depth(f.blocks, f.current) /\ DeepScope(f.blocks, s) =>
             g.depth = Depth(f.blocks, g.current)
    BY <1>0, <2>1
  <2> QED BY <1>0, <1>1, <2>1, <2>3, <2>4, <2>5, PhaseKeeps
<1> QED BY <1>2, <1>3 DEF ReadingInv

\* Only the error changed.
LEMMA FailKeeps ==
  ASSUME NEW f, ReadingInv(f), NEW e \in Errors
  PROVE  ReadingInv([f EXCEPT !.error = e])
<1>1. PICK g : g = [f EXCEPT !.error = e]
  OBVIOUS
<1>2. /\ IsFrontend(g) /\ g.error = e /\ g.blocks = f.blocks /\ g.scopes = f.scopes
      /\ g.current = f.current /\ g.depth = f.depth /\ g.cleanups = f.cleanups
      /\ g.stray_var = f.stray_var
  BY <1>1 DEF ReadingInv, Typed, IsFrontend, Fields
<1>3. Typed(g)
  BY <1>2 DEF ReadingInv, Typed, Errors
<1>4. Built(f) => Built(g)
  BY <1>2 DEF Built, Plain
<1> QED BY <1>1, <1>2, <1>3, <1>4 DEF ReadingInv

LEMMA BadKeeps ==
  ASSUME NEW f, ReadingInv(f)
  PROVE  ReadingInv(Bad(f))
BY FailKeeps DEF Bad, Errors

LEMMA ResumeEffect ==
  ASSUME NEW f, IsFrontend(f), IsSequence(f.blocks),
         \A i \in 1..Len(f.blocks) : IsBlock(f.blocks[i]), NEW k \in 1..Len(f.blocks)
  PROVE  LET g == Resume(f, k)
         IN /\ SameRest(f, g) /\ g.scopes = f.scopes /\ g.depth = f.depth /\ g.current = k
            /\ Touched(f.blocks, g.blocks, {k})
<1>1. PICK b : b = SetStart(f.blocks[k], Len(f.ops))
  OBVIOUS
<1>2. PICK g : g = Resume(f, k)
  OBVIOUS
<1>3. g = [f EXCEPT !.current = k, !.blocks = [f.blocks EXCEPT ![k] = b]]
  BY <1>1, <1>2 DEF Resume, IsFrontend, Fields
<1>4. /\ SameRest(f, g) /\ g.scopes = f.scopes /\ g.depth = f.depth /\ g.current = k
      /\ g.blocks = [f.blocks EXCEPT ![k] = b]
  BY <1>3 DEF IsFrontend, Fields, SameRest
<1>5. IsBlock(b) /\ b.kind = f.blocks[k].kind
  BY <1>1, SetKeeps
<1>6. Touched(f.blocks, g.blocks, {k})
  <2>1. Touched(f.blocks, [f.blocks EXCEPT ![k] = b], {k})
    BY <1>5, TouchBlock
  <2> QED BY <1>4, <2>1
<1> QED BY <1>2, <1>4, <1>6

LEMMA Popped ==
  ASSUME NEW s, IsSequence(s), s # <<>>
  PROVE  /\ IsSequence(Front(s)) /\ Len(Front(s)) = Len(s) - 1
         /\ \A i \in 1..(Len(s) - 1) : Front(s)[i] = s[i]
<1>1. Len(s) \in Nat /\ Len(s) - 1 \in Nat
  <2>1. Len(s) \in Nat /\ Len(s) # 0
    BY DEF IsSequence
  <2> QED BY <2>1
<1>2. Front(s) = [i \in 1..(Len(s) - 1) |-> s[i]]
  BY <1>1 DEF Front
<1> QED BY <1>1, <1>2 DEF IsSequence

LEMMA CloseEffect ==
  ASSUME NEW f, IsFrontend(f), IsSequence(f.blocks),
         \A i \in 1..Len(f.blocks) : IsBlock(f.blocks[i]),
         IsSequence(f.scopes), f.scopes # <<>>, Top(f).after \in 1..Len(f.blocks)
  PROVE  Closed(f, Close(f), {Top(f).after})
<1>1. PICK h : h = [f EXCEPT !.scopes = Front(@)]
  OBVIOUS
<1>2. PICK r : r = Resume(h, Top(f).after)
  OBVIOUS
<1>3. PICK g : g = Close(f)
  OBVIOUS
<1>4. /\ SameRest(f, h) /\ h.blocks = f.blocks /\ h.scopes = Front(f.scopes)
      /\ h.depth = f.depth
  BY <1>1 DEF IsFrontend, Fields, SameRest
<1>5. IsFrontend(h)
  BY <1>4 DEF SameRest
<1>6. /\ SameRest(h, r) /\ r.scopes = h.scopes /\ r.current = Top(f).after
      /\ Touched(f.blocks, r.blocks, {Top(f).after})
  BY <1>2, <1>4, <1>5, ResumeEffect
<1>7. g = [r EXCEPT !.depth = Top(f).parent_depth + 1]
  BY <1>1, <1>2, <1>3 DEF Close, DepthAfter
<1>8. /\ SameRest(r, g) /\ g.blocks = r.blocks /\ g.scopes = r.scopes
      /\ g.current = r.current /\ g.depth = Top(f).parent_depth + 1
  BY <1>6, <1>7 DEF IsFrontend, Fields, SameRest
<1>9. SameRest(f, g)
  BY <1>4, <1>6, <1>8 DEF SameRest
<1> QED BY <1>3, <1>4, <1>6, <1>8, <1>9, Popped DEF Closed

LEMMA CloseInv ==
  ASSUME NEW f, ReadingInv(f), f.scopes # <<>>
  PROVE  Ready(Close(f))
<1>1. /\ IsFrontend(f) /\ IsSequence(f.blocks) /\ IsSequence(f.scopes)
      /\ DOMAIN f.blocks = 1..Len(f.blocks)
      /\ \A i \in 1..Len(f.blocks) : IsBlock(f.blocks[i])
  BY CurrentInside DEF ReadingInv, Typed
<1>2. Top(f).after \in 1..Len(f.blocks)
  BY <1>1, TopScope DEF ReadingInv, ScopeOK, Soft
<1>3. Closed(f, Close(f), {Top(f).after})
  BY <1>1, <1>2, CloseEffect
<1>4. {Top(f).after} \subseteq Awaits(Top(f))
  BY DEF Awaits
<1> QED BY <1>3, <1>4, ClosedKeeps

LEMMA EndLoopKeeps ==
  ASSUME NEW f, ReadingInv(f)
  PROVE  ReadingInv(end_loop(f))
BY CloseInv, BadKeeps DEF end_loop, Ready

LEMMA EndIfKeeps ==
  ASSUME NEW f, ReadingInv(f)
  PROVE  ReadingInv(end_if(f))
<1>1. CASE ~InScope(f, "IF", {"BODY", "ELSE_BODY"})
  BY <1>1, BadKeeps DEF end_if
<1>2. CASE InScope(f, "IF", {"ELSE_BODY"})
  <2>1. end_if(f) = Close(f) /\ f.scopes # <<>>
    BY <1>2 DEF end_if, InScope
  <2> QED BY <2>1, CloseInv DEF Ready
<1>3. CASE InScope(f, "IF", {"BODY"})
  <2>1. PICK s, r : s = Top(f) /\ r = Resume(f, s.second)
    OBVIOUS
  <2>2. /\ f.scopes # <<>> /\ s.kind = "IF" /\ s.phase = "BODY"
        /\ end_if(f) = Close(r)
    BY <1>3, <2>1 DEF end_if, InScope
  <2>3. /\ Typed(f) /\ IsFrontend(f) /\ IsSequence(f.blocks) /\ IsSequence(f.scopes)
        /\ DOMAIN f.blocks = 1..Len(f.blocks)
        /\ \A i \in 1..Len(f.blocks) : IsBlock(f.blocks[i])
    BY CurrentInside DEF ReadingInv, Typed
  <2>4. s.after \in 1..Len(f.blocks) /\ s.second \in 1..Len(f.blocks)
    BY <2>1, <2>2, <2>3, TopScope DEF ScopeOK, Soft
  <2>5. /\ SameRest(f, r) /\ r.scopes = f.scopes
        /\ Touched(f.blocks, r.blocks, {s.second})
    BY <2>1, <2>3, <2>4, ResumeEffect
  <2>6. /\ IsFrontend(r) /\ IsSequence(r.blocks) /\ Len(r.blocks) = Len(f.blocks)
        /\ \A i \in 1..Len(r.blocks) : IsBlock(r.blocks[i])
    BY <2>5 DEF SameRest, Touched
  <2>7. Top(r) = s
    BY <2>1, <2>5 DEF Top
  <2>8. Closed(r, Close(r), {s.after})
    BY <2>2, <2>3, <2>4, <2>5, <2>6, <2>7, CloseEffect
  <2>9. Touched(f.blocks, Close(r).blocks, {s.second} \cup {s.after})
    BY <2>5, <2>8, TouchedTwice DEF Closed
  <2>10. Closed(f, Close(r), {s.second} \cup {s.after})
    BY <2>1, <2>5, <2>7, <2>8, <2>9 DEF Closed, SameRest
  <2>11. {s.second} \cup {s.after} \subseteq Awaits(s)
    BY <2>2 DEF Awaits, AwaitsSecond
  <2> QED BY <2>1, <2>2, <2>10, <2>11, ClosedKeeps DEF Ready
<1> QED BY <1>1, <1>2, <1>3 DEF InScope

LEMMA FinishEpilogueKeeps ==
  ASSUME NEW f, ReadingInv(f)
  PROVE  ReadingInv(finish_epilogue(f))
BY CloseInv, BadKeeps DEF finish_epilogue, InScope, Ready

\* The innermost scope in a stack, with a new phase or count.
Retops(s, r, t) ==
  /\ IsSequence(r) /\ Len(r) = Len(s) /\ r[Len(s)] = t
  /\ \A i \in 1..(Len(s) - 1) : r[i] = s[i]

LEMMA Retopped ==
  ASSUME NEW s, IsSequence(s), s # <<>>, NEW t, NEW r, r = [s EXCEPT ![Len(s)] = t]
  PROVE  Retops(s, r, t)
<1>1. PICK m \in Nat : m = Len(s)
  BY DEF IsSequence
<1>2. DOMAIN s = 1..m /\ m # 0
  BY <1>1 DEF IsSequence
<1>3. m \in 1..m /\ \A i \in 1..(m - 1) : i \in 1..m /\ i # m
  BY <1>2
<1>4. r = [i \in 1..m |-> IF i = m THEN t ELSE s[i]]
  BY <1>1, <1>2
<1>5. Len(r) = m
  BY <1>4
<1>7. r = [i \in 1..m |-> r[i]]
  BY <1>4
<1>6. r[m] = t /\ \A i \in 1..(m - 1) : r[i] = s[i]
  BY <1>3, <1>4
<1> QED BY <1>1, <1>5, <1>6, <1>7 DEF Retops, IsSequence

LEMMA Untouched ==
  ASSUME NEW f, Typed(f)
  PROVE  Touched(f.blocks, f.blocks, {})
BY DEF Typed, Touched

\* Scope s, or the same in another phase.
Rephased(s, phase) == [s EXCEPT !.phase = phase]
Recounted(s, phase, n) == [s EXCEPT !.phase = phase, !.delimiter_depth = n]

\* t is scope s in the phase, at n open parentheses.
InPhase(s, t, phase, n) ==
  /\ SameForm(s, t) /\ t.phase = phase /\ t.delimiter_depth = n
  /\ t = [x \in ScopeFields |-> t[x]]

LEMMA RecountedForm ==
  ASSUME NEW s, NEW blocks, ScopeOK(s, blocks), NEW phase, NEW n, NEW t,
         t = Recounted(s, phase, n)
  PROVE  InPhase(s, t, phase, n)
<1>1. s = [x \in ScopeFields |-> s[x]]
  BY DEF ScopeOK
<1> QED BY ONLY <1>1, t = Recounted(s, phase, n)
           DEF InPhase, SameForm, Recounted, ScopeFields

LEMMA RephasedForm ==
  ASSUME NEW s, NEW blocks, ScopeOK(s, blocks), NEW phase, NEW t, t = Rephased(s, phase)
  PROVE  InPhase(s, t, phase, s.delimiter_depth)
<1>1. s = [x \in ScopeFields |-> s[x]]
  BY DEF ScopeOK
<1> QED BY ONLY <1>1, t = Rephased(s, phase)
           DEF InPhase, SameForm, Rephased, ScopeFields

\* Else and Finally: g is f at the second part of the form.
AtSecond(f, g, s, phase, d) ==
  /\ f.scopes # <<>> /\ s = Top(f)
  /\ \/ s.kind = "IF" /\ s.phase = "BODY" /\ phase = "ELSE_BODY"
     \/ /\ s.kind = "EPILOGUE" /\ s.phase = "BODY" /\ ~s.implicit_end
        /\ phase = "CLEANUP"
  /\ d = s.parent_depth + (IF s.kind = "IF" THEN 1 ELSE 2)
  /\ g = [Resume(f, s.second) EXCEPT !.scopes[Len(f.scopes)].phase = phase, !.depth = d]

LEMMA SecondKeeps ==
  ASSUME NEW f, ReadingInv(f), NEW g, NEW s, NEW phase, NEW d, AtSecond(f, g, s, phase, d)
  PROVE  ReadingInv(g)
<1>0. /\ f.scopes # <<>> /\ s = Top(f)
      /\ \/ s.kind = "IF" /\ s.phase = "BODY" /\ phase = "ELSE_BODY"
         \/ /\ s.kind = "EPILOGUE" /\ s.phase = "BODY" /\ ~s.implicit_end
            /\ phase = "CLEANUP"
      /\ d = s.parent_depth + (IF s.kind = "IF" THEN 1 ELSE 2)
      /\ g = [Resume(f, s.second) EXCEPT !.scopes[Len(f.scopes)].phase = phase, !.depth = d]
  BY DEF AtSecond
<1> DEFINE t == Rephased(s, phase)
<1>1. /\ Typed(f) /\ IsFrontend(f) /\ IsSequence(f.blocks) /\ IsSequence(f.scopes)
      /\ DOMAIN f.blocks = 1..Len(f.blocks)
      /\ \A i \in 1..Len(f.blocks) : IsBlock(f.blocks[i])
      /\ f.cleanups \subseteq 1..Len(f.blocks)
  BY CurrentInside DEF ReadingInv, Typed
<1>2. /\ Len(f.scopes) \in 1..Len(f.scopes) /\ s = f.scopes[Len(f.scopes)]
      /\ ScopeOK(s, f.blocks) /\ DOMAIN f.scopes = 1..Len(f.scopes)
  BY <1>0, <1>1, TopScope DEF IsSequence
<1>3. s.second \in 1..Len(f.blocks) /\ Soft(f.blocks, s.second)
  BY <1>0, <1>1, <1>2 DEF ScopeOK, Soft
<1>4. PICK r : r = Resume(f, s.second)
  OBVIOUS
<1>5. /\ SameRest(f, r) /\ r.scopes = f.scopes /\ r.current = s.second
      /\ Touched(f.blocks, r.blocks, {s.second})
  BY <1>1, <1>3, <1>4, ResumeEffect
<1>6. /\ SameRest(f, g) /\ g.blocks = r.blocks /\ g.current = s.second /\ g.depth = d
      /\ g.scopes = [f.scopes EXCEPT ![Len(f.scopes)] = t]
  <2>1. g = [r EXCEPT !.scopes = [f.scopes EXCEPT ![Len(f.scopes)] = t], !.depth = d]
    BY <1>0, <1>2, <1>4, <1>5 DEF Rephased, SameRest, IsFrontend, Fields
  <2> HIDE DEF t
  <2> QED BY <1>5, <2>1 DEF SameRest, IsFrontend, Fields
<1>7. /\ SameForm(s, t) /\ t.phase = phase /\ t.delimiter_depth = s.delimiter_depth
      /\ t = [x \in ScopeFields |-> t[x]]
  <2>1. InPhase(s, t, phase, s.delimiter_depth)
    BY <1>2, RephasedForm
  <2> QED BY <2>1 DEF InPhase
<1> HIDE DEF t
<1>8. PhaseOK(t)
  <2>1. s.delimiter_depth \in Nat /\ ~(s.delimiter_depth > 0)
    BY <1>0, <1>2 DEF ScopeOK, Counts
  <2> QED BY <1>0, <1>7, <2>1 DEF PhaseOK, SameForm
<1>9. d \in Nat
  <2>1. s.parent_depth \in Nat
    BY <1>2 DEF ScopeOK
  <2>2. s.parent_depth + 1 \in Nat /\ s.parent_depth + 2 \in Nat
    BY <2>1
  <2> QED BY <1>0, <2>2
<1>10. Phased(f, g, t, {s.second})
  <2>1. Retops(f.scopes, g.scopes, t)
    BY <1>0, <1>1, <1>6, Retopped
  <2>2. SameForm(Top(f), t) /\ Touched(f.blocks, g.blocks, {s.second})
    BY <1>0, <1>5, <1>6, <1>7
  <2>3. /\ IsFrontend(g) /\ g.error = f.error /\ g.stray_var = f.stray_var
        /\ f.cleanups \subseteq g.cleanups /\ g.cleanups \subseteq 1..Len(f.blocks)
    BY <1>1, <1>6 DEF SameRest
  <2> QED BY <1>3, <1>6, <1>8, <1>9, <2>1, <2>2, <2>3 DEF Phased, Retops
<1>11. /\ Awaits(t) = {s.after} /\ s.second \in Awaits(s) /\ s.after \in Awaits(s)
       /\ s.second # s.after /\ s.kind # "LOOP" /\ ~Waits(t) /\ ~AwaitsFirst(t)
  BY <1>0, <1>2, <1>7 DEF Awaits, AwaitsFirst, AwaitsSecond, Waits, SameForm, ScopeOK
<1>12. DeepScope(f.blocks, s) => g.depth = Depth(f.blocks, g.current)
  BY <1>0, <1>6 DEF DeepScope
<1>13. /\ {s.second} \subseteq Awaits(s) \cup {f.current} /\ Awaits(t) \subseteq Awaits(s)
       /\ g.current \notin Awaits(t) /\ g.current \in Awaits(s)
  BY <1>6, <1>11
<1>14. GoesOn(f, g, s, t, {s.second})
  BY <1>0, <1>10, <1>11, <1>12, <1>13 DEF GoesOn
<1> QED BY <1>14, PhasedKeeps

LEMMA ElseKeeps ==
  ASSUME NEW f, ReadingInv(f)
  PROVE  ReadingInv(begin_else(f))
<1>1. CASE ~InScope(f, "IF", {"BODY"})
  BY <1>1, BadKeeps DEF begin_else
<1>2. CASE InScope(f, "IF", {"BODY"})
  <2>1. PICK s, d, g : /\ s = Top(f) /\ d = s.parent_depth + 1
                       /\ g = [Resume(f, s.second) EXCEPT
                                 !.scopes[Len(f.scopes)].phase = "ELSE_BODY", !.depth = d]
    OBVIOUS
  <2>2. begin_else(f) = g /\ f.scopes # <<>> /\ s.kind = "IF" /\ s.phase = "BODY"
    BY <1>2, <2>1 DEF begin_else, InScope
  <2>3. d = s.parent_depth + (IF s.kind = "IF" THEN 1 ELSE 2)
    BY <2>1, <2>2
  <2>4. AtSecond(f, g, s, "ELSE_BODY", d)
    BY <2>1, <2>2, <2>3 DEF AtSecond
  <2> QED BY <2>2, <2>4, SecondKeeps
<1> QED BY <1>1, <1>2

LEMMA CleanupKeeps ==
  ASSUME NEW f, ReadingInv(f)
  PROVE  ReadingInv(begin_cleanup(f))
<1>1. CASE ~InScope(f, "EPILOGUE", {"BODY"}) \/ Top(f).implicit_end
  BY <1>1, BadKeeps DEF begin_cleanup
<1>2. CASE InScope(f, "EPILOGUE", {"BODY"}) /\ ~Top(f).implicit_end
  <2>1. PICK s, d, g : /\ s = Top(f) /\ d = s.parent_depth + 2
                       /\ g = [Resume(f, s.second) EXCEPT
                                 !.scopes[Len(f.scopes)].phase = "CLEANUP", !.depth = d]
    OBVIOUS
  <2>2. /\ begin_cleanup(f) = g /\ f.scopes # <<>>
        /\ s.kind = "EPILOGUE" /\ s.phase = "BODY" /\ ~s.implicit_end
    BY <1>2, <2>1 DEF begin_cleanup, InScope
  <2>3. d = s.parent_depth + (IF s.kind = "IF" THEN 1 ELSE 2)
    BY <2>1, <2>2
  <2>4. AtSecond(f, g, s, "CLEANUP", d)
    BY <2>1, <2>2, <2>3 DEF AtSecond
  <2> QED BY <2>2, <2>4, SecondKeeps
<1> QED BY <1>1, <1>2

\* An operation is added to a range, or the range is made longer.
LEMMA EmitKeeps ==
  ASSUME NEW f, ReadingInv(f), NEW op
  PROVE  ReadingInv(EmitOp(f, op))
<1>1. /\ Typed(f) /\ IsFrontend(f) /\ IsSequence(f.blocks) /\ f.current \in 1..Len(f.blocks)
      /\ \A i \in 1..Len(f.blocks) : IsBlock(f.blocks[i])
  BY CurrentInside DEF ReadingInv, Typed
<1>2. PICK g : g = EmitOp(f, op)
  OBVIOUS
<1>3. PICK h : h = [f EXCEPT !.ops = Append(@, op)]
  OBVIOUS
<1>4. /\ SameRest(f, h) /\ h.blocks = f.blocks /\ h.scopes = f.scopes
      /\ h.current = f.current /\ h.depth = f.depth
  BY <1>1, <1>3 DEF IsFrontend, Fields, SameRest
<1>5. PICK b : b = SetLen(f.blocks[f.current], Len(h.ops) - StartOf(f.blocks[f.current]))
  OBVIOUS
<1>6. /\ SameRest(f, g) /\ g.scopes = f.scopes /\ g.current = f.current /\ g.depth = f.depth
      /\ Touched(f.blocks, g.blocks, {f.current})
  <2>1. CASE InScope(f, "IF", {"CONDITION"})
    <3>1. g = h
      BY <1>2, <1>3, <2>1 DEF EmitOp
    <3> QED BY <1>1, <1>4, <3>1, Untouched DEF Touched
  <2>2. CASE ~InScope(f, "IF", {"CONDITION"})
    <3>1. g = [h EXCEPT !.blocks = [f.blocks EXCEPT ![f.current] = b]]
      BY <1>2, <1>3, <1>4, <1>5, <2>2 DEF EmitOp, SameRest, IsFrontend, Fields
    <3>2. /\ SameRest(h, g) /\ g.scopes = h.scopes /\ g.current = h.current
          /\ g.depth = h.depth /\ g.blocks = [f.blocks EXCEPT ![f.current] = b]
      BY <1>4, <3>1 DEF SameRest, IsFrontend, Fields
    <3>3. IsBlock(b) /\ b.kind = f.blocks[f.current].kind
      BY <1>1, <1>5, SetKeeps
    <3>4. Touched(f.blocks, [f.blocks EXCEPT ![f.current] = b], {f.current})
      BY <1>1, <3>3, TouchBlock
    <3> QED BY <1>4, <3>2, <3>4 DEF SameRest
  <2> QED BY <2>1, <2>2
<1>7. Typed(g)
  <2>1. /\ f.error \in Errors /\ f.cleanups \subseteq 1..Len(f.blocks)
        /\ f.stray_var \in BOOLEAN /\ IsSequence(f.scopes) /\ f.depth \in Nat
        /\ Soft(f.blocks, f.current)
    BY <1>1 DEF Typed, Errors
  <2>2. IsFrontend(g) /\ g.error = f.error /\ g.cleanups = f.cleanups
        /\ g.stray_var = f.stray_var
    BY <1>6 DEF SameRest
  <2> QED BY <1>1, <1>6, <2>1, <2>2, TypedTouched
<1>8. ASSUME ~g.stray_var PROVE Built(g)
  <2>1. Built(f) /\ f.blocks[f.current].kind = "BASIC"
    BY <1>6, <1>8 DEF ReadingInv, SameRest, Built, Placed
  <2>2. Alike(f.blocks, g.blocks)
    BY <1>1, <1>6, <2>1, TouchedAlike
  <2>3. Still(f, g)
    BY <1>6, <2>2 DEF Still, SameRest
  <2> QED BY <1>1, <1>6, <2>1, <2>3, StillKeeps
<1> QED BY <1>2, <1>7, <1>8 DEF ReadingInv

\* A parenthesis is counted, or the one a scope waits for is opened: the blocks stay, and so
\* does where the frontend is.
Recounts(f, g, s, t, phase, n) ==
  /\ f.scopes # <<>> /\ s = Top(f) /\ t = Recounted(s, phase, n)
  /\ g = [f EXCEPT !.scopes = [f.scopes EXCEPT ![Len(f.scopes)] = t]]
  /\ PhaseOK(t)
  /\ Awaits(t) \subseteq Awaits(s)
  /\ t.kind = "IF" /\ Waits(t) => Waits(s)
  /\ AwaitsFirst(t) => AwaitsFirst(s)

LEMMA RecountKeeps ==
  ASSUME NEW f, ReadingInv(f), NEW g, NEW s, NEW t, NEW phase, NEW n,
         Recounts(f, g, s, t, phase, n)
  PROVE  ReadingInv(g)
<1>1. /\ f.scopes # <<>> /\ s = Top(f) /\ t = Recounted(s, phase, n)
      /\ g = [f EXCEPT !.scopes = [f.scopes EXCEPT ![Len(f.scopes)] = t]]
      /\ PhaseOK(t) /\ Awaits(t) \subseteq Awaits(s)
      /\ (t.kind = "IF" /\ Waits(t) => Waits(s)) /\ (AwaitsFirst(t) => AwaitsFirst(s))
  BY DEF Recounts
<1>2. /\ Typed(f) /\ IsFrontend(f) /\ IsSequence(f.scopes) /\ f.depth \in Nat
      /\ f.cleanups \subseteq 1..Len(f.blocks) /\ Soft(f.blocks, f.current)
  BY DEF ReadingInv, Typed
<1>3. /\ ScopeOK(s, f.blocks) /\ Len(f.scopes) \in 1..Len(f.scopes)
      /\ s = f.scopes[Len(f.scopes)]
  BY <1>1, <1>2, TopScope
<1>4. SameForm(s, t)
  BY <1>1, <1>3, RecountedForm DEF InPhase
<1>5. /\ SameRest(f, g) /\ g.blocks = f.blocks /\ g.current = f.current /\ g.depth = f.depth
      /\ g.scopes = [f.scopes EXCEPT ![Len(f.scopes)] = t]
  BY <1>1, <1>2 DEF SameRest, IsFrontend, Fields
<1>6. Retops(f.scopes, g.scopes, t)
  BY <1>1, <1>2, <1>5, Retopped
<1>7. Phased(f, g, t, {})
  <2>1. Touched(f.blocks, g.blocks, {})
    BY <1>2, <1>5, Untouched
  <2>2. SameForm(Top(f), t)
    BY <1>1, <1>4
  <2>3. /\ IsFrontend(g) /\ g.error = f.error /\ g.stray_var = f.stray_var
        /\ f.cleanups \subseteq g.cleanups /\ g.cleanups \subseteq 1..Len(f.blocks)
    BY <1>2, <1>5 DEF SameRest
  <2> QED BY <1>1, <1>2, <1>5, <1>6, <2>1, <2>2, <2>3 DEF Phased, Retops
<1>8. ASSUME ~f.stray_var
      PROVE  /\ g.current \notin Awaits(t)
             /\ t.kind = "IF" /\ Waits(t) => g.current = t.first
             /\ AwaitsFirst(t) /\ g.blocks[t.second].kind = "BASIC" => g.current = t.second
  <2>1. Placed(f.blocks, f.scopes, f.current)
    BY <1>8 DEF ReadingInv, Built
  <2>2. /\ f.current \notin Awaits(s)
        /\ s.kind = "IF" /\ Waits(s) => f.current = s.first
        /\ AwaitsFirst(s) /\ f.blocks[s.second].kind = "BASIC" => f.current = s.second
    BY <1>3, <2>1 DEF Placed
  <2>3. t.kind = s.kind /\ t.first = s.first /\ t.second = s.second
    BY <1>4 DEF SameForm
  <2> QED BY <1>1, <1>5, <2>2, <2>3
<1>9. GoesOn(f, g, s, t, {})
  <2>1. {} \subseteq Awaits(s) \cup {f.current}
    OBVIOUS
  <2> QED BY <1>1, <1>5, <1>7, <1>8, <2>1 DEF GoesOn
<1> QED BY <1>9, PhasedKeeps

\* A block whose parts are the same.
LEMMA TouchSame ==
  ASSUME NEW blocks, IsSequence(blocks), \A i \in 1..Len(blocks) : IsBlock(blocks[i]),
         NEW k \in 1..Len(blocks), NEW b, IsBlock(b), b.kind = blocks[k].kind,
         ChildrenOf(b) = ChildrenOf(blocks[k])
  PROVE  Touched(blocks, [blocks EXCEPT ![k] = b], {})
<1>1. Touched(blocks, [blocks EXCEPT ![k] = b], {k})
  BY TouchBlock
<1>2. [blocks EXCEPT ![k] = b][k] = b
  BY DEF IsSequence
<1> QED BY <1>1, <1>2 DEF Touched

\* The condition of a BRANCH has a length now.
Conditioned(b, n) == [b EXCEPT !.cond.len = n]

LEMMA ConditionedIsBlock ==
  ASSUME NEW b, IsBlock(b), b.kind = "BRANCH", NEW n
  PROVE  /\ IsBlock(Conditioned(b, n)) /\ Conditioned(b, n).kind = b.kind
         /\ ChildrenOf(Conditioned(b, n)) = ChildrenOf(b)
<1>1. PICK c : c = Conditioned(b, n)
  OBVIOUS
<1>2. PICK d : d = [b.cond EXCEPT !.len = n]
  OBVIOUS
<1>3. c = [b EXCEPT !.cond = d]
  BY <1>1, <1>2 DEF Conditioned
<1>4. /\ "kind" \in DOMAIN b /\ "yes" \in DOMAIN b /\ "no" \in DOMAIN b
      /\ b = [x \in DOMAIN b |-> b[x]]
  BY DEF IsBlock
<1>5. c = [x \in DOMAIN b |-> IF x = "cond" THEN d ELSE b[x]]
  BY <1>3, <1>4
<1>6. DOMAIN c = DOMAIN b /\ c.kind = b.kind /\ c.yes = b.yes /\ c.no = b.no
  BY <1>4, <1>5
<1>7. IsBlock(c)
  BY <1>4, <1>5, <1>6 DEF IsBlock, BlockKinds
<1>8. ChildrenOf(c) = ChildrenOf(b)
  BY <1>6 DEF ChildrenOf
<1> QED BY <1>1, <1>6, <1>7, <1>8

\* The parenthesis of a condition or of a cleanup is closed: h has the scope in phase BODY, and
\* g goes on at its first block.
Shuts(f, g, h, s, t, blocks, cleanups) ==
  /\ f.scopes # <<>> /\ s = Top(f) /\ t = Recounted(s, "BODY", 0) /\ Counts(s)
  /\ h = [f EXCEPT !.scopes = [f.scopes EXCEPT ![Len(f.scopes)] = t],
                   !.blocks = blocks, !.cleanups = cleanups]
  /\ Touched(f.blocks, blocks, {})
  /\ f.cleanups \subseteq cleanups /\ cleanups \subseteq 1..Len(f.blocks)
  /\ s.kind = "EPILOGUE" => s.second \in cleanups
  /\ g = Resume(h, s.first)

LEMMA ShutKeeps ==
  ASSUME NEW f, ReadingInv(f), NEW g, NEW h, NEW s, NEW t, NEW blocks, NEW cleanups,
         Shuts(f, g, h, s, t, blocks, cleanups)
  PROVE  ReadingInv(g)
<1>1. /\ f.scopes # <<>> /\ s = Top(f) /\ t = Recounted(s, "BODY", 0) /\ Counts(s)
      /\ h = [f EXCEPT !.scopes = [f.scopes EXCEPT ![Len(f.scopes)] = t],
                       !.blocks = blocks, !.cleanups = cleanups]
      /\ Touched(f.blocks, blocks, {})
      /\ f.cleanups \subseteq cleanups /\ cleanups \subseteq 1..Len(f.blocks)
      /\ (s.kind = "EPILOGUE" => s.second \in cleanups)
      /\ g = Resume(h, s.first)
  BY DEF Shuts
<1>2. /\ Typed(f) /\ IsFrontend(f) /\ IsSequence(f.scopes) /\ f.depth \in Nat
      /\ DOMAIN f.blocks = 1..Len(f.blocks)
  BY CurrentInside DEF ReadingInv, Typed
<1>3. /\ ScopeOK(s, f.blocks) /\ Len(f.scopes) \in 1..Len(f.scopes)
      /\ s = f.scopes[Len(f.scopes)]
  BY <1>1, <1>2, TopScope
<1>4. /\ s.kind # "LOOP" /\ s.first \in 1..Len(f.blocks) /\ Soft(f.blocks, s.first)
      /\ \/ s.kind = "IF" /\ s.phase = "CONDITION"
         \/ s.kind = "EPILOGUE" /\ s.implicit_end /\ s.phase = "CLEANUP"
      /\ s.first # s.after /\ s.first # s.second /\ s.second # s.after
  BY <1>1, <1>2, <1>3 DEF ScopeOK, Counts
<1>5. /\ SameForm(s, t) /\ t.phase = "BODY" /\ t.delimiter_depth = 0
      /\ t = [x \in ScopeFields |-> t[x]]
  BY <1>1, <1>3, RecountedForm DEF InPhase
<1>6. PhaseOK(t)
  <2>1. t.kind = s.kind /\ 0 \in Nat /\ ~(0 > 0)
    BY <1>5 DEF SameForm
  <2> QED BY <1>4, <1>5, <2>1 DEF PhaseOK
<1>7. /\ IsFrontend(h) /\ h.blocks = blocks /\ h.cleanups = cleanups /\ h.depth = f.depth
      /\ h.scopes = [f.scopes EXCEPT ![Len(f.scopes)] = t]
      /\ h.error = f.error /\ h.stray_var = f.stray_var
  BY <1>1, <1>2 DEF IsFrontend, Fields
<1>8. /\ SameRest(h, g) /\ g.scopes = h.scopes /\ g.depth = h.depth /\ g.current = s.first
      /\ Touched(h.blocks, g.blocks, {s.first})
  <2>1. /\ IsSequence(h.blocks) /\ Len(h.blocks) = Len(f.blocks)
        /\ \A i \in 1..Len(h.blocks) : IsBlock(h.blocks[i])
    BY <1>1, <1>7 DEF Touched
  <2>2. s.first \in 1..Len(h.blocks) /\ IsFrontend(h) /\ g = Resume(h, s.first)
    BY <1>1, <1>4, <1>7, <2>1
  <2> QED BY ONLY <2>1, <2>2, ResumeEffect
<1>9. Touched(f.blocks, g.blocks, {s.first})
  <2>1. Touched(f.blocks, g.blocks, {} \cup {s.first})
    BY <1>1, <1>7, <1>8, TouchedTwice
  <2> QED BY <2>1
<1>10. Phased(f, g, t, {s.first})
  <2>1. Retops(f.scopes, g.scopes, t)
    BY <1>1, <1>2, <1>7, <1>8, Retopped
  <2>2. SameForm(Top(f), t)
    BY <1>1, <1>5
  <2>3. /\ IsFrontend(g) /\ g.error = f.error /\ g.stray_var = f.stray_var
        /\ f.cleanups \subseteq g.cleanups /\ g.cleanups \subseteq 1..Len(f.blocks)
    BY <1>1, <1>7, <1>8 DEF SameRest
  <2>4. Soft(f.blocks, g.current) /\ g.depth \in Nat
    BY <1>2, <1>4, <1>7, <1>8
  <2> QED BY <1>6, <1>9, <2>1, <2>2, <2>3, <2>4 DEF Phased, Retops
<1>11. /\ ~Waits(t) /\ ~AwaitsFirst(t) /\ t.kind = s.kind /\ t.second = s.second
       /\ Awaits(t) = {s.after} \cup {k \in {s.second} : s.kind = "IF"}
       /\ Awaits(t) \subseteq Awaits(s)
       /\ s.kind = "EPILOGUE" => s.first \in Awaits(s) /\ AwaitsFirst(s)
       /\ s.kind = "IF" => Waits(s)
  BY <1>4, <1>5 DEF Awaits, AwaitsFirst, AwaitsSecond, Waits, SameForm
<1>12. g.current \notin Awaits(t)
  BY <1>4, <1>8, <1>11
<1>13. ASSUME Built(f), s.kind = "IF" PROVE f.current = s.first
  BY <1>3, <1>11, <1>13 DEF Built, Placed
<1>14. f.stray_var \/ g.current = f.current \/ g.current \in Awaits(s)
  BY <1>4, <1>8, <1>11, <1>13 DEF ReadingInv
<1>15. f.stray_var \/ {s.first} \subseteq Awaits(s) \cup {f.current}
  BY <1>8, <1>14
<1>16. ASSUME Plain(g), Built(f), f.depth = Depth(f.blocks, f.current),
              DeepScope(f.blocks, s)
       PROVE  g.depth = Depth(f.blocks, g.current)
  <2>1. CASE s.kind = "IF"
    BY <1>7, <1>8, <1>13, <1>16, <2>1
  <2>2. CASE s.kind = "EPILOGUE"
    <3>1. s.second \in g.cleanups
      BY <1>1, <1>7, <1>8, <2>2 DEF SameRest
    <3>2. g.blocks[s.second].kind = "BASIC"
      BY <1>16, <3>1 DEF Plain
    <3>3. s.second \in 1..Len(f.blocks)
      BY <1>1, <2>2
    <3>4. f.blocks[s.second].kind = "BASIC"
      BY <1>9, <3>2, <3>3 DEF Touched
    <3>5. f.current = s.second
      BY <1>3, <1>11, <1>16, <2>2, <3>4 DEF Built, Placed
    <3>6. Depth(f.blocks, s.first) = Depth(f.blocks, s.second)
      BY <1>16, <2>2 DEF DeepScope
    <3> QED BY <1>7, <1>8, <1>16, <3>5, <3>6
  <2> QED BY <1>4, <2>1, <2>2
<1>17. GoesOn(f, g, s, t, {s.first})
  BY <1>1, <1>4, <1>10, <1>11, <1>12, <1>14, <1>15, <1>16 DEF GoesOn
<1> QED BY <1>17, PhasedKeeps

\* The frontend with scope m as t, and with the two fields written one after the other.
Rescoped(f, m, t) == [f EXCEPT !.scopes = [f.scopes EXCEPT ![m] = t]]
CountFirst(f, m, phase, n) ==
  [f EXCEPT !.scopes[m].delimiter_depth = n, !.scopes[m].phase = phase]
PhaseFirst(f, m, phase, n) ==
  [f EXCEPT !.scopes[m].phase = phase, !.scopes[m].delimiter_depth = n]

LEMMA Recounting ==
  ASSUME NEW f, Typed(f), f.scopes # <<>>, NEW phase, NEW n
  PROVE  /\ CountFirst(f, Len(f.scopes), phase, n) =
              Rescoped(f, Len(f.scopes), Recounted(Top(f), phase, n))
         /\ PhaseFirst(f, Len(f.scopes), phase, n) =
              Rescoped(f, Len(f.scopes), Recounted(Top(f), phase, n))
<1>0. PICK m : m = Len(f.scopes)
  OBVIOUS
<1>1. PICK s : s = Top(f)
  OBVIOUS
<1>2. /\ IsFrontend(f) /\ m \in DOMAIN f.scopes /\ s = f.scopes[m]
      /\ s = [x \in ScopeFields |-> s[x]]
  BY <1>0, <1>1, TopScope DEF Typed, IsSequence, ScopeOK
<1>3. /\ [s EXCEPT !.delimiter_depth = n, !.phase = phase] = Recounted(s, phase, n)
      /\ [s EXCEPT !.phase = phase, !.delimiter_depth = n] = Recounted(s, phase, n)
  BY <1>2 DEF Recounted, ScopeFields
<1>4. PICK r : r = [f.scopes EXCEPT ![m] = Recounted(s, phase, n)]
  OBVIOUS
<1>5. /\ [f.scopes EXCEPT ![m].delimiter_depth = n, ![m].phase = phase] = r
      /\ [f.scopes EXCEPT ![m].phase = phase, ![m].delimiter_depth = n] = r
  BY <1>2, <1>3, <1>4
<1>6. /\ [f EXCEPT !.scopes[m].delimiter_depth = n, !.scopes[m].phase = phase] =
           [f EXCEPT !.scopes = r]
      /\ [f EXCEPT !.scopes[m].phase = phase, !.scopes[m].delimiter_depth = n] =
           [f EXCEPT !.scopes = r]
  BY <1>2, <1>5 DEF IsFrontend, Fields
<1> QED BY <1>0, <1>1, <1>4, <1>6 DEF Rescoped, CountFirst, PhaseFirst

\* The parenthesis that the innermost scope waits for.
LEMMA OpeningKeeps ==
  ASSUME NEW f, ReadingInv(f), f.scopes # <<>>,
         Top(f).phase \in {"WAIT_OPEN", "CLEANUP_WAIT_OPEN"}
  PROVE  ReadingInv(handle_delimiter(f, TRUE))
<1>1. PICK s, m, phase, g :
        /\ s = Top(f) /\ m = Len(f.scopes) /\ g = handle_delimiter(f, TRUE)
        /\ phase = IF s.kind = "IF" THEN "CONDITION" ELSE "CLEANUP"
  OBVIOUS
<1>2. ScopeOK(s, f.blocks) /\ Typed(f)
  BY <1>1, TopScope DEF ReadingInv
<1>3. /\ \/ s.kind = "IF" /\ s.phase = "WAIT_OPEN" /\ phase = "CONDITION"
         \/ /\ s.kind = "EPILOGUE" /\ s.phase = "CLEANUP_WAIT_OPEN" /\ s.implicit_end
            /\ phase = "CLEANUP"
  BY <1>1, <1>2 DEF ScopeOK
<1>4. g = CountFirst(f, m, phase, 1)
  <2>1. s.delimiter_depth \in Nat /\ ~(s.delimiter_depth > 0)
    BY <1>2, <1>3 DEF ScopeOK, Counts
  <2>2. s.delimiter_depth = 0
    BY <2>1
  <2>3. g = [f EXCEPT !.scopes[m].delimiter_depth = 1,
                      !.scopes[m].phase = IF s.kind = "IF" THEN "CONDITION" ELSE "CLEANUP"]
    BY <1>1, <2>2 DEF handle_delimiter
  <2> QED BY <1>1, <2>3 DEF CountFirst
<1>5. PICK t : t = Recounted(s, phase, 1)
  OBVIOUS
<1>6. g = [f EXCEPT !.scopes = [f.scopes EXCEPT ![m] = t]]
  <2>1. g = Rescoped(f, m, t)
    BY <1>1, <1>2, <1>4, <1>5, Recounting
  <2> QED BY <2>1 DEF Rescoped
<1>7. InPhase(s, t, phase, 1)
  BY <1>2, <1>5, RecountedForm
<1>8. /\ PhaseOK(t) /\ Awaits(t) \subseteq Awaits(s)
      /\ (t.kind = "IF" /\ Waits(t) => Waits(s)) /\ (AwaitsFirst(t) => AwaitsFirst(s))
  BY <1>3, <1>7 DEF InPhase, SameForm, PhaseOK, Counts, Awaits, AwaitsFirst, AwaitsSecond,
                    Waits
<1>9. Recounts(f, g, s, t, phase, 1)
  BY <1>1, <1>5, <1>6, <1>8 DEF Recounts
<1> QED BY <1>1, <1>9, RecountKeeps

\* A parenthesis in parentheses.
LEMMA CountingKeeps ==
  ASSUME NEW f, ReadingInv(f), f.scopes # <<>>, NEW opening \in BOOLEAN,
         Top(f).delimiter_depth > 1 \/ (Top(f).delimiter_depth = 1 /\ opening)
  PROVE  ReadingInv(handle_delimiter(f, opening))
<1>1. PICK s, m, n, g :
        /\ s = Top(f) /\ m = Len(f.scopes) /\ g = handle_delimiter(f, opening)
        /\ n = IF opening THEN s.delimiter_depth + 1 ELSE s.delimiter_depth - 1
  OBVIOUS
<1>2. /\ ScopeOK(s, f.blocks) /\ Typed(f) /\ m \in DOMAIN f.scopes /\ s = f.scopes[m]
      /\ IsFrontend(f)
  BY <1>1, TopScope DEF ReadingInv, Typed, IsSequence
<1>3. s.delimiter_depth \in Nat /\ s.delimiter_depth > 0 /\ n \in Nat /\ n > 0
  <2>1. s.delimiter_depth \in Nat
    BY <1>2 DEF ScopeOK
  <2> QED BY <1>1, <2>1
<1>4. /\ Counts(s) /\ s.implicit_end \in BOOLEAN
      /\ s.phase \notin {"WAIT_OPEN", "CLEANUP_WAIT_OPEN"}
  BY <1>2, <1>3 DEF ScopeOK, Counts
<1>5. g = [f EXCEPT !.scopes[m].delimiter_depth = n]
  <2>1. g = [f EXCEPT !.scopes[m].delimiter_depth = IF opening THEN @ + 1 ELSE @ - 1]
    BY <1>1, <1>4 DEF handle_delimiter
  <2> QED BY <1>1, <1>2, <2>1 DEF IsFrontend, Fields
<1>6. PICK t : t = Recounted(s, s.phase, n)
  OBVIOUS
<1>7. g = [f EXCEPT !.scopes = [f.scopes EXCEPT ![m] = t]]
  <2>1. s = [x \in ScopeFields |-> s[x]]
    BY <1>2 DEF ScopeOK
  <2>2. [s EXCEPT !.delimiter_depth = n] = t
    BY <1>6, <2>1 DEF Recounted, ScopeFields
  <2>3. [f.scopes EXCEPT ![m].delimiter_depth = n] = [f.scopes EXCEPT ![m] = t]
    BY <1>2, <2>2
  <2> QED BY <1>2, <1>5, <2>3 DEF IsFrontend, Fields
<1>8. InPhase(s, t, s.phase, n)
  BY <1>2, <1>6, RecountedForm
<1>9. /\ PhaseOK(t) /\ Awaits(t) \subseteq Awaits(s)
      /\ (t.kind = "IF" /\ Waits(t) => Waits(s)) /\ (AwaitsFirst(t) => AwaitsFirst(s))
  BY <1>3, <1>4, <1>8 DEF InPhase, SameForm, PhaseOK, Counts, Awaits, AwaitsFirst,
                          AwaitsSecond, Waits
<1>10. Recounts(f, g, s, t, s.phase, n)
  BY <1>1, <1>6, <1>7, <1>9 DEF Recounts
<1> QED BY <1>1, <1>10, RecountKeeps

\* The closing parenthesis.
LEMMA ShuttingKeeps ==
  ASSUME NEW f, ReadingInv(f), f.scopes # <<>>, Top(f).delimiter_depth = 1
  PROVE  ReadingInv(handle_delimiter(f, FALSE))
<1>1. PICK s, m, g : /\ s = Top(f) /\ m = Len(f.scopes) /\ g = handle_delimiter(f, FALSE)
  OBVIOUS
<1>2. /\ ScopeOK(s, f.blocks) /\ Typed(f) /\ m \in DOMAIN f.scopes /\ s = f.scopes[m]
      /\ IsFrontend(f) /\ IsSequence(f.blocks) /\ f.cleanups \subseteq 1..Len(f.blocks)
      /\ DOMAIN f.blocks = 1..Len(f.blocks)
      /\ \A i \in 1..Len(f.blocks) : IsBlock(f.blocks[i])
  BY <1>1, TopScope DEF ReadingInv, Typed, IsSequence
<1>3. /\ Counts(s) /\ s.phase \notin {"WAIT_OPEN", "CLEANUP_WAIT_OPEN"}
      /\ s.kind = "IF" \/ s.kind = "EPILOGUE"
  BY <1>1, <1>2 DEF ScopeOK, Counts
<1>4. PICK t, p, r :
        /\ t = Recounted(s, "BODY", 0) /\ r = [f.scopes EXCEPT ![m] = t]
        /\ p = [f EXCEPT !.scopes[m].phase = "BODY", !.scopes[m].delimiter_depth = 0]
  OBVIOUS
<1>5. p = [f EXCEPT !.scopes = r]
  <2>1. p = PhaseFirst(f, m, "BODY", 0)
    BY <1>4 DEF PhaseFirst
  <2>3. Typed(f) /\ f.scopes # <<>>
    BY <1>2
  <2>4. PhaseFirst(f, Len(f.scopes), "BODY", 0) =
          Rescoped(f, Len(f.scopes), Recounted(Top(f), "BODY", 0))
    BY ONLY <2>3, Recounting
  <2>2. p = Rescoped(f, m, t)
    BY ONLY <1>1, <1>4, <2>1, <2>4
  <2> QED BY <1>4, <2>2 DEF Rescoped
<1>6. CASE s.kind = "IF"
  <2>1. PICK n, b, blocks, h :
          /\ n = Len(f.ops) - f.blocks[s.block].cond.start
          /\ b = Conditioned(f.blocks[s.block], n)
          /\ blocks = [f.blocks EXCEPT ![s.block] = b]
          /\ h = [f EXCEPT !.scopes = r, !.blocks = blocks, !.cleanups = f.cleanups]
    OBVIOUS
  <2>2. g = Resume([p EXCEPT !.blocks[s.block].cond.len = n], s.first)
    BY <1>1, <1>3, <1>4, <1>6, <2>1 DEF handle_delimiter
  <2>3. [p EXCEPT !.blocks[s.block].cond.len = n] = h
    <3>1. s.block \in DOMAIN f.blocks
      BY <1>2 DEF ScopeOK
    <3>2. p.blocks = f.blocks
      BY <1>2, <1>5 DEF IsFrontend, Fields
    <3>3. [p.blocks EXCEPT ![s.block].cond.len = n] = blocks
      BY <2>1, <3>1, <3>2 DEF Conditioned
    <3>4. [p EXCEPT !.blocks[s.block].cond.len = n] = [p EXCEPT !.blocks = blocks]
      BY <3>3, <1>2, <1>5 DEF IsFrontend, Fields
    <3> QED BY <1>2, <1>5, <2>1, <3>4 DEF IsFrontend, Fields
  <2>4. Touched(f.blocks, blocks, {})
    <3>1. s.block \in 1..Len(f.blocks) /\ f.blocks[s.block].kind = "BRANCH"
          /\ IsBlock(f.blocks[s.block])
      BY <1>2, <1>6 DEF ScopeOK, MiddleKind
    <3>2. /\ IsBlock(b) /\ b.kind = f.blocks[s.block].kind
          /\ ChildrenOf(b) = ChildrenOf(f.blocks[s.block])
      BY <2>1, <3>1, ConditionedIsBlock
    <3> QED BY <1>2, <2>1, <3>1, <3>2, TouchSame
  <2>5. Shuts(f, g, h, s, t, blocks, f.cleanups)
    BY <1>1, <1>2, <1>3, <1>4, <1>6, <2>1, <2>2, <2>3, <2>4 DEF Shuts
  <2> QED BY <1>1, <2>5, ShutKeeps
<1>7. CASE s.kind = "EPILOGUE"
  <2>1. PICK cleanups, h :
          /\ cleanups = f.cleanups \cup {s.second}
          /\ h = [f EXCEPT !.scopes = r, !.blocks = f.blocks, !.cleanups = cleanups]
    OBVIOUS
  <2>2. g = Resume([p EXCEPT !.cleanups = @ \cup {s.second}], s.first)
    BY <1>1, <1>3, <1>4, <1>7 DEF handle_delimiter
  <2>3. [p EXCEPT !.cleanups = @ \cup {s.second}] = h
    BY <1>2, <1>5, <2>1 DEF IsFrontend, Fields
  <2>4. Touched(f.blocks, f.blocks, {})
    BY <1>2, Untouched
  <2>5. cleanups \subseteq 1..Len(f.blocks) /\ s.second \in cleanups
        /\ f.cleanups \subseteq cleanups
    <3>1. s.second \in 1..Len(f.blocks)
      BY <1>2, <1>7 DEF ScopeOK, Soft
    <3> QED BY <1>2, <2>1, <3>1
  <2>6. Shuts(f, g, h, s, t, f.blocks, cleanups)
    BY <1>1, <1>3, <1>4, <2>1, <2>2, <2>3, <2>4, <2>5 DEF Shuts
  <2> QED BY <1>1, <2>6, ShutKeeps
<1> QED BY <1>3, <1>6, <1>7

LEMMA DelimiterKeeps ==
  ASSUME NEW f, ReadingInv(f), NEW opening \in BOOLEAN
  PROVE  ReadingInv(handle_delimiter(f, opening))
<1>1. CASE f.scopes = <<>>
  BY <1>1 DEF handle_delimiter
<1>2. CASE f.scopes # <<>> /\ Top(f).phase \in {"WAIT_OPEN", "CLEANUP_WAIT_OPEN"}
  <2>1. CASE opening = TRUE
    BY <1>2, <2>1, OpeningKeeps
  <2>2. CASE opening = FALSE
    <3>0. ScopeOK(Top(f), f.blocks)
      BY <1>2, TopScope DEF ReadingInv
    <3>3. Top(f).delimiter_depth \in Nat /\ ~(Top(f).delimiter_depth > 0)
      BY <1>2, <3>0 DEF ScopeOK, Counts
    <3>4. Top(f).delimiter_depth = 0
      BY <3>3
    <3>1. handle_delimiter(f, FALSE) = Bad(f)
      BY <1>2, <3>4 DEF handle_delimiter
    <3> QED BY <2>2, <3>1, BadKeeps
  <2> QED BY <2>1, <2>2
<1>3. CASE /\ f.scopes # <<>>
           /\ Top(f).delimiter_depth > 1 \/ (Top(f).delimiter_depth = 1 /\ opening)
  BY <1>3, CountingKeeps
<1>4. CASE f.scopes # <<>> /\ Top(f).delimiter_depth = 1 /\ ~opening
  <2>1. opening = FALSE
    BY <1>4
  <2> QED BY <1>4, <2>1, ShuttingKeeps
<1>5. CASE /\ f.scopes # <<>> /\ Top(f).phase \notin {"WAIT_OPEN", "CLEANUP_WAIT_OPEN"}
           /\ Top(f).delimiter_depth = 0
  <2>1. handle_delimiter(f, opening) = f
    BY <1>5 DEF handle_delimiter
  <2> QED BY <2>1
<1> QED
  <2>1. CASE f.scopes # <<>>
    <3>1. Top(f).delimiter_depth \in Nat
      BY <2>1, TopScope DEF ReadingInv, ScopeOK
    <3>2. \/ Top(f).delimiter_depth > 1 \/ Top(f).delimiter_depth = 1
          \/ Top(f).delimiter_depth = 0
      BY <3>1
    <3> QED BY <1>2, <1>3, <1>4, <1>5, <2>1, <3>2
  <2> QED BY <1>1, <2>1

-----------------------------------------------------------------------------
(* Variables, and the way out of a loop.                                   *)

\* g is f after Var: the current block is wrapped around a VAR that takes what follows.
Declared(f, g) ==
  LET n == Len(f.blocks) IN
  /\ IsFrontend(g) /\ g.error = f.error /\ g.cleanups = f.cleanups
  /\ g.scopes = f.scopes /\ g.current = n + 4 /\ g.depth = f.depth + 2
  /\ g.stray_var = (f.stray_var \/ InScope(f, "IF", {"CONDITION"}))
  /\ IsSequence(g.blocks) /\ Len(g.blocks) = n + 4
  /\ \A i \in 1..n : i # f.current => g.blocks[i] = f.blocks[i]
  /\ g.blocks[f.current] = Many(n + 1, n + 3)
  /\ g.blocks[n + 1] = f.blocks[f.current]
  /\ g.blocks[n + 2] = [kind |-> "VAR", var |-> Len(f.vars) + 1, body |-> n + 4]
  /\ g.blocks[n + 3] = Chain(n + 2, NoBlock)
  /\ g.blocks[n + 4] = NewBasic(f)

LEMMA DeclareEffect ==
  ASSUME NEW f, IsFrontend(f), IsSequence(f.blocks), f.current \in 1..Len(f.blocks),
         NEW name, name \notin ToSet(f.names)
  PROVE  Declared(f, declare_var(f, name))
<1> DEFINE n == Len(f.blocks)
           var == [kind |-> "VAR", var |-> Len(f.vars) + 1, body |-> n + 4]
           four == <<f.blocks[f.current], var, Chain(n + 2, NoBlock), NewBasic(f)>>
           long == f.blocks \o four
           many == Many(n + 1, n + 3)
           blocks == [long EXCEPT ![f.current] = many]
           S == {f.blocks[i] : i \in 1..n} \cup
                  {var, Chain(n + 2, NoBlock), NewBasic(f)}
<1>0. PICK g : g = declare_var(f, name)
  OBVIOUS
<1>1. g = [f EXCEPT !.vars = Append(@, VarType[name]), !.names = Append(@, name),
             !.blocks = blocks, !.current = n + 4, !.depth = @ + 2,
             !.stray_var = @ \/ InScope(f, "IF", {"CONDITION"})]
  BY <1>0 DEF declare_var
<1>2. n \in Nat /\ f.blocks \in Seq(S) /\ four \in Seq(S) /\ Len(four) = 4
  BY DEF IsSequence
<1>3. /\ long \in Seq(S) /\ Len(long) = n + 4
      /\ \A i \in 1..n : long[i] = f.blocks[i]
      /\ \A i \in 1..4 : long[n + i] = four[i]
  BY SMTT(30), <1>2
<1>4. /\ long[n + 1] = f.blocks[f.current] /\ long[n + 2] = var
      /\ long[n + 3] = Chain(n + 2, NoBlock) /\ long[n + 4] = NewBasic(f)
  BY <1>3
<1> HIDE DEF S, long, four, many
<1>5. IsSequence(blocks) /\ Len(blocks) = n + 4
  <2>1. IsSequence(long) /\ DOMAIN long = 1..(n + 4)
    BY <1>3, SequencesAre
  <2>2. blocks = [i \in 1..(n + 4) |-> IF i = f.current THEN many ELSE long[i]]
    BY <2>1
  <2>3. n + 4 \in Nat
    BY <1>2
  <2> HIDE DEF blocks
  <2>4. Len(blocks) = n + 4
    BY <2>2, <2>3
  <2>5. blocks = [i \in 1..Len(blocks) |-> blocks[i]]
    BY <2>2, <2>4
  <2> QED BY <2>3, <2>4, <2>5 DEF IsSequence
<1>6. /\ \A i \in 1..(n + 4) : i # f.current => blocks[i] = long[i]
      /\ blocks[f.current] = many
  BY <1>2, <1>3
<1> HIDE DEF blocks
<1>7. /\ IsFrontend(g) /\ g.error = f.error /\ g.cleanups = f.cleanups
      /\ g.scopes = f.scopes /\ g.current = n + 4 /\ g.depth = f.depth + 2
      /\ g.stray_var = (f.stray_var \/ InScope(f, "IF", {"CONDITION"}))
      /\ g.blocks = blocks
  BY <1>1 DEF IsFrontend, Fields
<1>8. /\ \A i \in 1..n : i # f.current => blocks[i] = f.blocks[i]
      /\ blocks[n + 1] = long[n + 1] /\ blocks[n + 2] = long[n + 2]
      /\ blocks[n + 3] = long[n + 3] /\ blocks[n + 4] = long[n + 4]
  <2>1. /\ \A i \in 1..n : i \in 1..(n + 4)
        /\ n + 1 \in 1..(n + 4) /\ n + 1 # f.current
        /\ n + 2 \in 1..(n + 4) /\ n + 2 # f.current
        /\ n + 3 \in 1..(n + 4) /\ n + 3 # f.current
        /\ n + 4 \in 1..(n + 4) /\ n + 4 # f.current
    BY <1>2
  <2>2. \A i \in 1..n : i # f.current => blocks[i] = f.blocks[i]
    BY <1>3, <1>6, <2>1
  <2> QED BY <1>6, <2>1, <2>2
<1>9. /\ blocks[f.current] = Many(n + 1, n + 3)
      /\ blocks[n + 1] = f.blocks[f.current] /\ blocks[n + 2] = var
      /\ blocks[n + 3] = Chain(n + 2, NoBlock) /\ blocks[n + 4] = NewBasic(f)
  BY <1>4, <1>6, <1>8 DEF many
<1> QED BY <1>0, <1>5, <1>7, <1>8, <1>9 DEF Declared

LEMMA GrownTyped ==
  ASSUME NEW f, Typed(f), NEW g, IsFrontend(g), NEW m, m \in Nat,
         m >= Len(f.blocks), IsSequence(g.blocks), Len(g.blocks) = m,
         \A i \in 1..Len(f.blocks) : i # f.current => g.blocks[i] = f.blocks[i],
         g.blocks[f.current].kind = "MANY",
         \A i \in 1..m : IsBlock(g.blocks[i]),
         g.scopes = f.scopes, Soft(g.blocks, g.current), g.depth \in Nat,
         g.error \in Errors, g.cleanups = f.cleanups, g.stray_var \in BOOLEAN
  PROVE  Typed(g)
<1>1. /\ Len(f.blocks) \in Nat /\ DOMAIN f.blocks = 1..Len(f.blocks)
      /\ f.blocks[f.current].kind \in {"BASIC", "MANY"}
      /\ IsSequence(f.scopes) /\ f.cleanups \subseteq 1..Len(f.blocks)
  BY CurrentInside DEF Typed
<1>2. DOMAIN g.blocks = 1..m /\ 1..Len(f.blocks) \subseteq 1..m
  BY <1>1 DEF IsSequence
<1>3. KindsKept(f.blocks, g.blocks)
  BY <1>1, <1>2 DEF KindsKept
<1>4. \A i \in 1..Len(g.scopes) : i \in 1..Len(f.scopes) /\ g.scopes[i] = f.scopes[i]
  OBVIOUS
<1>5. g.cleanups \subseteq 1..Len(g.blocks) /\ IsSequence(g.scopes)
  BY <1>1, <1>2
<1>6. \A i \in 1..Len(g.blocks) : IsBlock(g.blocks[i])
  OBVIOUS
<1> QED BY <1>3, <1>4, <1>5, <1>6, TypedKept

LEMMA DeclareKeeps ==
  ASSUME NEW f, ReadingInv(f), NEW name,
         f.scopes = <<>> \/ Top(f).phase # "WAIT_OPEN"
  PROVE  ReadingInv(declare_var(f, name))
<1>1. CASE name \in ToSet(f.names)
  BY <1>1, FailKeeps DEF declare_var, Errors
<1>2. CASE name \notin ToSet(f.names)
  <2> DEFINE n == Len(f.blocks)
  <2>1. PICK g : g = declare_var(f, name)
    OBVIOUS
  <2>2. /\ Typed(f) /\ n \in Nat /\ f.current \in 1..n /\ f.depth \in Nat
        /\ DOMAIN f.blocks = 1..n /\ IsFrontend(f) /\ IsSequence(f.blocks)
        /\ \A i \in 1..n : IsBlock(f.blocks[i])
    BY CurrentInside DEF ReadingInv, Typed
  <2>3. Declared(f, g)
    BY <1>2, <2>1, <2>2, DeclareEffect
  <2>4. /\ IsFrontend(g) /\ g.error = f.error /\ g.cleanups = f.cleanups
        /\ g.scopes = f.scopes /\ g.current = n + 4 /\ g.depth = f.depth + 2
        /\ g.stray_var = (f.stray_var \/ InScope(f, "IF", {"CONDITION"}))
        /\ IsSequence(g.blocks) /\ Len(g.blocks) = n + 4 /\ DOMAIN g.blocks = 1..(n + 4)
        /\ \A i \in 1..n : i # f.current => g.blocks[i] = f.blocks[i]
    BY <2>3 DEF Declared, IsSequence
  <2>5. /\ g.blocks[f.current] = Many(n + 1, n + 3)
        /\ g.blocks[n + 1] = f.blocks[f.current]
        /\ g.blocks[n + 2] = [kind |-> "VAR", var |-> Len(f.vars) + 1, body |-> n + 4]
        /\ g.blocks[n + 3] = Chain(n + 2, NoBlock)
        /\ g.blocks[n + 4] = NewBasic(f)
    BY <2>3 DEF Declared
  <2>6. g.blocks[f.current].kind = "MANY" /\ g.blocks[n + 4].kind = "BASIC"
    BY <2>5, BlocksAre DEF NewBasic
  <2>7. Typed(g)
    <3>1. ASSUME NEW i \in 1..(n + 4) PROVE IsBlock(g.blocks[i])
      <4>1. CASE i \in 1..n
        <5>1. CASE i = f.current
          BY <2>5, <5>1, BlocksAre
        <5>2. CASE i # f.current
          BY <2>2, <2>4, <4>1, <5>2
        <5> QED BY <5>1, <5>2
      <4>2. CASE i \in {n + 1, n + 2, n + 3, n + 4}
        <5>1. /\ IsBlock(f.blocks[f.current]) /\ IsBlock(NewBasic(f))
              /\ IsBlock(Chain(n + 2, NoBlock))
              /\ IsBlock([kind |-> "VAR", var |-> Len(f.vars) + 1, body |-> n + 4])
          BY <2>2, BlocksAre DEF NewBasic
        <5> QED BY <2>5, <4>2, <5>1
      <4>3. i \in 1..n \/ i \in {n + 1, n + 2, n + 3, n + 4}
        BY <2>2
      <4> QED BY <4>1, <4>2, <4>3
    <3>2. Soft(g.blocks, g.current) /\ g.depth \in Nat /\ n + 4 \in Nat /\ n + 4 >= n
      BY <2>2, <2>4, <2>6 DEF Soft
    <3>3. g.error \in Errors /\ g.stray_var \in BOOLEAN
      <4>1. f.error \in Errors /\ f.stray_var \in BOOLEAN
        BY <2>2 DEF Typed, Errors
      <4>2. InScope(f, "IF", {"CONDITION"}) \in BOOLEAN
        BY DEF InScope
      <4> QED BY <2>4, <4>1, <4>2
    <3> QED BY <2>2, <2>4, <2>6, <3>1, <3>2, <3>3, GrownTyped
  <2>8. ASSUME ~g.stray_var PROVE Built(g)
    <3>1. ~f.stray_var /\ ~InScope(f, "IF", {"CONDITION"})
      BY <2>2, <2>4, <2>8 DEF Typed, InScope
    <3>2. Built(f) /\ IsBlockTree(f.blocks) /\ f.blocks[f.current].kind = "BASIC"
      BY <3>1 DEF ReadingInv, Built, Placed
    <3>3. f.scopes = <<>> \/ ~(Top(f).kind = "IF" /\ Waits(Top(f)))
      <4>1. CASE f.scopes # <<>>
        <5>1. ScopeOK(Top(f), f.blocks)
          BY <2>2, <4>1, TopScope
        <5> QED BY <3>1, <4>1, <5>1 DEF ScopeOK, InScope, Waits
      <4> QED BY <4>1
    <3>4. VarGrown(f.blocks, g.blocks, f.current)
      <4>1. Kept(f.blocks, g.blocks, f.current, 4)
        BY <2>2, <2>4, <3>2 DEF Kept
      <4>2. /\ g.blocks[n + 1].kind = "BASIC"
            /\ g.blocks[n + 2].kind = "VAR" /\ ChildrenOf(g.blocks[n + 2]) = <<n + 4>>
        BY <2>5, <3>2 DEF ChildrenOf
      <4> QED BY <2>5, <2>6, <4>1, <4>2 DEF VarGrown
    <3>5. VarTree(f.blocks, g.blocks, f.current)
      BY <3>2, <3>4, VarGrows
    <3>6. Grew(f, g, 4)
      BY <2>4, <2>6, <3>4, <3>5 DEF Grew, VarGrown, VarTree, SameTree
    <3>7. g.current \in (n + 1)..Len(g.blocks) /\ g.blocks[g.current].kind = "BASIC"
      BY <2>2, <2>4, <2>6
    <3>8. /\ LoopsAround(g.blocks, g.current) = LoopsAround(f.blocks, f.current)
          /\ f.depth = Depth(f.blocks, f.current) => g.depth = Depth(g.blocks, g.current)
      BY <2>4, <3>5 DEF VarTree
    <3> QED BY <2>2, <2>4, <3>2, <3>3, <3>6, <3>7, <3>8, GrowKeeps
  <2> QED BY <2>1, <2>7, <2>8 DEF ReadingInv
<1> QED BY <1>1, <1>2

LEMMA LargestIn ==
  ASSUME NEW m \in Nat, NEW T, T \subseteq 1..m, T # {}
  PROVE  \E x \in T : \A y \in T : y <= x
<1> DEFINE U == {m - t : t \in T}
<1>1. U \subseteq Nat /\ U # {}
  <2>1. ASSUME NEW t \in T PROVE m - t \in Nat
    OBVIOUS
  <2>2. PICK t \in T : TRUE
    OBVIOUS
  <2>3. m - t \in U
    OBVIOUS
  <2> QED BY <2>1, <2>3
<1> HIDE DEF U
<1>2. PICK u \in U : \A v \in U : u <= v
  BY <1>1, LeastNumber
<1> USE DEF U
<1>3. PICK x \in T : u = m - x
  OBVIOUS
<1>4. ASSUME NEW y \in T PROVE y <= x
  <2>1. m - y \in U
    OBVIOUS
  <2>2. m - x <= m - y /\ x \in Int /\ y \in Int
    BY <1>2, <1>3, <2>1
  <2> QED BY <2>2
<1> QED BY <1>4

\* Scope k is the innermost open loop.
InnermostLoop(f, k) ==
  /\ k \in 1..Len(f.scopes) /\ f.scopes[k].kind = "LOOP"
  /\ \A j \in 1..Len(f.scopes) : f.scopes[j].kind = "LOOP" => j <= k
ExitTarget(s, is_continue) == IF is_continue THEN s.continue_depth ELSE s.break_depth

\* g is f after Break or Continue.
Exited(f, g, level) ==
  LET n == Len(f.blocks) IN
  /\ SameRest(f, g) /\ g.scopes = f.scopes /\ g.depth = f.depth + 1 /\ g.current = n + 4
  /\ IsSequence(g.blocks) /\ Len(g.blocks) = n + 5
  /\ \A i \in 1..n : i # f.current => g.blocks[i] = f.blocks[i]
  /\ g.blocks[f.current] = Many(n + 1, n + 3)
  /\ g.blocks[n + 1] = f.blocks[f.current]
  /\ g.blocks[n + 2] = Break(level)
  /\ g.blocks[n + 3] = Chain(n + 2, n + 5)
  /\ g.blocks[n + 4] = NewBasic(f)
  /\ g.blocks[n + 5] = Chain(n + 4, NoBlock)

LEMMA ExitEffect ==
  ASSUME NEW f, Typed(f), NEW is_continue \in BOOLEAN,
         NEW g, g = emit_loop_exit(f, is_continue), g # Bad(f)
  PROVE  \E k : /\ InnermostLoop(f, k)
                /\ Exited(f, g, LevelTo(f, ExitTarget(f.scopes[k], is_continue)))
<1>1. /\ IsFrontend(f) /\ IsSequence(f.blocks) /\ f.current \in 1..Len(f.blocks)
      /\ Len(f.scopes) \in Nat /\ DOMAIN f.scopes = 1..Len(f.scopes)
  BY CurrentInside DEF IsSequence
<1> DEFINE loops == {k \in DOMAIN f.scopes : f.scopes[k].kind = "LOOP"}
           k == CHOOSE k \in loops : \A j \in loops : j <= k
           target == IF is_continue THEN f.scopes[k].continue_depth
                     ELSE f.scopes[k].break_depth
           w == Wrap(f, Break(LevelTo(f, target)))
<1>6. /\ loops # {}
      /\ g = [w EXCEPT !.current = AfterOf(f), !.depth = f.depth + 1]
  <2> HIDE DEF k
  <2>1. g = (IF \/ loops = {}
                \/ \E j \in (k + 1)..Len(f.scopes) :
                     f.scopes[j].kind = "EPILOGUE" /\ f.scopes[j].phase = "CLEANUP"
                \/ target > f.depth + 1
             THEN Bad(f)
             ELSE [w EXCEPT !.current = AfterOf(f), !.depth = f.depth + 1])
    BY DEF emit_loop_exit, k
  <2> HIDE DEF loops, target, w
  <2> QED BY <2>1
<1> HIDE DEF k
<1>4. target = ExitTarget(f.scopes[k], is_continue)
  BY DEF ExitTarget
<1>7. k \in loops /\ \A j \in loops : j <= k
  <2>1. \E x \in loops : \A j \in loops : j <= x
    BY <1>1, <1>6, LargestIn
  <2> HIDE DEF loops
  <2> QED BY <2>1 DEF k
<1>8. InnermostLoop(f, k)
  BY <1>1, <1>7 DEF InnermostLoop
<1>9. Wrapped(f, w, Break(LevelTo(f, target)))
  BY <1>1, WrapEffect
<1> HIDE DEF w, target
<1>10. /\ SameRest(w, g) /\ g.scopes = w.scopes /\ g.blocks = w.blocks
       /\ g.current = Len(f.blocks) + 4 /\ g.depth = f.depth + 1
  <2>1. IsFrontend(w)
    BY <1>9 DEF Wrapped, SameRest
  <2> QED BY <1>6, <2>1 DEF IsFrontend, Fields, SameRest, AfterOf
<1>11. Exited(f, g, LevelTo(f, target))
  BY <1>9, <1>10 DEF Exited, Wrapped, SameRest
<1> QED BY <1>4, <1>8, <1>11

\* The tree after Break or Continue.
LEMMA ExitGrows ==
  ASSUME NEW f, Typed(f), Built(f), NEW g, NEW level, Exited(f, g, level)
  PROVE  BreakGrown(f.blocks, g.blocks, f.current) /\ BreakTree(f.blocks, g.blocks, f.current)
<1> DEFINE n == Len(f.blocks)
<1>1. /\ n \in Nat /\ f.current \in 1..n /\ DOMAIN f.blocks = 1..n
      /\ IsBlockTree(f.blocks) /\ f.blocks[f.current].kind = "BASIC"
  BY CurrentInside DEF Built, Placed
<1>2. /\ Len(g.blocks) = n + 5 /\ DOMAIN g.blocks = 1..(n + 5)
      /\ \A i \in 1..n : i # f.current => g.blocks[i] = f.blocks[i]
  BY DEF Exited, IsSequence
<1>3. Kept(f.blocks, g.blocks, f.current, 5)
  BY <1>1, <1>2 DEF Kept
<1>4. /\ g.blocks[f.current] = Many(n + 1, n + 3)
      /\ g.blocks[n + 1].kind = "BASIC" /\ g.blocks[n + 2].kind = "BREAK"
      /\ g.blocks[n + 3] = Chain(n + 2, n + 5)
      /\ g.blocks[n + 4].kind = "BASIC" /\ g.blocks[n + 5] = Chain(n + 4, NoBlock)
  BY <1>1, BlocksAre DEF Exited, NewBasic
<1>5. BreakGrown(f.blocks, g.blocks, f.current)
  BY <1>3, <1>4 DEF BreakGrown
<1> QED BY <1>1, <1>5, BreakGrows

LEMMA ExitKeeps ==
  ASSUME NEW f, Ready(f), NEW is_continue \in BOOLEAN
  PROVE  ReadingInv(emit_loop_exit(f, is_continue))
<1> DEFINE n == Len(f.blocks)
<1>1. PICK g : g = emit_loop_exit(f, is_continue)
  OBVIOUS
<1>2. /\ Typed(f) /\ n \in Nat /\ f.current \in 1..n /\ f.depth \in Nat
      /\ DOMAIN f.blocks = 1..n /\ \A i \in 1..n : IsBlock(f.blocks[i])
  BY CurrentInside DEF Ready, ReadingInv, Typed
<1>3. CASE g = Bad(f)
  BY <1>1, <1>3, BadKeeps DEF Ready
<1>4. CASE g # Bad(f)
  <2>1. PICK level : Exited(f, g, level)
    BY <1>1, <1>2, <1>4, ExitEffect
  <2>2. /\ IsFrontend(g) /\ g.error = f.error /\ g.cleanups = f.cleanups
        /\ g.scopes = f.scopes /\ g.current = n + 4 /\ g.depth = f.depth + 1
        /\ g.stray_var = f.stray_var
        /\ IsSequence(g.blocks) /\ Len(g.blocks) = n + 5 /\ DOMAIN g.blocks = 1..(n + 5)
        /\ \A i \in 1..n : i # f.current => g.blocks[i] = f.blocks[i]
    BY <2>1 DEF Exited, SameRest, IsSequence
  <2>3. /\ g.blocks[f.current] = Many(n + 1, n + 3)
        /\ g.blocks[n + 1] = f.blocks[f.current] /\ g.blocks[n + 2] = Break(level)
        /\ g.blocks[n + 3] = Chain(n + 2, n + 5) /\ g.blocks[n + 4] = NewBasic(f)
        /\ g.blocks[n + 5] = Chain(n + 4, NoBlock)
    BY <2>1 DEF Exited
  <2>4. g.blocks[f.current].kind = "MANY" /\ g.blocks[n + 4].kind = "BASIC"
    BY <2>3, BlocksAre DEF NewBasic
  <2>5. Typed(g)
    <3>1. ASSUME NEW i \in 1..(n + 5) PROVE IsBlock(g.blocks[i])
      <4>1. CASE i \in 1..n
        <5>1. CASE i = f.current
          BY ZenonT(60), <2>3, <5>1, BlocksAre
        <5>2. CASE i # f.current
          BY <1>2, <2>2, <4>1, <5>2
        <5> QED BY <5>1, <5>2
      <4>2. CASE i \in {n + 1, n + 2, n + 3, n + 4, n + 5}
        <5>1. /\ IsBlock(f.blocks[f.current]) /\ IsBlock(NewBasic(f))
              /\ IsBlock(Chain(n + 2, n + 5)) /\ IsBlock(Chain(n + 4, NoBlock))
              /\ IsBlock(Break(level))
          BY <1>2, BlocksAre DEF NewBasic
        <5> QED BY <2>3, <4>2, <5>1
      <4>3. i \in 1..n \/ i \in {n + 1, n + 2, n + 3, n + 4, n + 5}
        BY <1>2
      <4> QED BY <4>1, <4>2, <4>3
    <3>2. Soft(g.blocks, g.current) /\ g.depth \in Nat /\ n + 5 \in Nat /\ n + 5 >= n
      BY <1>2, <2>2, <2>4 DEF Soft
    <3>3. g.error \in Errors /\ g.stray_var \in BOOLEAN
      BY <1>2, <2>2 DEF Typed, Errors
    <3> QED BY <1>2, <2>2, <2>4, <3>1, <3>2, <3>3, GrownTyped
  <2>6. ASSUME ~g.stray_var PROVE Built(g)
    <3>1. Built(f) /\ Quiet(f)
      BY <2>2, <2>6 DEF Ready, ReadingInv
    <3>2. f.scopes = <<>> \/ ~(Top(f).kind = "IF" /\ Waits(Top(f)))
      BY <3>1 DEF Quiet
    <3>3. /\ BreakGrown(f.blocks, g.blocks, f.current)
          /\ BreakTree(f.blocks, g.blocks, f.current)
      BY <1>2, <2>1, <3>1, ExitGrows
    <3>4. Grew(f, g, 5)
      BY <2>2, <2>4, <3>3 DEF Grew, BreakGrown, BreakTree, SameTree
    <3>5. g.current \in (n + 1)..Len(g.blocks) /\ g.blocks[g.current].kind = "BASIC"
      BY <1>2, <2>2, <2>4
    <3>6. /\ LoopsAround(g.blocks, g.current) = LoopsAround(f.blocks, f.current)
          /\ f.depth = Depth(f.blocks, f.current) => g.depth = Depth(g.blocks, g.current)
      BY <2>2, <3>3 DEF BreakTree
    <3> QED BY <1>2, <2>2, <3>1, <3>2, <3>4, <3>5, <3>6, GrowKeeps
  <2> QED BY <1>1, <2>5, <2>6 DEF ReadingInv
<1> QED BY <1>3, <1>4

-----------------------------------------------------------------------------
(* Defers that end implicitly, and the words.                              *)

LEMMA ImplicitKeeps ==
  ASSUME NEW f
  PROVE  /\ ReadingInv(f) => ReadingInv(CloseImplicit(f))
         /\ Ready(f) => Ready(CloseImplicit(f))
<1>1. CASE EndsImplicitly(f)
  <2>1. f.scopes # <<>> /\ CloseImplicit(f) = Close(f)
    BY <1>1 DEF CloseImplicit, EndsImplicitly, InScope
  <2> QED BY <2>1, CloseInv DEF Ready
<1>2. CASE ~EndsImplicitly(f)
  BY <1>2 DEF CloseImplicit
<1> QED BY <1>1, <1>2

\* c has the frontend after each of up to m scopes was closed that ends implicitly.
Closings(f, c, m) == c = [n \in 0..m |-> IF n = 0 THEN f ELSE CloseImplicit(c[n - 1])]

LEMMA ClosingsExist ==
  ASSUME NEW f
  PROVE  \A m \in Nat : \E c : Closings(f, c, m)
<1> DEFINE T == {m \in Nat : \E c : Closings(f, c, m)}
<1>1. 0 \in T
  <2> DEFINE c == [n \in 0..0 |-> f]
  <2>1. Closings(f, c, 0)
    BY DEF Closings
  <2> QED BY <2>1
<1>2. ASSUME NEW m \in Nat, m \in T PROVE m + 1 \in T
  <2>1. PICK c : Closings(f, c, m)
    BY <1>2
  <2> DEFINE d == [n \in 0..(m + 1) |-> IF n = m + 1 THEN CloseImplicit(c[m]) ELSE c[n]]
             h(n) == IF n = 0 THEN f ELSE CloseImplicit(d[n - 1])
  <2>2. ASSUME NEW n \in 0..(m + 1) PROVE d[n] = h(n)
    <3>1. CASE n = m + 1
      BY <3>1
    <3>2. CASE n \in 0..m
      <4>1. d[n] = c[n] /\ (n # 0 => d[n - 1] = c[n - 1])
        BY <3>2
      <4>2. c[n] = IF n = 0 THEN f ELSE CloseImplicit(c[n - 1])
        BY <2>1, <3>2 DEF Closings
      <4> QED BY <4>1, <4>2
    <3> QED BY <3>1, <3>2
  <2>3. d = [n \in 0..(m + 1) |-> h(n)]
    BY <2>2
  <2>4. Closings(f, d, m + 1)
    BY <2>3 DEF Closings
  <2> QED BY <2>4
<1> HIDE DEF T
<1>3. \A m \in Nat : m \in T
  BY <1>1, <1>2, Induction
<1> QED BY <1>3 DEF T

LEMMA ClosingsKeep ==
  ASSUME NEW f, NEW m \in Nat, NEW c, Closings(f, c, m)
  PROVE  /\ ReadingInv(f) => ReadingInv(c[m])
         /\ Ready(f) => Ready(c[m])
<1> DEFINE T == {n \in Nat : n <= m => /\ ReadingInv(f) => ReadingInv(c[n])
                                       /\ Ready(f) => Ready(c[n])}
<1>1. \A n \in 0..m : c[n] = IF n = 0 THEN f ELSE CloseImplicit(c[n - 1])
  BY DEF Closings
<1>2. 0 \in T
  BY <1>1
<1>3. ASSUME NEW n \in Nat, n \in T PROVE n + 1 \in T
  <2> SUFFICES ASSUME n + 1 <= m PROVE /\ ReadingInv(f) => ReadingInv(c[n + 1])
                                       /\ Ready(f) => Ready(c[n + 1])
    OBVIOUS
  <2>1. n <= m /\ n + 1 \in 0..m /\ n + 1 # 0 /\ (n + 1) - 1 = n
    OBVIOUS
  <2>2. c[n + 1] = CloseImplicit(c[n])
    BY <1>1, <2>1
  <2>3. (ReadingInv(f) => ReadingInv(c[n])) /\ (Ready(f) => Ready(c[n]))
    BY <1>3, <2>1
  <2> QED BY <2>2, <2>3, ImplicitKeeps
<1> HIDE DEF T
<1>4. \A n \in Nat : n \in T
  BY <1>2, <1>3, Induction
<1> QED BY <1>4 DEF T

LEMMA EpiloguesKeep ==
  ASSUME NEW f, ReadingInv(f)
  PROVE  /\ ReadingInv(finish_implicit_epilogues(f))
         /\ Ready(f) => Ready(finish_implicit_epilogues(f))
<1> DEFINE m == Len(f.scopes)
           c == CHOOSE c : c = [n \in 0..m |-> IF n = 0 THEN f ELSE CloseImplicit(c[n - 1])]
<1>1. m \in Nat
  BY DEF ReadingInv, Typed, IsSequence
<1>2. \E d : d = [n \in 0..m |-> IF n = 0 THEN f ELSE CloseImplicit(d[n - 1])]
  <2>1. \E d : Closings(f, d, m)
    BY <1>1, ClosingsExist
  <2> QED BY <2>1 DEF Closings
<1>3. Closings(f, c, m)
  BY <1>2 DEF Closings
<1>4. finish_implicit_epilogues(f) = c[m]
  BY DEF finish_implicit_epilogues
<1> HIDE DEF c
<1> QED BY <1>1, <1>3, <1>4, ClosingsKeep

LEMMA RunKeeps ==
  ASSUME NEW f, ReadingInv(f), NEW w \in Control
  PROVE  ReadingInv(run_control(f, w))
<1>1. CASE f.scopes # <<>> /\ Waits(Top(f))
  <2>1. run_control(f, w) = Bad(f)
    BY <1>1 DEF run_control, Waits
  <2> QED BY <2>1, BadKeeps
<1>2. CASE ~(f.scopes # <<>> /\ Waits(Top(f)))
  <2>1. Ready(f)
    BY <1>2 DEF Ready, Quiet
  <2>2. PICK in : in = IF w \in Closing THEN finish_implicit_epilogues(f) ELSE f
    OBVIOUS
  <2>3. Ready(in) /\ ReadingInv(in)
    BY <2>1, <2>2, EpiloguesKeep DEF Ready
  <2>4. /\ w = "Loop" => run_control(f, w) = begin_loop(in)
        /\ w = "Again" => run_control(f, w) = end_loop(in)
        /\ w = "If" => run_control(f, w) = begin_if(in)
        /\ w = "Else" => run_control(f, w) = begin_else(in)
        /\ w = "Done" => run_control(f, w) = end_if(in)
        /\ w = "Break" => run_control(f, w) = emit_loop_exit(in, FALSE)
        /\ w = "Continue" => run_control(f, w) = emit_loop_exit(in, TRUE)
        /\ w = "Start" => run_control(f, w) = begin_epilogue(in, FALSE)
        /\ w = "Finally" => run_control(f, w) = begin_cleanup(in)
        /\ w = "End" => run_control(f, w) = finish_epilogue(in)
        /\ w = "Defer" => run_control(f, w) = begin_epilogue(in, TRUE)
    BY <1>2, <2>2 DEF run_control, Waits
  <2>5. /\ ReadingInv(begin_loop(in)) /\ ReadingInv(end_loop(in))
        /\ ReadingInv(begin_if(in)) /\ ReadingInv(begin_else(in)) /\ ReadingInv(end_if(in))
    BY <2>3, LoopKeeps, EndLoopKeeps, IfKeeps, ElseKeeps, EndIfKeeps
  <2>6. /\ ReadingInv(emit_loop_exit(in, FALSE)) /\ ReadingInv(emit_loop_exit(in, TRUE))
        /\ ReadingInv(begin_epilogue(in, FALSE)) /\ ReadingInv(begin_epilogue(in, TRUE))
        /\ ReadingInv(begin_cleanup(in)) /\ ReadingInv(finish_epilogue(in))
    BY <2>3, ExitKeeps, EpilogueKeeps, CleanupKeeps, FinishEpilogueKeeps
  <2> QED BY <2>4, <2>5, <2>6 DEF Control
<1> QED BY <1>1, <1>2

LEMMA InterpretKeeps ==
  ASSUME NEW f, ReadingInv(f), NEW token
  PROVE  ReadingInv(Interpret(f, token))
<1> DEFINE w == token.w
           g == Interpret(f, token)
<1>1. \/ g = f
      \/ g = handle_delimiter(f, w = "(")
      \/ g = Bad(f)
      \/ w \in Control /\ g = run_control(f, w)
      \/ ready_for_word(f) /\ g = declare_var(f, token.arg)
      \/ g = EmitOp(f, Op(OpWords[w], 0))
      \/ g = EmitOp(EmitOp(f, Op("PUSH_GLOBAL", w)), Op("CALL_NATIVE_ON_STACK", 0))
      \/ g = EmitOp(f, Op("CALL", w))
      \/ g = EmitOp(f, Op("PUSH_GLOBAL", token.arg))
      \/ g = emit_named_var(f, token.arg)
      \/ g = [f EXCEPT !.error = "UNKNOWN_WORD"]
  <2>1. CASE f.error # "OK" \/ w \in {"(", ")"} \/ ~ready_for_word(f)
    BY <2>1 DEF Interpret
  <2>2. CASE f.error = "OK" /\ w \notin {"(", ")"} /\ ready_for_word(f)
    <3>1. CASE w \in Control
      BY <2>2, <3>1 DEF Interpret
    <3>2. CASE w = "Var" /\ w \notin Control
      BY <2>2, <3>2 DEF Interpret
    <3>3. CASE w \in DOMAIN OpWords /\ w \notin Control \cup {"Var"}
      BY <2>2, <3>3 DEF Interpret
    <3>4. CASE w \notin DOMAIN OpWords \cup Control \cup {"Var"}
      BY <2>2, <3>4 DEF Interpret
    <3> QED BY <3>1, <3>2, <3>3, <3>4
  <2> QED BY <2>1, <2>2
<1> HIDE DEF g, w
<1>2. (w = "(") \in BOOLEAN
  OBVIOUS
<1>3. ready_for_word(f) => f.scopes = <<>> \/ Top(f).phase # "WAIT_OPEN"
  BY DEF ready_for_word
<1>4. /\ ReadingInv(handle_delimiter(f, w = "(")) /\ ReadingInv(Bad(f))
      /\ ReadingInv([f EXCEPT !.error = "UNKNOWN_WORD"])
  BY <1>2, DelimiterKeeps, BadKeeps, FailKeeps DEF Errors
<1>5. /\ ReadingInv(EmitOp(f, Op(OpWords[w], 0))) /\ ReadingInv(EmitOp(f, Op("CALL", w)))
      /\ ReadingInv(EmitOp(EmitOp(f, Op("PUSH_GLOBAL", w)), Op("CALL_NATIVE_ON_STACK", 0)))
      /\ ReadingInv(EmitOp(f, Op("PUSH_GLOBAL", token.arg)))
      /\ ReadingInv(emit_named_var(f, token.arg))
  BY EmitKeeps DEF emit_named_var
<1>6. w \in Control => ReadingInv(run_control(f, w))
  BY RunKeeps
<1>7. ready_for_word(f) => ReadingInv(declare_var(f, token.arg))
  BY <1>3, DeclareKeeps
<1>8. ReadingInv(g)
  BY <1>1, <1>4, <1>5, <1>6, <1>7
<1> QED BY <1>8 DEF g

\* c has the frontend after each of up to m tokens of the source.
Readings(f, source, c, m) ==
  c = [n \in 0..m |-> IF n = 0 THEN f ELSE Interpret(c[n - 1], source[n])]

LEMMA ReadingsExist ==
  ASSUME NEW f, NEW source
  PROVE  \A m \in Nat : \E c : Readings(f, source, c, m)
<1> DEFINE T == {m \in Nat : \E c : Readings(f, source, c, m)}
<1>1. 0 \in T
  <2> DEFINE c == [n \in 0..0 |-> f]
  <2>1. Readings(f, source, c, 0)
    BY DEF Readings
  <2> QED BY <2>1
<1>2. ASSUME NEW m \in Nat, m \in T PROVE m + 1 \in T
  <2>1. PICK c : Readings(f, source, c, m)
    BY <1>2
  <2> DEFINE d == [n \in 0..(m + 1) |->
                     IF n = m + 1 THEN Interpret(c[m], source[m + 1]) ELSE c[n]]
             h(n) == IF n = 0 THEN f ELSE Interpret(d[n - 1], source[n])
  <2>2. ASSUME NEW n \in 0..(m + 1) PROVE d[n] = h(n)
    <3>1. CASE n = m + 1
      BY <3>1
    <3>2. CASE n \in 0..m
      <4>1. d[n] = c[n] /\ (n # 0 => d[n - 1] = c[n - 1])
        BY <3>2
      <4>2. c[n] = IF n = 0 THEN f ELSE Interpret(c[n - 1], source[n])
        BY <2>1, <3>2 DEF Readings
      <4> QED BY <4>1, <4>2
    <3> QED BY <3>1, <3>2
  <2>3. d = [n \in 0..(m + 1) |-> h(n)]
    BY <2>2
  <2>4. Readings(f, source, d, m + 1)
    BY <2>3 DEF Readings
  <2> QED BY <2>4
<1> HIDE DEF T
<1>3. \A m \in Nat : m \in T
  BY <1>1, <1>2, Induction
<1> QED BY <1>3 DEF T

LEMMA AllReadings ==
  ASSUME NEW f, NEW source, Len(source) \in Nat
  PROVE  \E c : /\ Readings(f, source, c, Len(source))
                /\ InterpretAll(f, source) = c[Len(source)]
<1> DEFINE m == Len(source)
           c == CHOOSE c : c = [n \in 0..m |->
                                  IF n = 0 THEN f ELSE Interpret(c[n - 1], source[n])]
<1>1. \E d : d = [n \in 0..m |-> IF n = 0 THEN f ELSE Interpret(d[n - 1], source[n])]
  <2>1. \E d : Readings(f, source, d, m)
    BY ReadingsExist
  <2> QED BY <2>1 DEF Readings
<1>2. Readings(f, source, c, m)
  BY <1>1 DEF Readings
<1>3. InterpretAll(f, source) = c[m]
  BY DEF InterpretAll
<1> QED BY <1>2, <1>3

LEMMA InterpretAllKeeps ==
  ASSUME NEW f, ReadingInv(f), NEW source, Len(source) \in Nat
  PROVE  ReadingInv(InterpretAll(f, source))
<1> DEFINE m == Len(source)
<1>1. PICK c : Readings(f, source, c, m) /\ InterpretAll(f, source) = c[m]
  BY AllReadings
<1> DEFINE T == {n \in Nat : n <= m => ReadingInv(c[n])}
<1>2. \A n \in 0..m : c[n] = IF n = 0 THEN f ELSE Interpret(c[n - 1], source[n])
  BY <1>1 DEF Readings
<1>3. 0 \in T
  BY <1>2
<1>4. ASSUME NEW n \in Nat, n \in T PROVE n + 1 \in T
  <2> SUFFICES ASSUME n + 1 <= m PROVE ReadingInv(c[n + 1])
    OBVIOUS
  <2>1. n <= m /\ n + 1 \in 0..m /\ n + 1 # 0 /\ (n + 1) - 1 = n
    OBVIOUS
  <2>2. c[n + 1] = Interpret(c[n], source[n + 1])
    BY <1>2, <2>1
  <2>3. ReadingInv(c[n])
    BY <1>4, <2>1
  <2> QED BY <2>2, <2>3, InterpretKeeps
<1> HIDE DEF T
<1>5. \A n \in Nat : n \in T
  BY <1>3, <1>4, Induction
<1> QED BY <1>1, <1>5 DEF T

LEMMA FinishKeeps ==
  ASSUME NEW f, ReadingInv(f)
  PROVE  ReadingInv(FinishSource(f))
BY EpiloguesKeep, BadKeeps DEF FinishSource

\* A single block.
LEMMA FreshInv == ReadingInv(Fresh)
<1> DEFINE b == Basic(0, 0)
<1>1. PICK f : f = Fresh
  OBVIOUS
<1>2. /\ f.blocks = <<b>> /\ f.scopes = <<>> /\ f.current = 1 /\ f.depth = 0
      /\ f.error = "OK" /\ f.cleanups = {} /\ f.stray_var = FALSE /\ IsFrontend(f)
  BY <1>1 DEF Fresh, IsFrontend, Fields
<1>3. b.kind = "BASIC" /\ IsBlock(b) /\ ChildrenOf(b) = <<>>
  <2>1. IsBlock(b) /\ b.kind = "BASIC"
    BY BlocksAre
  <2> HIDE DEF b
  <2> QED BY <2>1, Children
<1> HIDE DEF b
<1>4. IsSequence(f.blocks) /\ Len(f.blocks) = 1 /\ f.blocks[1] = b /\ DOMAIN f.blocks = 1..1
  BY <1>2 DEF IsSequence
<1>5. IsSequence(f.scopes) /\ Len(f.scopes) = 0
  BY <1>2 DEF IsSequence
<1>6. Typed(f)
  <2>1. \A k \in 1..Len(f.blocks) : IsBlock(f.blocks[k])
    BY <1>3, <1>4
  <2>2. Soft(f.blocks, f.current)
    BY <1>2, <1>3, <1>4 DEF Soft
  <2>3. \A i \in 1..Len(f.scopes) : ScopeOK(f.scopes[i], f.blocks)
    BY <1>5
  <2>4. f.stray_var \in BOOLEAN
    BY <1>2
  <2>5. f.depth \in Nat /\ f.cleanups \subseteq 1..Len(f.blocks)
    BY <1>2
  <2> QED BY <1>2, <1>4, <1>5, <2>1, <2>2, <2>3, <2>4, <2>5 DEF Typed
<1>7. PICK own, place, high : TreeBy(f.blocks, own, place, high)
  <2> DEFINE none == [c \in 2..1 |-> 1]
             high == [c \in 1..1 |-> 0]
  <2>1. /\ none \in [2..1 -> 1..1] /\ none \in [2..1 -> {1, 2}]
        /\ high \in [1..1 -> 0..(1 - 1)]
    OBVIOUS
  <2>2. \A p \in 1..1 : ChildrenOf(f.blocks[p]) = <<>>
    BY <1>3, <1>4
  <2>3. TreeBy(f.blocks, none, none, high)
    BY <1>4, <2>1, <2>2 DEF TreeBy
  <2> QED BY <2>3
<1>8. Depth(f.blocks, 1) = 0 /\ LoopsAround(f.blocks, 1) = {}
  BY <1>7, DepthInTree
<1>9. Built(f)
  <2>1. IsBlockTree(f.blocks)
    BY <1>7 DEF IsBlockTree
  <2>2. Placed(f.blocks, f.scopes, f.current)
    BY <1>2, <1>3, <1>4, <1>5 DEF Placed
  <2>3. InLoops(f.blocks, f.scopes, f.current)
    BY <1>2, <1>5, <1>8 DEF InLoops, LoopBlocks
  <2>4. Deep(f.blocks, f.scopes, f.current, f.depth)
    BY <1>2, <1>5, <1>8 DEF Deep
  <2> QED BY <2>1, <2>2, <2>3, <2>4 DEF Built
<1> QED BY <1>1, <1>6, <1>9 DEF ReadingInv

-----------------------------------------------------------------------------
(* The theorems.                                                           *)

\* What holds in every state: the vocabulary is one of those given, and the frontend has
\* built what ReadingInv says.
Inv == words \in Vocabularies /\ ReadingInv(fe)

LEMMA InvInductive == Inv /\ [Next]_reading => Inv'
<1> SUFFICES ASSUME Inv, [Next]_reading PROVE Inv'
  OBVIOUS
<1>1. CASE EndOfSource
  <2>1. ReadingInv(FinishSource(fe)) /\ fe' = FinishSource(fe) /\ words' = words
    BY <1>1, FinishKeeps DEF Inv, EndOfSource
  <2> QED BY <2>1 DEF Inv, ReadingInv, Typed, Built, Plain
<1>2. ASSUME NEW p \in words.phrases, Read(p) PROVE Inv'
  <2>1. Len(p) \in Nat
    BY VocabulariesAssumption DEF Inv
  <2>2. ReadingInv(InterpretAll(fe, p)) /\ fe' = InterpretAll(fe, p) /\ words' = words
    BY <1>2, <2>1, InterpretAllKeeps DEF Inv, Read
  <2> QED BY <2>2 DEF Inv, ReadingInv, Typed, Built, Plain
<1>3. CASE UNCHANGED reading
  BY <1>3 DEF Inv, ReadingInv, Typed, Built, Plain, reading
<1> QED BY <1>1, <1>2, <1>3 DEF Next

\* The inductive invariant: whatever form is read, the frontend keeps what Typed says, and
\* without a declaration in a condition also what Built does.
THEOREM ReadingInvariant == Spec => []Inv
<1>1. Init => Inv
  BY FreshInv DEF Init, Inv
<1> QED BY <1>1, InvInductive, PTL DEF Spec

\* For every source, the frontend's state has the types it is taken to have: the current
\* block and those of the scopes are in the tree.
THEOREM ReadingTypeCorrect == Spec => []TypeOK
<1>1. Inv => TypeOK
  <2> SUFFICES ASSUME Inv PROVE TypeOK
    OBVIOUS
  <2>1. Typed(fe) /\ IsSequence(fe.blocks) /\ IsSequence(fe.scopes)
    BY DEF Inv, ReadingInv, Typed
  <2>2. \A k \in DOMAIN fe.blocks : fe.blocks[k].kind \in BlockKinds
    BY <2>1 DEF Typed, IsSequence, IsBlock
  <2>3. ASSUME NEW s \in ToSet(fe.scopes)
        PROVE  {s.block, s.first, s.after} \subseteq DOMAIN fe.blocks
    <3>1. PICK i \in 1..Len(fe.scopes) : s = fe.scopes[i]
      BY <2>1 DEF ToSet, IsSequence
    <3>2. ScopeOK(s, fe.blocks)
      BY <2>1, <3>1 DEF Typed
    <3>3. s.block \in DOMAIN fe.blocks /\ s.first \in DOMAIN fe.blocks
      BY <3>2 DEF ScopeOK
    <3>4. s.after \in DOMAIN fe.blocks
      BY <3>2 DEF ScopeOK, Soft
    <3> QED BY <3>3, <3>4
  <2> QED BY <2>1, <2>2, <2>3 DEF TypeOK, Typed, Soft
<1> QED BY <1>1, ReadingInvariant, PTL

\* The function under construction is a tree of blocks after every phrase of every source,
\* unless a variable was declared in a condition.
THEOREM TreeStaysTree == Spec => []TreeShaped
<1>1. Inv => TreeShaped
  <2> SUFFICES ASSUME Inv, ~fe.stray_var PROVE IsTree(fe.blocks)
    BY DEF TreeShaped
  <2>1. PICK own, place, high : TreeBy(fe.blocks, own, place, high)
    BY DEF Inv, ReadingInv, Built, IsBlockTree
  <2> QED BY <2>1, TreeByIsTree
<1> QED BY <1>1, ReadingInvariant, PTL

\* What is written next always goes to an open range at the depth the frontend counts.
THEOREM WritesInPlace == Spec => []InPlace
<1>1. Inv => InPlace
  BY DEF Inv, InPlace, PlainCleanups, ReadingInv, Built, Plain, Placed, Deep
<1> QED BY <1>1, ReadingInvariant, PTL

\* What Break and Continue do when they are read without an error.
LEMMA BreakIsExit ==
  ASSUME NEW f, ReadingInv(f), f.error = "OK", NEW token,
         token.w \in {"Break", "Continue"},
         NEW g, g = Interpret(f, token), g.error = "OK"
  PROVE  g = emit_loop_exit(f, token.w = "Continue") /\ g # Bad(f)
<1> DEFINE w == token.w
<1>1. g # Bad(f)
  <2>1. Bad(f).error = "BAD_CONTROL_FLOW"
    BY DEF ReadingInv, Typed, IsFrontend, Fields, Bad
  <2> QED BY <2>1
<1>2. /\ w \in Control /\ w \notin {"(", ")"} /\ w \notin Closing
      /\ w = "Break" \/ w = "Continue"
  BY DEF Control, Closing
<1>3. ready_for_word(f) /\ g = run_control(f, w)
  <2>1. ready_for_word(f)
    BY <1>1, <1>2 DEF Interpret
  <2>2. w # "Var" /\ w # "Number" /\ w # "Name" /\ w \notin DOMAIN OpWords
    BY <1>2 DEF OpWords
  <2>3. w \notin Natives /\ w \notin Callees
    BY <1>2, CoreWordsAssumption DEF CoreWords
  <2> QED BY <1>2, <2>1, <2>2, <2>3 DEF Interpret
<1> HIDE DEF w
<1>4. g = emit_loop_exit(f, w = "Continue")
  <2>1. CASE w = "Break"
    BY <1>1, <1>2, <1>3, <2>1 DEF run_control
  <2>2. CASE w = "Continue"
    BY <1>1, <1>2, <1>3, <2>2 DEF run_control
  <2> QED BY <1>2, <2>1, <2>2
<1> QED BY <1>1, <1>4 DEF w

LEMMA ExitReaches ==
  ASSUME NEW f, ReadingInv(f), ~f.stray_var, Plain(f), NEW word \in {"Break", "Continue"},
         NEW g, g = emit_loop_exit(f, word = "Continue"), g # Bad(f)
  PROVE  \E loop \in DOMAIN g.blocks :
           /\ IsInnermostLoop(g.blocks, MiddleOf(f), loop)
           /\ Reaches(g.blocks, MiddleOf(f), loop, word)
<1> DEFINE n == Len(f.blocks)
           mid == MiddleOf(f)
<1>1. PICK k : /\ InnermostLoop(f, k)
               /\ Exited(f, g, LevelTo(f, ExitTarget(f.scopes[k], word = "Continue")))
  BY ExitEffect DEF ReadingInv
<1>2. PICK level, s, target :
        /\ s = f.scopes[k] /\ target = ExitTarget(s, word = "Continue")
        /\ level = LevelTo(f, target)
  OBVIOUS
<1>3. /\ Typed(f) /\ Built(f) /\ n \in Nat /\ Len(f.scopes) \in Nat /\ DOMAIN f.blocks = 1..n
      /\ Deep(f.blocks, f.scopes, f.current, f.depth)
      /\ InLoops(f.blocks, f.scopes, f.current)
      /\ mid = n + 2
  BY CurrentInside DEF ReadingInv, Built, MiddleOf
<1>4. BreakTree(f.blocks, g.blocks, f.current) /\ g.blocks[mid] = Break(level)
      /\ DOMAIN g.blocks = 1..(n + 5)
  BY <1>1, <1>2, <1>3, ExitGrows DEF Exited, IsSequence
<1>5. /\ k \in 1..Len(f.scopes) /\ s.kind = "LOOP" /\ ScopeOK(s, f.blocks)
      /\ s.block \in 1..n /\ DeepScope(f.blocks, s)
      /\ \A j \in 1..Len(f.scopes) : f.scopes[j].kind = "LOOP" => j <= k
  BY <1>1, <1>2, <1>3 DEF InnermostLoop, Typed, ScopeOK, Deep
<1>6. /\ LoopsAround(g.blocks, mid) = LoopBlocks(f.scopes, Len(f.scopes))
      /\ Depth(g.blocks, mid) = f.depth + 1
      /\ LoopsAround(g.blocks, s.block) = LoopBlocks(f.scopes, k - 1)
      /\ Depth(g.blocks, s.block) = s.parent_depth + 1
  <2>1. /\ LoopsAround(g.blocks, mid) = LoopsAround(f.blocks, f.current)
        /\ Depth(g.blocks, mid) = Depth(f.blocks, f.current) + 1
        /\ LoopsAround(g.blocks, s.block) = LoopsAround(f.blocks, s.block)
        /\ Depth(g.blocks, s.block) = Depth(f.blocks, s.block)
    BY <1>3, <1>4, <1>5 DEF BreakTree, SameTree
  <2>2. /\ LoopsAround(f.blocks, f.current) = LoopBlocks(f.scopes, Len(f.scopes))
        /\ f.depth = Depth(f.blocks, f.current)
        /\ LoopsAround(f.blocks, s.block) = LoopBlocks(f.scopes, k - 1)
        /\ Depth(f.blocks, s.block) = s.parent_depth + 1
    BY <1>2, <1>3, <1>5 DEF InLoops, Deep, DeepScope
  <2> QED BY <2>1, <2>2
<1>7. IsInnermostLoop(g.blocks, mid, s.block)
  <2>1. s.block \in LoopsAround(g.blocks, mid)
    BY <1>2, <1>5, <1>6 DEF LoopBlocks
  <2>2. ASSUME NEW other \in LoopsAround(g.blocks, mid) \ {s.block}
        PROVE  other \in Around(g.blocks, s.block)
    <3>1. PICK i \in 1..Len(f.scopes) : f.scopes[i].kind = "LOOP" /\ other = f.scopes[i].block
      BY <1>6 DEF LoopBlocks
    <3>2. i <= k /\ i # k /\ k \in 1..Len(f.scopes)
      BY <1>2, <1>5, <3>1
    <3>3. i \in 1..(k - 1)
      BY <1>3, <3>2
    <3>4. other \in LoopsAround(g.blocks, s.block)
      BY <1>6, <3>1, <3>3 DEF LoopBlocks
    <3> QED BY <3>4 DEF LoopsAround
  <2> QED BY <2>1, <2>2 DEF IsInnermostLoop
<1>8. Reaches(g.blocks, mid, s.block, word)
  <2>1. /\ s.break_depth = s.parent_depth + 2 /\ s.continue_depth = s.parent_depth + 3
        /\ s.parent_depth \in Nat /\ f.depth \in Nat
    BY <1>3, <1>5 DEF DeepScope, ScopeOK, Typed
  <2>2. target = s.parent_depth + (IF word = "Break" THEN 2 ELSE 3)
    BY <1>2, <2>1 DEF ExitTarget
  <2>3. g.blocks[mid].level = f.depth + 2 - target
    BY <1>2, <1>4, <2>1, <2>2 DEF Break, LevelTo
  <2>4. Depth(g.blocks, mid) - g.blocks[mid].level =
          s.parent_depth + 1 + (IF word = "Break" THEN 0 ELSE 1)
    BY SMTT(30), <1>6, <2>1, <2>2, <2>3
  <2> QED BY <1>6, <2>4 DEF Reaches
<1>9. s.block \in DOMAIN g.blocks
  BY <1>3, <1>4, <1>5
<1> QED BY <1>7, <1>8, <1>9

\* Whenever Break or Continue is read in a source without stray declarations and with plain
\* cleanups, the BREAK it makes leaves the innermost loop around it, or the body of it.
THEOREM BreaksReach == Spec => BreaksReachTheirLoop
<1> DEFINE Goal(p) ==
      /\ Len(p) = 1 /\ p[1].w \in {"Break", "Continue"}
      /\ Read(p) /\ fe'.error = "OK" /\ ~fe.stray_var /\ PlainCleanups
      => \E loop \in DOMAIN fe'.blocks :
           /\ IsInnermostLoop(fe'.blocks, MiddleOf(fe), loop)
           /\ Reaches(fe'.blocks, MiddleOf(fe), loop, p[1].w)
<1>1. Inv => \A p \in words.phrases : Goal(p)
  <2> SUFFICES ASSUME Inv, NEW p \in words.phrases,
                      Len(p) = 1, p[1].w \in {"Break", "Continue"},
                      Read(p), fe'.error = "OK", ~fe.stray_var, PlainCleanups
               PROVE  \E loop \in DOMAIN fe'.blocks :
                        /\ IsInnermostLoop(fe'.blocks, MiddleOf(fe), loop)
                        /\ Reaches(fe'.blocks, MiddleOf(fe), loop, p[1].w)
    OBVIOUS
  <2>1. PICK f, g, token : f = fe /\ g = fe' /\ token = p[1]
    OBVIOUS
  <2>2. /\ ReadingInv(f) /\ f.error = "OK" /\ ~f.stray_var /\ Plain(f) /\ g.error = "OK"
        /\ token.w \in {"Break", "Continue"}
    BY <2>1 DEF Inv, Read, Reads, Plain, PlainCleanups
  <2>3. g = Interpret(f, token)
    <3>1. PICK c : Readings(f, p, c, 1) /\ InterpretAll(f, p) = c[1]
      <4>1. Len(p) \in Nat
        OBVIOUS
      <4>2. \E c : Readings(f, p, c, Len(p)) /\ InterpretAll(f, p) = c[Len(p)]
        BY ONLY <4>1, AllReadings
      <4> QED BY <4>2
    <3>2. c[0] = f /\ c[1] = Interpret(c[0], p[1])
      <4>1. \A n \in 0..1 : c[n] = IF n = 0 THEN f ELSE Interpret(c[n - 1], p[n])
        BY <3>1 DEF Readings
      <4>2. 0 \in 0..1 /\ 1 \in 0..1 /\ 1 - 1 = 0
        OBVIOUS
      <4> QED BY <4>1, <4>2
    <3>3. g = InterpretAll(f, p)
      BY <2>1 DEF Read
    <3> QED BY <2>1, <3>1, <3>2, <3>3
  <2>4. g = emit_loop_exit(f, token.w = "Continue") /\ g # Bad(f)
    BY <2>2, <2>3, BreakIsExit
  <2>5. \E loop \in DOMAIN g.blocks :
          /\ IsInnermostLoop(g.blocks, MiddleOf(f), loop)
          /\ Reaches(g.blocks, MiddleOf(f), loop, token.w)
    BY <2>2, <2>4, ExitReaches
  <2> QED BY <2>1, <2>5
<1>2. Inv => [\A p \in words.phrases : Goal(p)]_reading
  BY <1>1
<1> QED BY <1>2, ReadingInvariant, PTL DEF BreaksReachTheirLoop
=============================================================================
