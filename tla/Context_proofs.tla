--------------------------- MODULE Context_proofs ---------------------------
(***************************************************************************)
(* Proofs about the projection table, for every set of keys, every hash    *)
(* function and every capacity of the first arrays, and about the compile  *)
(* context the table is in.                                                *)
(*                                                                         *)
(* A search ends at the first place where it may stop.  That there is one  *)
(* is the counting part of the invariant, that it is the only one is the   *)
(* order in which Before visits the places, and that it is where the key   *)
(* is stored is the chained part.                                          *)
(*                                                                         *)
(* The interner gives every projection one index, and the compile context  *)
(* is its parts: every step of the two checkers on it is a step of the     *)
(* interner, of the table and of the hold lists, or leaves them alone, so  *)
(* that what each of them promises holds of the three together.  What only *)
(* the three together promise is that no hold outlives its handle.         *)
(***************************************************************************)
EXTENDS Context, FiniteSetTheorems, SequenceTheorems, TLAPS

\* The definitions below are the parts of the properties that are about one set of arrays
\* or of entries, so that the same lemma serves before and after a step.

\* Chained and the first part of KeysOnce, of any arrays.
ChainedIn(s, n) ==
  \A i \in Used(s) : \A m \in Before(Home(s[i].key, n), i, n) : s[m] # Free
OnceIn(s) == \A i, m \in Used(s) : s[i].key = s[m].key => i = m

\* The entries of arrays, a set that has one entry of each key at most, and what such a
\* set maps each key to.
StoredIn(C) ==
  [k \in Key |-> IF \E e \in C : e.key = k THEN (CHOOSE e \in C : e.key = k).val ELSE None]
EntriesOf(s) == {s[i] : i \in Used(s)}
OneEach(C) == \A e, f \in C : e.key = f.key => e = f

-----------------------------------------------------------------------------
(* The order of a search.                                                  *)

\* A set of numbers has a least one; from the well-foundedness of inclusion on finite
\* sets, each number standing for the interval below it.
LEMMA Least ==
  ASSUME NEW T \in SUBSET Nat, T # {}
  PROVE  \E i \in T : \A j \in T : i <= j
<1> DEFINE F == {0..i : i \in T}
<1>1. F \subseteq FiniteSubsetsOf(Nat)
  <2> SUFFICES ASSUME NEW i \in T PROVE 0..i \in FiniteSubsetsOf(Nat)
    OBVIOUS
  <2>1. IsFiniteSet(0..i)
    BY FS_Interval
  <2> QED BY <2>1 DEF FiniteSubsetsOf
<1>2. F # {}
  OBVIOUS
<1> HIDE DEF F
<1>3. PICK x \in F : \A y \in F : <<y, x>> \notin StrictSubsetOrdering(Nat)
  BY <1>1, <1>2, WFMin, FS_StrictSubsetOrderingWellFounded
<1>4. PICK i \in T : x = 0..i
  BY <1>3 DEF F
<1>5. ASSUME NEW j \in T, j < i PROVE FALSE
  <2>1. 0..j \in F
    BY DEF F
  <2>2. 0..j \subseteq 0..i /\ i \in 0..i /\ i \notin 0..j
    BY <1>5
  <2>3. 0..i \in SUBSET Nat /\ 0..j \in SUBSET Nat /\ 0..j # 0..i
    BY <2>2
  <2>4. <<0..j, 0..i>> \in StrictSubsetOrdering(Nat)
    BY <2>2, <2>3 DEF StrictSubsetOrdering
  <2> QED BY <1>3, <1>4, <2>1, <2>4
<1> QED BY <1>5

\* A search begins inside the arrays (par_hash(key) & (cap - 1)).
LEMMA HomeInside ==
  ASSUME NEW k \in Key, NEW n \in Nat, n > 0
  PROVE  Home(k, n) \in 0..(n - 1)
BY HashAssumption DEF Home

LEMMA BeforeInside ==
  ASSUME NEW n \in Nat, NEW h \in 0..(n - 1), NEW j \in 0..(n - 1)
  PROVE  Before(h, j, n) \subseteq 0..(n - 1)
BY DEF Before

\* Of two places a search visits one before the other.
LEMMA BeforeTotal ==
  ASSUME NEW n \in Nat, NEW h \in 0..(n - 1), NEW i \in 0..(n - 1), NEW j \in 0..(n - 1),
         i # j
  PROVE  i \in Before(h, j, n) \/ j \in Before(h, i, n)
BY DEF Before

\* A search that may stop somewhere has a first place where it may.
LEMMA FirstStop ==
  ASSUME NEW n \in Nat, NEW h \in 0..(n - 1), NEW S \in SUBSET (0..(n - 1)), S # {}
  PROVE  \E j \in S : \A i \in Before(h, j, n) : i \notin S
<1> DEFINE D(j) == IF h <= j THEN j - h ELSE (n - h) + j
           T == {D(j) : j \in S}
<1>1. T \in SUBSET Nat /\ T # {}
  <2>1. \A j \in 0..(n - 1) : D(j) \in Nat
    OBVIOUS
  <2> HIDE DEF D
  <2> QED BY <2>1
<1>2. PICK d \in T : \A e \in T : d <= e
  <2> HIDE DEF T
  <2> QED BY <1>1, Least
<1>3. PICK j \in S : d = D(j)
  BY <1>2
<1>4. ASSUME NEW i \in Before(h, j, n), i \in S PROVE FALSE
  <2>1. D(i) \in T
    BY <1>4
  <2>2. i \in 0..(n - 1) /\ j \in 0..(n - 1)
    BY <1>4
  <2>3. D(i) < D(j)
    BY <1>4, <2>2 DEF Before
  <2>4. D(i) \in Nat /\ D(j) \in Nat
    BY <2>2
  <2> HIDE DEF T, D
  <2> QED BY <1>2, <1>3, <2>1, <2>3, <2>4
<1> QED BY <1>4

\* No search ends at two places.
LEMMA OneEnd ==
  ASSUME NEW s, NEW n \in Nat, NEW k \in Key, NEW i, NEW j,
         EndsAt(s, n, k, i), EndsAt(s, n, k, j)
  PROVE  i = j
<1>1. i \in 0..(n - 1) /\ j \in 0..(n - 1) /\ n > 0
  BY DEF EndsAt
<1>2. Home(k, n) \in 0..(n - 1)
  BY <1>1, HomeInside
<1>3. i # j => i \in Before(Home(k, n), j, n) \/ j \in Before(Home(k, n), i, n)
  BY <1>1, <1>2, BeforeTotal
<1> QED BY <1>3 DEF EndsAt

\* A search for a key that has an entry ends there.
LEMMA EndsAtEntry ==
  ASSUME NEW n \in Nat, NEW s \in [0..(n - 1) -> Entry \cup {Free}],
         ChainedIn(s, n), OnceIn(s), NEW i \in Used(s)
  PROVE  EndsAt(s, n, s[i].key, i)
<1>1. i \in 0..(n - 1) /\ n > 0 /\ s[i] # Free /\ s[i] \in Entry
  BY DEF Used
<1>2. s[i].key \in Key
  BY <1>1 DEF Entry
<1>3. Home(s[i].key, n) \in 0..(n - 1)
  BY <1>1, <1>2, HomeInside
<1>4. ASSUME NEW m \in Before(Home(s[i].key, n), i, n) PROVE ~Stops(s, s[i].key, m)
  <2>1. m \in 0..(n - 1)
    BY <1>1, <1>3, BeforeInside
  <2>2. s[m] # Free
    BY DEF ChainedIn
  <2>3. m \in Used(s)
    BY <2>1, <2>2 DEF Used
  <2>4. i \notin Before(Home(s[i].key, n), i, n)
    BY <1>1, <1>3 DEF Before
  <2>5. s[m].key # s[i].key
    BY <2>3, <2>4 DEF OnceIn
  <2> QED BY <2>2, <2>5 DEF Stops
<1>5. Stops(s, s[i].key, i)
  BY DEF Stops
<1> QED BY <1>1, <1>4, <1>5 DEF EndsAt

\* A search ends in arrays with a free place.
LEMMA FreeEnds ==
  ASSUME NEW n \in Nat, NEW s, NEW k \in Key, NEW f \in 0..(n - 1), s[f] = Free
  PROVE  \E j \in 0..(n - 1) : EndsAt(s, n, k, j)
<1> DEFINE S == {j \in 0..(n - 1) : Stops(s, k, j)}
<1>1. f \in S
  BY DEF Stops
<1>2. n > 0
  OBVIOUS
<1>3. Home(k, n) \in 0..(n - 1)
  BY <1>2, HomeInside
<1>4. PICK j \in S : \A i \in Before(Home(k, n), j, n) : i \notin S
  <2>1. S \in SUBSET (0..(n - 1)) /\ S # {}
    BY <1>1
  <2> HIDE DEF S
  <2> QED BY <1>3, <2>1, FirstStop
<1>5. Before(Home(k, n), j, n) \subseteq 0..(n - 1)
  BY <1>3, BeforeInside
<1>6. \A i \in Before(Home(k, n), j, n) : ~Stops(s, k, i)
  BY <1>4, <1>5
<1> QED BY <1>6 DEF EndsAt

\* Arrays with fewer entries than places have a free place.
LEMMA RoomIsFree ==
  ASSUME NEW n \in Nat, NEW s \in [0..(n - 1) -> Entry \cup {Free}],
         Cardinality(Used(s)) < n
  PROVE  \E f \in 0..(n - 1) : s[f] = Free
<1> SUFFICES ASSUME \A f \in 0..(n - 1) : s[f] # Free PROVE FALSE
  OBVIOUS
<1>1. Used(s) = 0..(n - 1)
  BY DEF Used
<1>2. Cardinality(0..(n - 1)) = IF 0 > n - 1 THEN 0 ELSE n - 1 - 0 + 1
  BY FS_Interval
<1>3. Cardinality(0..(n - 1)) = n
  BY <1>2
<1> QED BY <1>1, <1>3

LEMMA UsedFinite ==
  ASSUME NEW n \in Nat, NEW s \in [0..(n - 1) -> Entry \cup {Free}]
  PROVE  /\ IsFiniteSet(Used(s)) /\ Cardinality(Used(s)) \in Nat
         /\ \A T \in SUBSET Used(s) : IsFiniteSet(T) /\ Cardinality(T) \in Nat
<1>1. IsFiniteSet(0..(n - 1))
  BY FS_Interval
<1>2. Used(s) \in SUBSET (0..(n - 1))
  BY DEF Used
<1>3. \A T \in SUBSET (0..(n - 1)) : IsFiniteSet(T)
  BY <1>1, FS_Subset
<1>4. \A T \in SUBSET Used(s) : IsFiniteSet(T)
  BY <1>2, <1>3
<1> QED BY <1>2, <1>3, <1>4, FS_CardinalityType

-----------------------------------------------------------------------------
(* The invariant.                                                          *)

\* Entry e may be written to place j: a search for its key reaches the place, and no
\* other place has the key.
Writable(s, n, e, j) ==
  /\ n \in Nat /\ s \in [0..(n - 1) -> Entry \cup {Free}]
  /\ ChainedIn(s, n) /\ OnceIn(s)
  /\ e \in Entry /\ j \in 0..(n - 1)
  /\ \A m \in Before(Home(e.key, n), j, n) : s[m] # Free
  /\ \A i \in Used(s) \ {j} : s[i].key # e.key

\* What the arrays are like when it was.
WellWritten(s, n, e, j, t) ==
  /\ t \in [0..(n - 1) -> Entry \cup {Free}]
  /\ ChainedIn(t, n) /\ OnceIn(t)
  /\ Cardinality(Used(t)) =
       IF s[j] = Free THEN Cardinality(Used(s)) + 1 ELSE Cardinality(Used(s))
  /\ EntriesOf(t) = {s[i] : i \in Used(s) \ {j}} \cup {e}

\* An entry that may be written to a place leaves the arrays searchable.
LEMMA Written ==
  ASSUME NEW s, NEW n, NEW e, NEW j, Writable(s, n, e, j)
  PROVE  WellWritten(s, n, e, j, [s EXCEPT ![j] = e])
<1> DEFINE t == [s EXCEPT ![j] = e]
<1> SUFFICES WellWritten(s, n, e, j, t)
  OBVIOUS
<1> USE DEF Writable
<1>1. /\ t \in [0..(n - 1) -> Entry \cup {Free}]
      /\ t[j] = e /\ e # Free /\ \A i \in 0..(n - 1) : i # j => t[i] = s[i]
  BY FreeAssumption
<1>2. Used(t) = Used(s) \cup {j} /\ Used(s) \subseteq 0..(n - 1)
  BY <1>1 DEF Used
<1>3. e.key \in Key /\ n > 0
  BY DEF Entry
<1>4. ChainedIn(t, n)
  <2> SUFFICES ASSUME NEW i \in Used(t), NEW m \in Before(Home(t[i].key, n), i, n)
               PROVE  t[m] # Free
    BY DEF ChainedIn
  <2>1. i \in 0..(n - 1)
    BY <1>2
  <2>2. t[i].key \in Key
    <3>1. t[i] \in Entry
      BY <1>1, <2>1 DEF Used
    <3> QED BY <3>1 DEF Entry
  <2>3. m \in 0..(n - 1)
    <3>1. Home(t[i].key, n) \in 0..(n - 1)
      BY <1>3, <2>2, HomeInside
    <3> QED BY <2>1, <3>1, BeforeInside
  <2>4. s[m] # Free
    <3>1. CASE i = j
      BY <1>1, <3>1
    <3>2. CASE i # j
      <4>1. i \in Used(s) /\ t[i] = s[i]
        BY <1>1, <1>2, <2>1, <3>2
      <4> QED BY <4>1 DEF ChainedIn
    <3> QED BY <3>1, <3>2
  <2> QED BY <1>1, <2>3, <2>4
<1>5. OnceIn(t)
  <2> SUFFICES ASSUME NEW i \in Used(t), NEW m \in Used(t), t[i].key = t[m].key
               PROVE  i = m
    BY DEF OnceIn
  <2>1. \A x \in Used(t) : x # j => x \in Used(s) /\ t[x] = s[x]
    BY <1>1, <1>2
  <2>2. CASE i = j
    BY <1>1, <2>1, <2>2
  <2>3. CASE m = j
    BY <1>1, <2>1, <2>3
  <2>4. CASE i # j /\ m # j
    BY <2>1, <2>4 DEF OnceIn
  <2> QED BY <2>2, <2>3, <2>4
<1>6. Cardinality(Used(t)) =
        IF s[j] = Free THEN Cardinality(Used(s)) + 1 ELSE Cardinality(Used(s))
  <2>1. IsFiniteSet(Used(s))
    BY UsedFinite
  <2>2. Cardinality(Used(s) \cup {j}) =
          IF j \in Used(s) THEN Cardinality(Used(s)) ELSE Cardinality(Used(s)) + 1
    BY <2>1, FS_AddElement
  <2>3. j \in Used(s) <=> s[j] # Free
    BY DEF Used
  <2> QED BY <1>2, <2>2, <2>3
<1>7. EntriesOf(t) = {s[i] : i \in Used(s) \ {j}} \cup {e}
  <2>1. \A i \in Used(s) \ {j} : t[i] = s[i]
    BY <1>1, <1>2
  <2>2. Used(t) = (Used(s) \ {j}) \cup {j}
    BY <1>2
  <2>3. {t[i] : i \in Used(t)} = {t[i] : i \in Used(s) \ {j}} \cup {t[j]}
    BY <2>2
  <2>4. {t[i] : i \in Used(s) \ {j}} = {s[i] : i \in Used(s) \ {j}}
    BY <2>1
  <2> QED BY <1>1, <2>3, <2>4 DEF EntriesOf
<1> HIDE DEF t
<1> QED BY <1>1, <1>4, <1>5, <1>6, <1>7 DEF WellWritten

\* The end of par_idx_table_put (verification.c:66 to 78).
LEMMA Stores ==
  ASSUME TypeOK, Chained, KeysOnce, NEW e \in Entry, Store(e),
         len = Cardinality(Used(slots))
  PROVE  /\ cap' = cap /\ cap > 0
         /\ slots' \in [0..(cap - 1) -> Entry \cup {Free}]
         /\ ChainedIn(slots', cap) /\ OnceIn(slots')
         /\ len' = Cardinality(Used(slots')) /\ len' <= len + 1 /\ len' \in Nat
         /\ EntriesOf(slots') = {f \in EntriesOf(slots) : f.key # e.key} \cup {e}
<1>1. PICK j \in 0..(cap - 1) :
        /\ EndsAt(slots, cap, e.key, j)
        /\ slots' = [slots EXCEPT ![j] = e]
        /\ len' = IF slots[j] = Free THEN len + 1 ELSE len
        /\ cap' = cap
  BY DEF Store
<1>2. cap \in Nat /\ slots \in [0..(cap - 1) -> Entry \cup {Free}] /\ len \in Nat
  BY DEF TypeOK
<1>3. ChainedIn(slots, cap) /\ OnceIn(slots)
  BY DEF Chained, ChainedIn, KeysOnce, OnceIn
<1>4. e.key \in Key /\ cap > 0
  BY <1>1, <1>2 DEF Entry
<1>5. \A m \in Before(Home(e.key, cap), j, cap) : slots[m] # Free
  BY <1>1 DEF EndsAt, Stops
<1>6. ASSUME NEW i \in Used(slots), i # j PROVE slots[i].key # e.key
  <2>1. EndsAt(slots, cap, slots[i].key, i)
    BY <1>2, <1>3, EndsAtEntry
  <2> QED BY <1>1, <1>2, <1>4, <1>6, <2>1, OneEnd
<1>7. /\ slots' \in [0..(cap - 1) -> Entry \cup {Free}]
      /\ ChainedIn(slots', cap) /\ OnceIn(slots')
      /\ Cardinality(Used(slots')) =
           IF slots[j] = Free THEN Cardinality(Used(slots)) + 1 ELSE Cardinality(Used(slots))
      /\ EntriesOf(slots') = {slots[i] : i \in Used(slots) \ {j}} \cup {e}
  <2>1. \A i \in Used(slots) \ {j} : slots[i].key # e.key
    BY <1>6
  <2>2. Writable(slots, cap, e, j)
    BY <1>2, <1>3, <1>5, <2>1 DEF Writable
  <2>3. WellWritten(slots, cap, e, j, slots')
    BY <1>1, <2>2, Written
  <2> QED BY <2>3 DEF WellWritten
<1>8. {slots[i] : i \in Used(slots) \ {j}} = {f \in EntriesOf(slots) : f.key # e.key}
  <2>1. j \in Used(slots) => slots[j].key = e.key
    BY <1>1 DEF EndsAt, Stops, Used
  <2> QED BY <1>6, <2>1 DEF EntriesOf
<1>9. len' <= len + 1 /\ len' \in Nat
  BY <1>1, <1>2
<1>10. len' = Cardinality(Used(slots'))
  BY <1>1, <1>7
<1>11. EntriesOf(slots') = {f \in EntriesOf(slots) : f.key # e.key} \cup {e}
  BY <1>7, <1>8
<1> QED BY <1>1, <1>4, <1>7, <1>9, <1>10, <1>11

\* New arrays are empty, and so are old ones that were freed.
LEMMA EmptyArrays ==
  ASSUME NEW n \in Nat
  PROVE  /\ Empty(n) \in [0..(n - 1) -> Entry \cup {Free}]
         /\ Used(Empty(n)) = {} /\ Cardinality(Used(Empty(n))) = 0
         /\ ChainedIn(Empty(n), n) /\ OnceIn(Empty(n)) /\ EntriesOf(Empty(n)) = {}
<1>1. Empty(n) \in [0..(n - 1) -> Entry \cup {Free}]
  BY DEF Empty
<1>2. Used(Empty(n)) = {}
  BY DEF Empty, Used
<1> QED BY <1>1, <1>2, FS_EmptySet DEF ChainedIn, OnceIn, EntriesOf

LEMMA NothingLeft ==
  ASSUME TypeOK, cursor = old_cap
  PROVE  LeftToMove = {}
BY DEF TypeOK, LeftToMove, Used

LEMMA IdleLeft ==
  ASSUME TableInv, Idle
  PROVE  old_cap = 0 /\ cursor = 0 /\ LeftToMove = {}
<1>1. old_cap = 0 /\ cursor = 0
  BY DEF TableInv, Counted, TypeOK
<1> QED BY <1>1, NothingLeft DEF TableInv

\* The number of entries left to move is the cardinality of a finite set.
LEMMA LeftFinite ==
  ASSUME TypeOK
  PROVE  IsFiniteSet(LeftToMove) /\ Cardinality(LeftToMove) \in Nat
<1>1. LeftToMove \in SUBSET Used(old)
  BY DEF LeftToMove
<1>2. old_cap \in Nat /\ old \in [0..(old_cap - 1) -> Entry \cup {Free}]
  BY DEF TypeOK
<1> QED BY <1>1, <1>2, UsedFinite

LEMMA InitTable == Init => TableInv
<1> SUFFICES ASSUME Init PROVE TableInv
  OBVIOUS
<1>1. /\ cap = 0 /\ slots = Empty(0) /\ len = 0
      /\ old = Empty(0) /\ old_cap = 0 /\ cursor = 0 /\ pending = None
  BY DEF Init
<1>2. /\ Empty(0) \in [0..(0 - 1) -> Entry \cup {Free}]
      /\ Used(Empty(0)) = {} /\ Cardinality(Used(Empty(0))) = 0
  BY EmptyArrays
<1>3. TypeOK
  BY <1>1, <1>2 DEF TypeOK
<1>4. LeftToMove = {}
  BY <1>1, <1>2 DEF LeftToMove
<1>5. Chained /\ KeysOnce
  BY <1>1, <1>2, <1>4 DEF Chained, KeysOnce
<1>6. Counted
  BY <1>1, <1>2 DEF Counted, Idle
<1> QED BY <1>3, <1>5, <1>6 DEF TableInv

\* Chained and KeysOnce after a step that leaves no old arrays.
LEMMA SearchableAlone ==
  ASSUME ChainedIn(slots', cap'), OnceIn(slots'), LeftToMove' = {}
  PROVE  Chained' /\ KeysOnce'
<1>1. Chained'
  BY DEF Chained, ChainedIn
<1>2. KeysOnce'
  BY DEF KeysOnce, OnceIn
<1> QED BY <1>1, <1>2

LEMMA PutTable ==
  ASSUME TableInv, NEW e \in Entry, Idle, ~MustGrow, Store(e),
         UNCHANGED <<old, old_cap, cursor, pending>>
  PROVE  TableInv'
<1>1. TypeOK /\ Chained /\ KeysOnce /\ len = Cardinality(Used(slots))
  BY DEF TableInv, Counted
<1>2. /\ cap' = cap /\ cap > 0
      /\ slots' \in [0..(cap - 1) -> Entry \cup {Free}]
      /\ ChainedIn(slots', cap) /\ OnceIn(slots')
      /\ len' = Cardinality(Used(slots')) /\ len' <= len + 1 /\ len' \in Nat
  BY <1>1, Stores
<1>3. old_cap = 0 /\ LeftToMove = {}
  BY IdleLeft
<1>4. TypeOK'
  BY <1>1, <1>2 DEF TypeOK
<1>5. LeftToMove' = {}
  BY <1>3 DEF LeftToMove
<1>6. Chained' /\ KeysOnce'
  BY <1>2, <1>5, SearchableAlone
<1>7. Counted'
  <2>1. 4 * len' < 3 * cap
    <3>1. (len + 1) * 4 < cap * 3
      BY <1>1 DEF MustGrow, TypeOK
    <3> QED BY <1>1, <1>2, <3>1 DEF TypeOK
  <2>2. Idle' /\ old_cap' = 0
    BY <1>3 DEF Idle
  <2>3. cap = 0 \/ cap >= FirstCap
    BY DEF TableInv, Counted
  <2> QED BY <1>2, <2>1, <2>2, <2>3 DEF Counted
<1> QED BY <1>4, <1>6, <1>7 DEF TableInv

LEMMA StartGrowingTable ==
  ASSUME TableInv, NEW e \in Entry, Idle, StartGrowing(e)
  PROVE  TableInv'
<1>1. /\ old' = slots /\ old_cap' = cap /\ cursor' = 0 /\ pending' = e
      /\ cap' = NextCap /\ slots' = Empty(NextCap) /\ len' = 0
  BY DEF StartGrowing, NewArrays
<1>2. /\ cap \in Nat /\ slots \in [0..(cap - 1) -> Entry \cup {Free}]
      /\ cap = 0 \/ cap >= FirstCap
      /\ len = Cardinality(Used(slots)) /\ (cap > 0 => 4 * len < 3 * cap)
      /\ OnceIn(slots)
  BY DEF TableInv, TypeOK, Counted, KeysOnce, OnceIn
<1>3. NextCap \in Nat
  BY <1>2, FirstCapAssumption DEF NextCap
<1>4. /\ slots' \in [0..(NextCap - 1) -> Entry \cup {Free}]
      /\ Used(slots') = {} /\ Cardinality(Used(slots')) = 0
  BY <1>1, <1>3, EmptyArrays
<1>5. TypeOK'
  BY <1>1, <1>2, <1>3, <1>4 DEF TypeOK
<1>6. LeftToMove' = Used(slots)
  BY <1>1, <1>2 DEF LeftToMove, Used
<1>7. Chained' /\ KeysOnce'
  <2>1. Chained'
    BY <1>4 DEF Chained
  <2>2. \A i, m \in Used(slots) : slots[i].key = slots[m].key => i = m
    BY <1>2 DEF OnceIn
  <2> QED BY <1>1, <1>4, <1>6, <2>1, <2>2 DEF KeysOnce
<1>8. Counted'
  <2>1. ~Idle'
    BY <1>1, FreeAssumption DEF Idle
  <2>2. NextCap = IF cap = 0 THEN FirstCap ELSE 2 * cap
    BY <1>2 DEF NextCap
  <2>3. NextCap >= FirstCap
    BY <1>2, <2>2, FirstCapAssumption
  <2>4. cap # 0 => 4 * (0 + Cardinality(Used(slots))) < 3 * cap
    <3>1. Cardinality(Used(slots)) \in Nat
      BY <1>2, UsedFinite
    <3> QED BY <1>2, <3>1
  <2> QED BY <1>1, <1>2, <1>4, <1>6, <2>1, <2>2, <2>3, <2>4 DEF Counted
<1> QED BY <1>5, <1>7, <1>8 DEF TableInv

\* What one turn of the loop of par_idx_table_grow does to the new arrays.
LEMMA MoveWrites ==
  ASSUME TableInv, Move, old[cursor] # Free
  PROVE  /\ slots' \in [0..(cap - 1) -> Entry \cup {Free}]
         /\ ChainedIn(slots', cap) /\ OnceIn(slots')
         /\ Cardinality(Used(slots')) = len + 1
         /\ EntriesOf(slots') = EntriesOf(slots) \cup {old[cursor]}
         /\ cursor \in LeftToMove /\ old[cursor] \in Entry
<1>1. /\ cap \in Nat /\ slots \in [0..(cap - 1) -> Entry \cup {Free}]
      /\ old_cap \in Nat /\ old \in [0..(old_cap - 1) -> Entry \cup {Free}]
      /\ cursor \in 0..old_cap /\ cursor < old_cap
  BY DEF TableInv, TypeOK, Move, NextSlot
<1>2. cursor \in LeftToMove /\ old[cursor] \in Entry
  BY <1>1 DEF LeftToMove, Used
<1>3. PICK j \in 0..(cap - 1) :
        /\ FirstFree(Home(old[cursor].key, cap), j)
        /\ slots' = [slots EXCEPT ![j] = old[cursor]]
  BY DEF Move, NextSlot
<1>4. slots[j] = Free /\ \A i \in Before(Home(old[cursor].key, cap), j, cap) : slots[i] # Free
  BY <1>3 DEF FirstFree
<1>5. \A i \in Used(slots) : slots[i].key # old[cursor].key
  BY <1>2 DEF TableInv, KeysOnce
<1>6. ChainedIn(slots, cap) /\ OnceIn(slots)
  BY DEF TableInv, Chained, ChainedIn, KeysOnce, OnceIn
<1>7. Writable(slots, cap, old[cursor], j)
  BY <1>1, <1>2, <1>4, <1>5, <1>6 DEF Writable
<1>8. WellWritten(slots, cap, old[cursor], j, slots')
  BY <1>3, <1>7, Written
<1>9. {slots[i] : i \in Used(slots) \ {j}} = EntriesOf(slots)
  <2>1. Used(slots) \ {j} = Used(slots)
    BY <1>4 DEF Used
  <2> QED BY <2>1 DEF EntriesOf
<1>10. len = Cardinality(Used(slots))
  BY DEF TableInv, Counted
<1> QED BY <1>2, <1>4, <1>8, <1>9, <1>10 DEF WellWritten

\* ... and to what is left to move.
LEMMA MoveLeaves ==
  ASSUME TableInv, Move
  PROVE  LeftToMove' = LeftToMove \ {cursor}
<1>1. /\ cursor \in Nat /\ cursor' = cursor + 1 /\ old' = old /\ old_cap' = old_cap
      /\ old \in [0..(old_cap - 1) -> Entry \cup {Free}] /\ old_cap \in Nat
  BY DEF TableInv, TypeOK, Move, NextSlot
<1>2. Used(old)' = Used(old)
  BY <1>1 DEF Used
<1>3. Used(old) \subseteq Nat
  BY <1>1 DEF Used
<1>4. LeftToMove' = {i \in Used(old) : i >= cursor + 1}
  BY <1>1, <1>2 DEF LeftToMove
<1> QED BY <1>1, <1>3, <1>4 DEF LeftToMove

LEMMA MoveTable ==
  ASSUME TableInv, Move
  PROVE  TableInv'
<1>1. /\ ~Idle /\ cursor < old_cap /\ cursor' = cursor + 1
      /\ cap' = cap /\ old' = old /\ old_cap' = old_cap /\ pending' = pending
  BY DEF Move, NextSlot
<1>2. /\ cap \in Nat /\ slots \in [0..(cap - 1) -> Entry \cup {Free}] /\ len \in Nat
      /\ old_cap \in Nat /\ old \in [0..(old_cap - 1) -> Entry \cup {Free}]
      /\ cursor \in 0..old_cap /\ pending \in Entry \cup {None}
  BY DEF TableInv, TypeOK
<1>3. LeftToMove' = LeftToMove \ {cursor}
  BY MoveLeaves
<1>4. IsFiniteSet(LeftToMove) /\ Cardinality(LeftToMove) \in Nat
  BY LeftFinite DEF TableInv
<1>5. Cardinality(LeftToMove \ {cursor}) =
        IF cursor \in LeftToMove THEN Cardinality(LeftToMove) - 1 ELSE Cardinality(LeftToMove)
  BY <1>4, FS_RemoveElement
<1>6. /\ cap = IF old_cap = 0 THEN FirstCap ELSE 2 * old_cap
      /\ old_cap = 0 \/ old_cap >= FirstCap
      /\ cap = 0 \/ cap >= FirstCap
      /\ IF old_cap = 0 THEN len = 0 ELSE 4 * (len + Cardinality(LeftToMove)) < 3 * old_cap
      /\ len = Cardinality(Used(slots))
  BY <1>1 DEF TableInv, Counted
<1>7. old_cap # 0
  BY <1>1, <1>2
<1>8. cursor' \in 0..old_cap'
  BY <1>1, <1>2
<1>9. ~Idle'
  BY <1>1 DEF Idle
<1>10. CASE old[cursor] = Free
  <2>1. slots' = slots /\ len' = len
    BY <1>10 DEF Move, NextSlot
  <2>2. LeftToMove' = LeftToMove
    BY <1>3, <1>10 DEF LeftToMove, Used
  <2>3. TypeOK'
    BY <1>1, <1>2, <1>8, <2>1 DEF TypeOK
  <2>4. Used(slots') = Used(slots)
    BY <2>1
  <2>5. Chained'
    BY <1>1, <2>1 DEF TableInv, Chained
  <2>6. KeysOnce'
    BY <1>1, <2>1, <2>2 DEF TableInv, KeysOnce
  <2>7. Counted'
    BY <1>1, <1>6, <1>7, <1>9, <2>1, <2>2, <2>4 DEF Counted
  <2> QED BY <2>3, <2>5, <2>6, <2>7 DEF TableInv
<1>11. CASE old[cursor] # Free
  <2>1. /\ slots' \in [0..(cap - 1) -> Entry \cup {Free}]
        /\ ChainedIn(slots', cap) /\ OnceIn(slots')
        /\ Cardinality(Used(slots')) = len + 1
        /\ EntriesOf(slots') = EntriesOf(slots) \cup {old[cursor]}
        /\ cursor \in LeftToMove /\ old[cursor] \in Entry
    BY <1>11, MoveWrites
  <2>2. len' = len + 1
    BY <1>11 DEF Move, NextSlot
  <2>3. TypeOK'
    BY <1>1, <1>2, <1>8, <2>1, <2>2 DEF TypeOK
  <2>4. Chained'
    BY <1>1, <2>1 DEF Chained, ChainedIn
  <2>5. KeysOnce'
    <3>1. ASSUME NEW i \in Used(slots'), NEW m \in LeftToMove'
          PROVE  slots'[i].key # old[m].key
      <4>1. m \in LeftToMove /\ m # cursor
        BY <1>3
      <4>2. slots'[i] \in EntriesOf(slots) \/ slots'[i] = old[cursor]
        BY <2>1 DEF EntriesOf
      <4>3. CASE slots'[i] = old[cursor]
        BY <2>1, <4>1, <4>3 DEF TableInv, KeysOnce
      <4>4. CASE slots'[i] \in EntriesOf(slots)
        BY <4>1, <4>4 DEF TableInv, KeysOnce, EntriesOf
      <4> QED BY <4>2, <4>3, <4>4
    <3>2. \A i, m \in LeftToMove' : old[i].key = old[m].key => i = m
      BY <1>3 DEF TableInv, KeysOnce
    <3>3. \A i, m \in Used(slots') : slots'[i].key = slots'[m].key => i = m
      BY <2>1 DEF OnceIn
    <3> QED BY <1>1, <3>1, <3>2, <3>3 DEF KeysOnce
  <2>6. Cardinality(LeftToMove') = Cardinality(LeftToMove) - 1
    BY <1>3, <1>5, <2>1
  <2>7. 4 * (len' + Cardinality(LeftToMove')) < 3 * old_cap
    BY <1>2, <1>4, <1>6, <1>7, <2>2, <2>6
  <2>8. Counted'
    BY <1>1, <1>6, <1>7, <1>9, <2>1, <2>2, <2>7 DEF Counted
  <2> QED BY <2>3, <2>4, <2>5, <2>8 DEF TableInv
<1> QED BY <1>10, <1>11

LEMMA FinishGrowingTable ==
  ASSUME TableInv, FinishGrowing
  PROVE  TableInv'
<1>1. /\ ~Idle /\ cursor = old_cap /\ Store(pending)
      /\ old' = Empty(0) /\ old_cap' = 0 /\ cursor' = 0 /\ pending' = None
  BY DEF FinishGrowing
<1>2. TypeOK /\ Chained /\ KeysOnce /\ len = Cardinality(Used(slots)) /\ pending \in Entry
  BY <1>1 DEF TableInv, Counted, TypeOK, Idle
<1>3. /\ cap' = cap /\ cap > 0
      /\ slots' \in [0..(cap - 1) -> Entry \cup {Free}]
      /\ ChainedIn(slots', cap) /\ OnceIn(slots')
      /\ len' = Cardinality(Used(slots')) /\ len' <= len + 1 /\ len' \in Nat
  BY <1>1, <1>2, Stores
<1>4. Empty(0) \in [0..(0 - 1) -> Entry \cup {Free}] /\ Used(Empty(0)) = {}
  BY EmptyArrays
<1>5. TypeOK'
  BY <1>1, <1>2, <1>3, <1>4 DEF TypeOK
<1>6. LeftToMove' = {}
  BY <1>1, <1>4 DEF LeftToMove
<1>7. Chained' /\ KeysOnce'
  BY <1>3, <1>6, SearchableAlone
<1>8. Counted'
  <2>1. LeftToMove = {}
    BY <1>1, <1>2, NothingLeft
  <2>2. Cardinality(LeftToMove) = 0
    BY <2>1, FS_EmptySet
  <2>3. /\ cap = IF old_cap = 0 THEN FirstCap ELSE 2 * old_cap
        /\ cap = 0 \/ cap >= FirstCap
        /\ old_cap = 0 \/ old_cap >= FirstCap
        /\ IF old_cap = 0 THEN len = 0 ELSE 4 * (len + Cardinality(LeftToMove)) < 3 * old_cap
    BY <1>1 DEF TableInv, Counted
  <2>4. 4 * len' < 3 * cap
    <3>1. len \in Nat /\ old_cap \in Nat /\ cap \in Nat
      BY <1>2 DEF TypeOK
    <3>2. CASE old_cap = 0
      BY <1>3, <2>3, <3>1, <3>2, FirstCapAssumption
    <3>3. CASE old_cap # 0
      <4>1. 4 * len < 3 * old_cap /\ cap = 2 * old_cap /\ old_cap >= 2
        BY <2>2, <2>3, <3>1, <3>3, FirstCapAssumption
      <4> QED BY <1>3, <3>1, <4>1
    <3> QED BY <3>2, <3>3
  <2>5. Idle'
    BY <1>1 DEF Idle
  <2> QED BY <1>1, <1>3, <2>3, <2>4, <2>5 DEF Counted
<1> QED BY <1>5, <1>7, <1>8 DEF TableInv

LEMMA ResetTable ==
  ASSUME TableInv, Reset
  PROVE  TableInv'
<1>1. /\ Idle /\ slots' = Empty(cap) /\ len' = 0 /\ cap' = cap
      /\ old' = old /\ old_cap' = old_cap /\ cursor' = cursor /\ pending' = pending
  BY DEF Reset
<1>2. TypeOK
  BY DEF TableInv
<1>3. cap \in Nat
  BY <1>2 DEF TypeOK
<1>4. /\ slots' \in [0..(cap - 1) -> Entry \cup {Free}]
      /\ Used(slots') = {} /\ Cardinality(Used(slots')) = 0
      /\ ChainedIn(slots', cap) /\ OnceIn(slots')
  BY <1>1, <1>3, EmptyArrays
<1>5. TypeOK'
  BY <1>1, <1>2, <1>4 DEF TypeOK
<1>6. old_cap = 0 /\ LeftToMove = {}
  BY <1>1, IdleLeft
<1>7. LeftToMove' = {}
  BY <1>1, <1>6 DEF LeftToMove
<1>8. Chained' /\ KeysOnce'
  BY <1>1, <1>4, <1>7, SearchableAlone
<1>9. Counted'
  <2>1. Idle' /\ old_cap' = 0 /\ (cap = 0 \/ cap >= FirstCap)
    BY <1>1, <1>6 DEF TableInv, Counted, Idle
  <2>2. cap > 0 => 4 * len' < 3 * cap
    BY <1>1, <1>3
  <2> QED BY <1>1, <1>4, <2>1, <2>2 DEF Counted
<1> QED BY <1>5, <1>8, <1>9 DEF TableInv

\* Each step keeps the invariant.
LEMMA TableInductive ==
  ASSUME TableInv, [Next]_vars
  PROVE  TableInv'
<1>1. ASSUME NEW k \in Key, NEW v \in Val, Put(k, v) PROVE TableInv'
  <2>1. [key |-> k, val |-> v] \in Entry
    BY DEF Entry
  <2> QED BY <1>1, <2>1, PutTable, StartGrowingTable DEF Put
<1>2. CASE UNCHANGED vars
  BY <1>2 DEF vars, TableInv, TypeOK, Chained, KeysOnce, Counted, Idle, LeftToMove, Used
<1> QED BY <1>1, <1>2, MoveTable, FinishGrowingTable, ResetTable DEF Next

\* The inductive invariant (verification.c:28, 66): no entry is behind a free place, no
\* key has two, and the entries are counted, also between the steps of growing.
THEOREM TableSafe == Spec => []TableInv
<1>1. TableInv /\ [Next]_vars => TableInv'
  BY TableInductive
<1> QED BY <1>1, InitTable, PTL DEF Spec

\* The state of the table keeps its types (verification.c:15 to 27).
THEOREM TableTyped == Spec => []TypeOK
<1>1. TableInv => TypeOK
  BY DEF TableInv
<1> QED BY <1>1, TableSafe, PTL

-----------------------------------------------------------------------------
(* Searches.                                                               *)

LEMMA SearchEnds ==
  ASSUME TableInv
  PROVE  SearchesEnd
<1> SUFFICES ASSUME cap > 0, NEW k \in Key
             PROVE  \E j \in 0..(cap - 1) : EndsAt(slots, cap, k, j)
  BY DEF SearchesEnd
<1>1. /\ cap \in Nat /\ slots \in [0..(cap - 1) -> Entry \cup {Free}]
      /\ old_cap \in Nat /\ len \in Nat
  BY DEF TableInv, TypeOK
<1>2. len = Cardinality(Used(slots))
  BY DEF TableInv, Counted
<1>3. Cardinality(LeftToMove) \in Nat
  BY LeftFinite DEF TableInv
<1>4. len < cap
  <2>1. CASE Idle
    <3>1. 4 * len < 3 * cap
      BY <2>1 DEF TableInv, Counted
    <3> QED BY <1>1, <3>1
  <2>2. CASE ~Idle
    <3>1. /\ cap = IF old_cap = 0 THEN FirstCap ELSE 2 * old_cap
          /\ IF old_cap = 0 THEN len = 0 ELSE 4 * (len + Cardinality(LeftToMove)) < 3 * old_cap
      BY <2>2 DEF TableInv, Counted
    <3> QED BY <1>1, <1>3, <3>1
  <2> QED BY <2>1, <2>2
<1>5. PICK f \in 0..(cap - 1) : slots[f] = Free
  BY <1>1, <1>2, <1>4, RoomIsFree
<1> QED BY <1>1, <1>5, FreeEnds

\* Every search of par_idx_table_get, put and grow ends (verification.c:41, 56, 69).
THEOREM SearchesAlwaysEnd == Spec => []SearchesEnd
<1>1. TableInv => SearchesEnd
  BY SearchEnds
<1> QED BY <1>1, TableSafe, PTL

\* No two entries have the same key, whether they were moved yet or not.
LEMMA EntriesOnce ==
  ASSUME TableInv
  PROVE  OneEach(Contents) /\ \A e \in Contents : e \in Entry
<1>1. /\ slots \in [0..(cap - 1) -> Entry \cup {Free}]
      /\ old \in [0..(old_cap - 1) -> Entry \cup {Free}]
  BY DEF TableInv, TypeOK
<1>2. \A e \in Contents : e \in Entry
  BY <1>1 DEF Contents, Used, LeftToMove
<1>3. ASSUME NEW e \in Contents, NEW f \in Contents, e.key = f.key PROVE e = f
  <2>1. (\E i \in Used(slots) : e = slots[i]) \/ (\E i \in LeftToMove : e = old[i])
    BY DEF Contents
  <2>2. (\E i \in Used(slots) : f = slots[i]) \/ (\E i \in LeftToMove : f = old[i])
    BY DEF Contents
  <2>3. KeysOnce
    BY DEF TableInv
  <2> QED BY <1>3, <2>1, <2>2, <2>3 DEF KeysOnce
<1> QED BY <1>2, <1>3 DEF OneEach

\* What a set of entries maps its keys to.
LEMMA StoredEntry ==
  ASSUME NEW C, OneEach(C), NEW e \in C, e.key \in Key
  PROVE  StoredIn(C)[e.key] = e.val
<1>1. \E f \in C : f.key = e.key
  OBVIOUS
<1>2. (CHOOSE f \in C : f.key = e.key) = e
  <2>1. /\ (CHOOSE f \in C : f.key = e.key) \in C
        /\ (CHOOSE f \in C : f.key = e.key).key = e.key
    BY <1>1
  <2> QED BY <2>1 DEF OneEach
<1> QED BY <1>1, <1>2 DEF StoredIn

LEMMA StoredNone ==
  ASSUME NEW C, NEW k \in Key, \A e \in C : e.key # k
  PROVE  StoredIn(C)[k] = None
BY DEF StoredIn

LEMMA GetsStored ==
  ASSUME TableInv
  PROVE  GetFindsStored
<1> SUFFICES ASSUME Idle, NEW k \in Key PROVE Get(k) = Stored[k]
  BY DEF GetFindsStored
<1>1. /\ cap \in Nat /\ slots \in [0..(cap - 1) -> Entry \cup {Free}]
      /\ ChainedIn(slots, cap) /\ OnceIn(slots)
  BY DEF TableInv, TypeOK, Chained, ChainedIn, KeysOnce, OnceIn
<1>2. Contents = EntriesOf(slots)
  BY IdleLeft DEF Contents, EntriesOf
<1>3. Stored[k] = StoredIn(Contents)[k]
  BY DEF Stored, StoredIn
<1>4. OneEach(Contents)
  BY EntriesOnce
<1>5. CASE cap = 0
  <2>1. Contents = {}
    BY <1>1, <1>2, <1>5 DEF EntriesOf, Used
  <2>2. StoredIn(Contents)[k] = None
    BY <2>1, StoredNone
  <2> QED BY <1>3, <1>5, <2>2 DEF Get
<1>6. CASE cap # 0
  <2> DEFINE j == CHOOSE j \in 0..(cap - 1) : EndsAt(slots, cap, k, j)
  <2>1. j \in 0..(cap - 1) /\ EndsAt(slots, cap, k, j)
    <3>1. \E i \in 0..(cap - 1) : EndsAt(slots, cap, k, i)
      BY <1>1, <1>6, SearchEnds DEF SearchesEnd
    <3> QED BY <3>1
  <2>2. Get(k) = IF slots[j] = Free THEN None ELSE slots[j].val
    BY <1>6 DEF Get
  <2> HIDE DEF j
  <2>3. CASE slots[j] = Free
    <3>1. ASSUME NEW e \in Contents, e.key = k PROVE FALSE
      <4>1. PICK i \in Used(slots) : e = slots[i]
        BY <1>2 DEF EntriesOf
      <4>2. EndsAt(slots, cap, k, i)
        BY <1>1, <3>1, <4>1, EndsAtEntry
      <4>3. i = j
        BY <1>1, <2>1, <4>2, OneEnd
      <4> QED BY <2>3, <4>3 DEF Used
    <3>2. StoredIn(Contents)[k] = None
      BY <3>1, StoredNone
    <3> QED BY <1>3, <2>2, <2>3, <3>2
  <2>4. CASE slots[j] # Free
    <3>1. slots[j].key = k /\ slots[j] \in Contents
      BY <1>1, <1>2, <2>1, <2>4 DEF EndsAt, Stops, EntriesOf, Used
    <3>2. StoredIn(Contents)[slots[j].key] = slots[j].val
      BY <1>4, <3>1, StoredEntry
    <3> QED BY <1>3, <2>2, <2>4, <3>1, <3>2
  <2> QED BY <2>3, <2>4
<1> QED BY <1>5, <1>6

\* par_idx_table_get finds what was put last (verification.c:53), for any collisions.
THEOREM GetsWhatWasPut == Spec => []GetFindsStored
<1>1. TableInv => GetFindsStored
  BY GetsStored
<1> QED BY <1>1, TableSafe, PTL

-----------------------------------------------------------------------------
(* The table is a partial map.                                             *)

LEMMA StoredIsIn == Stored = StoredIn(Contents) /\ Stored' = StoredIn(Contents')
BY DEF Stored, StoredIn

\* Replacing the entry of a key changes what this key is mapped to and nothing else.
LEMMA StoredAfter ==
  ASSUME NEW C, OneEach(C), \A f \in C : f.key \in Key,
         NEW e, e.key \in Key,
         NEW D, D = {f \in C : f.key # e.key} \cup {e}
  PROVE  StoredIn(D) = [StoredIn(C) EXCEPT ![e.key] = e.val]
<1>1. OneEach(D) /\ e \in D
  BY DEF OneEach
<1>2. StoredIn(D)[e.key] = e.val
  BY <1>1, StoredEntry
<1>3. ASSUME NEW k \in Key, k # e.key PROVE StoredIn(D)[k] = StoredIn(C)[k]
  <2>1. CASE \E f \in C : f.key = k
    <3>1. PICK f \in C : f.key = k
      BY <2>1
    <3>2. f \in D
      BY <1>3, <3>1
    <3>3. StoredIn(D)[f.key] = f.val /\ StoredIn(C)[f.key] = f.val
      BY <1>1, <3>1, <3>2, StoredEntry
    <3> QED BY <3>1, <3>3
  <2>2. CASE \A f \in C : f.key # k
    <3>1. \A f \in D : f.key # k
      BY <1>3, <2>2
    <3>2. StoredIn(D)[k] = None /\ StoredIn(C)[k] = None
      BY <2>2, <3>1, StoredNone
    <3> QED BY <3>2
  <2> QED BY <2>1, <2>2
<1>4. /\ StoredIn(D) = [k \in Key |-> StoredIn(D)[k]]
      /\ StoredIn(C) = [k \in Key |-> StoredIn(C)[k]]
  BY DEF StoredIn
<1> HIDE DEF StoredIn
<1> QED BY <1>2, <1>3, <1>4

\* The end of a put changes the value of one key.
LEMMA StoreMaps ==
  ASSUME TableInv, NEW e \in Entry, Store(e), LeftToMove = {}, LeftToMove' = {}
  PROVE  Stored' = [Stored EXCEPT ![e.key] = e.val]
<1>1. TypeOK /\ Chained /\ KeysOnce /\ len = Cardinality(Used(slots))
  BY DEF TableInv, Counted
<1>2. EntriesOf(slots') = {f \in EntriesOf(slots) : f.key # e.key} \cup {e}
  BY <1>1, Stores
<1>3. Contents = EntriesOf(slots) /\ Contents' = EntriesOf(slots')
  BY DEF Contents, EntriesOf
<1>4. OneEach(Contents) /\ (\A f \in Contents : f.key \in Key) /\ e.key \in Key
  BY EntriesOnce DEF Entry
<1>5. Contents' = {f \in Contents : f.key # e.key} \cup {e}
  BY <1>2, <1>3
<1>6. StoredIn(Contents') = [StoredIn(Contents) EXCEPT ![e.key] = e.val]
  BY <1>4, <1>5, StoredAfter
<1> QED BY <1>6, StoredIsIn

\* Starting to grow moves all entries to the old arrays.
LEMMA StartKeeps ==
  ASSUME TableInv, Idle, NEW e, StartGrowing(e)
  PROVE  Stored' = Stored
<1>1. old' = slots /\ cursor' = 0 /\ slots' = Empty(NextCap)
  BY DEF StartGrowing, NewArrays
<1>2. cap \in Nat /\ NextCap \in Nat /\ slots \in [0..(cap - 1) -> Entry \cup {Free}]
  BY FirstCapAssumption DEF TableInv, TypeOK, NextCap
<1>3. Used(slots') = {}
  BY <1>1, <1>2, EmptyArrays
<1>4. LeftToMove' = Used(slots)
  BY <1>1, <1>2 DEF LeftToMove, Used
<1>5. LeftToMove = {}
  BY IdleLeft
<1>6. Contents' = EntriesOf(slots) /\ Contents = EntriesOf(slots)
  BY <1>1, <1>3, <1>4, <1>5 DEF Contents, EntriesOf
<1> QED BY <1>6, StoredIsIn

\* Moving an entry leaves it in the table.
LEMMA MoveKeeps ==
  ASSUME TableInv, Move
  PROVE  Stored' = Stored
<1>1. LeftToMove' = LeftToMove \ {cursor} /\ old' = old
  BY MoveLeaves DEF Move, NextSlot
<1>2. CASE old[cursor] = Free
  <2>1. slots' = slots /\ LeftToMove' = LeftToMove
    BY <1>1, <1>2 DEF Move, NextSlot, LeftToMove, Used
  <2>2. Contents' = Contents
    BY <1>1, <2>1 DEF Contents
  <2> QED BY <2>2, StoredIsIn
<1>3. CASE old[cursor] # Free
  <2>1. EntriesOf(slots') = EntriesOf(slots) \cup {old[cursor]} /\ cursor \in LeftToMove
    BY <1>3, MoveWrites
  <2>2. Contents' = EntriesOf(slots') \cup {old[i] : i \in LeftToMove \ {cursor}}
    BY <1>1 DEF Contents, EntriesOf
  <2>3. Contents = EntriesOf(slots) \cup {old[i] : i \in LeftToMove}
    BY DEF Contents, EntriesOf
  <2>4. {old[i] : i \in LeftToMove} = {old[i] : i \in LeftToMove \ {cursor}} \cup {old[cursor]}
    BY <2>1
  <2>5. Contents' = Contents
    BY <2>1, <2>2, <2>3, <2>4
  <2> QED BY <2>5, StoredIsIn
<1> QED BY <1>2, <1>3

LEMMA PutMaps ==
  ASSUME TableInv, NEW k \in Key, NEW v \in Val, Put(k, v)
  PROVE  \/ ~Idle' /\ Stored' = Stored /\ pending' = [key |-> k, val |-> v]
         \/ Idle' /\ Stored' = [Stored EXCEPT ![k] = v]
<1> DEFINE e == [key |-> k, val |-> v]
<1>1. e \in Entry /\ e.key = k /\ e.val = v
  BY DEF Entry
<1>2. Idle
  BY DEF Put
<1> HIDE DEF e
<1>3. CASE StartGrowing(e)
  <2>1. Stored' = Stored /\ pending' = e
    BY <1>2, <1>3, StartKeeps DEF StartGrowing
  <2>2. ~Idle'
    BY <1>1, <2>1, FreeAssumption DEF Idle
  <2> QED BY <2>1, <2>2 DEF e
<1>4. CASE Store(e) /\ UNCHANGED <<old, old_cap, cursor, pending>>
  <2>1. LeftToMove = {} /\ LeftToMove' = {}
    BY <1>2, <1>4, IdleLeft DEF LeftToMove
  <2>2. Stored' = [Stored EXCEPT ![e.key] = e.val]
    BY <1>1, <1>4, <2>1, StoreMaps
  <2>3. Idle'
    BY <1>2, <1>4 DEF Idle
  <2> QED BY <1>1, <2>2, <2>3
<1> QED BY <1>3, <1>4 DEF Put, e

LEMMA FinishMaps ==
  ASSUME TableInv, FinishGrowing
  PROVE  /\ Idle' /\ pending \in Entry /\ pending.key \in Key /\ pending.val \in Val
         /\ Stored' = [Stored EXCEPT ![pending.key] = pending.val]
<1>1. /\ ~Idle /\ cursor = old_cap /\ Store(pending)
      /\ old' = Empty(0) /\ pending' = None
  BY DEF FinishGrowing
<1>2. pending \in Entry
  BY <1>1 DEF TableInv, TypeOK, Idle
<1>3. LeftToMove = {}
  BY <1>1, NothingLeft DEF TableInv
<1>4. Used(Empty(0)) = {}
  BY EmptyArrays
<1>5. LeftToMove' = {}
  BY <1>1, <1>4 DEF LeftToMove
<1>6. Stored' = [Stored EXCEPT ![pending.key] = pending.val]
  BY <1>1, <1>2, <1>3, <1>5, StoreMaps
<1>7. Idle'
  BY <1>1 DEF Idle
<1> QED BY <1>2, <1>6, <1>7 DEF Entry

LEMMA ResetMaps ==
  ASSUME TableInv, Reset
  PROVE  Idle' /\ Stored' = [k \in Key |-> None]
<1>1. /\ Idle /\ slots' = Empty(cap)
      /\ old' = old /\ cursor' = cursor /\ pending' = pending /\ cap \in Nat
  BY DEF Reset, TableInv, TypeOK
<1>2. Used(slots') = {} /\ LeftToMove' = {}
  <2>1. LeftToMove = {}
    BY <1>1, IdleLeft
  <2> QED BY <1>1, <2>1, EmptyArrays DEF LeftToMove
<1>3. Contents' = {}
  BY <1>2 DEF Contents
<1> QED BY <1>1, <1>3 DEF Stored, Idle

LEMMA InitMaps == Init => Stored = [k \in Key |-> None]
<1> SUFFICES ASSUME Init PROVE Stored = [k \in Key |-> None]
  OBVIOUS
<1>1. Used(slots) = {} /\ Used(old) = {}
  BY EmptyArrays DEF Init
<1>2. Contents = {}
  BY <1>1 DEF Contents, LeftToMove
<1> QED BY <1>2 DEF Stored

\* The table implements a partial map (verification.c:15 to 95): a put changes its own
\* key when it stores the entry, and nothing changes while the entries are moved.
THEOREM TableIsMap == Spec => ImplementsMap
<1>1. Init => Map!Init
  BY InitMaps DEF Map!Init
<1>2. TableInv /\ [Next]_vars => [Map!Next]_Stored
  <2> SUFFICES ASSUME TableInv, [Next]_vars PROVE Map!Next \/ Stored' = Stored
    OBVIOUS
  <2>1. ASSUME NEW k \in Key, NEW v \in Val, Put(k, v)
        PROVE  Map!Next \/ Stored' = Stored
    <3>1. Stored' = Stored \/ Stored' = [Stored EXCEPT ![k] = v]
      BY <2>1, PutMaps
    <3> QED BY <3>1 DEF Map!Next, Map!Put
  <2>2. CASE Move
    BY <2>2, MoveKeeps
  <2>3. CASE FinishGrowing
    <3>1. /\ pending.key \in Key /\ pending.val \in Val
          /\ Stored' = [Stored EXCEPT ![pending.key] = pending.val]
      BY <2>3, FinishMaps
    <3> QED BY <3>1 DEF Map!Next, Map!Put
  <2>4. CASE Reset
    BY <2>4, ResetMaps DEF Map!Next, Map!Reset
  <2>5. CASE UNCHANGED vars
    BY <2>5 DEF vars, Stored, Contents, Used, LeftToMove
  <2> QED BY <2>1, <2>2, <2>3, <2>4, <2>5 DEF Next
<1> QED BY <1>1, <1>2, TableSafe, PTL DEF Spec, ImplementsMap, Map!Spec

-----------------------------------------------------------------------------
(* The interner.                                                           *)

\* The handles are projections, as many as there are indices at most.
HandlesTyped == handles \in Seq(Key) /\ Len(handles) <= MaxIndex + 1

InternInv == TableInv /\ HandlesTyped /\ IndexedOnce

LEMMA InternInitInv == InternInit => InternInv
<1> SUFFICES ASSUME InternInit PROVE InternInv
  OBVIOUS
<1>1. TableInv /\ Stored = [k \in Key |-> None] /\ Idle
  BY InitTable, InitMaps DEF InternInit, Init, Idle
<1>2. handles = <<>> /\ Len(handles) = 0 /\ handles \in Seq(Key) /\ DOMAIN handles = {}
  BY DEF InternInit
<1>3. HandlesTyped
  BY <1>2, ValAssumption DEF HandlesTyped
<1>4. IndexedOnce
  BY <1>1, <1>2 DEF IndexedOnce, Known
<1> QED BY <1>1, <1>3, <1>4 DEF InternInv

\* What is known after a new projection was interned, whether the call is done or still
\* grows the table.
LEMMA InternKnows ==
  ASSUME TableInv, NEW k \in Key, Intern(k)
  PROVE  /\ Known[k] = None /\ Len(handles) \in Val
         /\ Known' = [Known EXCEPT ![k] = Len(handles)]
<1>1. Idle /\ Get(k) = None /\ Len(handles) \in Val /\ Put(k, Len(handles))
  BY DEF Intern
<1>2. Stored[k] = None /\ Known = Stored
  BY <1>1, GetsStored DEF GetFindsStored, Known
<1>3. \/ ~Idle' /\ Stored' = Stored /\ pending' = [key |-> k, val |-> Len(handles)]
      \/ Idle' /\ Stored' = [Stored EXCEPT ![k] = Len(handles)]
  BY <1>1, PutMaps
<1>4. Known' = IF Idle' THEN Stored'
               ELSE [Stored' EXCEPT ![pending'.key] = pending'.val]
  BY DEF Known
<1>5. CASE Idle'
  BY <1>1, <1>2, <1>3, <1>4, <1>5
<1>6. CASE ~Idle'
  <2> DEFINE e == [key |-> k, val |-> Len(handles)]
  <2>1. e.key = k /\ e.val = Len(handles)
    OBVIOUS
  <2>2. Stored' = Stored /\ pending' = e
    BY <1>3, <1>6
  <2> HIDE DEF e
  <2>3. Known' = [Stored EXCEPT ![k] = Len(handles)]
    BY <1>4, <1>6, <2>1, <2>2
  <2> QED BY <1>1, <1>2, <2>3
<1> QED BY <1>1, <1>2, <1>5, <1>6

\* Growing the table changes nothing of what is known.
LEMMA GrowingKnows ==
  ASSUME TableInv, Move \/ FinishGrowing
  PROVE  Known' = Known
<1>1. CASE Move
  <2>1. Stored' = Stored /\ pending' = pending /\ (Idle' <=> Idle)
    BY <1>1, MoveKeeps DEF Move, Idle
  <2> QED BY <2>1 DEF Known
<1>2. CASE FinishGrowing
  <2>1. ~Idle
    BY <1>2 DEF FinishGrowing
  <2>2. Idle' /\ Stored' = [Stored EXCEPT ![pending.key] = pending.val]
    BY <1>2, FinishMaps
  <2> QED BY <2>1, <2>2 DEF Known
<1> QED BY <1>1, <1>2

LEMMA InternIndexes ==
  ASSUME InternInv, NEW k \in Key, Intern(k)
  PROVE  HandlesTyped' /\ IndexedOnce'
<1> DEFINE n == Len(handles)
<1>1. /\ handles \in Seq(Key) /\ n \in Nat /\ DOMAIN handles = 1..n
      /\ \A i \in 1..n : handles[i] \in Key
  BY DEF InternInv, HandlesTyped
<1>2. Known[k] = None /\ n \in Val /\ Known' = [Known EXCEPT ![k] = n]
  BY InternKnows DEF InternInv
<1>3. n <= MaxIndex /\ MaxIndex \in Nat /\ (\A i \in 0..n : i # None)
  BY <1>2, ValAssumption, FreeAssumption
<1>4. handles' = Append(handles, k)
  BY DEF Intern
<1>5. /\ handles' \in Seq(Key) /\ Len(handles') = n + 1 /\ DOMAIN handles' = 1..(n + 1)
      /\ (\A i \in 1..n : handles'[i] = handles[i]) /\ handles'[n + 1] = k
  BY <1>1, <1>4
<1>6. DOMAIN Known = Key
  BY DEF Known, Stored
<1>7. /\ \A i \in 1..n : Known[handles[i]] = i - 1
      /\ \A x \in Key : Known[x] # None => Known[x] + 1 \in 1..n /\ handles[Known[x] + 1] = x
  BY <1>1 DEF InternInv, IndexedOnce
<1> HIDE DEF n
<1>8. HandlesTyped'
  BY <1>1, <1>3, <1>5 DEF HandlesTyped
<1>9. ASSUME NEW i \in 1..(n + 1)
      PROVE  handles'[i] \in Key /\ Known'[handles'[i]] = i - 1
  <2>1. CASE i \in 1..n
    <3>1. handles'[i] = handles[i] /\ handles[i] \in Key /\ Known[handles[i]] = i - 1
      BY <1>1, <1>5, <1>7, <2>1
    <3>2. i - 1 # None
      BY <1>1, <1>3, <2>1
    <3>3. handles[i] # k
      BY <1>2, <3>1, <3>2
    <3> QED BY <1>2, <1>6, <3>1, <3>3
  <2>2. CASE i = n + 1
    BY <1>1, <1>2, <1>5, <1>6, <2>2
  <2>3. i \in 1..n \/ i = n + 1
    BY <1>1
  <2> QED BY <2>1, <2>2, <2>3
<1>10. ASSUME NEW x \in Key, Known'[x] # None
       PROVE  Known'[x] + 1 \in 1..(n + 1) /\ handles'[Known'[x] + 1] = x
  <2>1. CASE x = k
    BY <1>1, <1>2, <1>5, <1>6, <2>1
  <2>2. CASE x # k
    <3>1. Known'[x] = Known[x]
      BY <1>2, <1>6, <2>2
    <3>2. Known[x] + 1 \in 1..n /\ handles[Known[x] + 1] = x
      BY <1>7, <1>10, <3>1
    <3> QED BY <1>1, <1>5, <3>1, <3>2
  <2> QED BY <2>1, <2>2
<1>11. IndexedOnce'
  BY <1>5, <1>9, <1>10 DEF IndexedOnce
<1> QED BY <1>8, <1>11

LEMMA ResetIndexes ==
  ASSUME TableInv, comp_context_reset
  PROVE  HandlesTyped' /\ IndexedOnce'
<1>1. /\ handles' = <<>> /\ Len(handles') = 0 /\ handles' \in Seq(Key)
      /\ DOMAIN handles' = {}
  BY DEF comp_context_reset, ResetBoth
<1>2. Idle' /\ Stored' = [k \in Key |-> None]
  BY ResetMaps DEF comp_context_reset, ResetBoth
<1>3. HandlesTyped'
  BY <1>1, ValAssumption DEF HandlesTyped
<1>4. IndexedOnce'
  BY <1>1, <1>2 DEF IndexedOnce, Known
<1> QED BY <1>3, <1>4

\* The inductive invariant of the interner (verification.c:98): an index is only known to
\* be new because the table it is looked up in hides nothing.
THEOREM InternerSafe == InternSpec => []InternInv
<1>1. InternInv /\ [InternNext]_ivars => InternInv'
  <2> SUFFICES ASSUME InternInv, [InternNext]_ivars PROVE InternInv'
    OBVIOUS
  <2>1. TableInv
    BY DEF InternInv
  <2>2. [Next]_vars
    BY DEF InternNext, Intern, Growing, comp_context_reset, ResetBoth, ivars, Next
  <2>3. TableInv'
    BY <2>1, <2>2, TableInductive
  <2>4. ASSUME NEW k \in Key, Intern(k) PROVE HandlesTyped' /\ IndexedOnce'
    BY <2>4, InternIndexes
  <2>5. ASSUME Known' = Known, handles' = handles PROVE HandlesTyped' /\ IndexedOnce'
    BY <2>5 DEF InternInv, HandlesTyped, IndexedOnce
  <2>6. ASSUME Growing PROVE HandlesTyped' /\ IndexedOnce'
    BY <2>1, <2>5, <2>6, GrowingKnows DEF Growing
  <2>7. ASSUME comp_context_reset PROVE HandlesTyped' /\ IndexedOnce'
    BY <2>1, <2>7, ResetIndexes
  <2>8. ASSUME UNCHANGED ivars PROVE HandlesTyped' /\ IndexedOnce'
    <3>1. Known' = Known /\ handles' = handles
      BY <2>8 DEF ivars, vars, Known, Idle, Stored, Contents, Used, LeftToMove
    <3> QED BY <2>5, <3>1
  <2>9. HandlesTyped' /\ IndexedOnce'
    BY <2>4, <2>6, <2>7, <2>8 DEF InternNext
  <2> QED BY <2>3, <2>9 DEF InternInv
<1> QED BY <1>1, InternInitInv, PTL DEF InternSpec

\* Every projection that was interned has one index, its own (verification.c:98), for any
\* collisions in the table, any growth of it and any resets.
THEOREM IndicesAreUnique == InternSpec => []IndexedOnce
<1>1. InternInv => IndexedOnce
  BY DEF InternInv
<1> QED BY <1>1, InternerSafe, PTL
-----------------------------------------------------------------------------
(* Holds: for any handles, any holds and any number of them.             *)

\* The row of a handle (verification.c:396) is a sequence of holds.
LEMMA RowType ==
  ASSUME RowsInside, NEW o \in Handle
  PROVE  /\ Row(o) \in Seq(Hold) /\ Len(Row(o)) = num_holds[o]
         /\ \A i \in 1..num_holds[o] :
              /\ Row(o)[i] = holds[holds_start[o] + i]
              /\ holds_start[o] + i \in 1..Len(holds)
<1>1. num_holds[o] \in Nat /\ holds_start[o] \in Nat /\ Len(holds) \in Nat
  BY DEF RowsInside
<1>2. \A i \in 1..num_holds[o] : holds_start[o] + i \in 1..Len(holds)
  BY <1>1 DEF RowsInside
<1>3. \A i \in 1..num_holds[o] : holds[holds_start[o] + i] \in Hold
  BY <1>2 DEF RowsInside
<1>4. Row(o) \in [1..num_holds[o] -> Hold]
  BY <1>3 DEF Row
<1>5. Row(o) \in Seq(Hold) /\ Len(Row(o)) = num_holds[o]
  BY <1>1, <1>4
<1> QED BY <1>2, <1>5 DEF Row

\* What handle_add_hold does when the hold is new (verification.c:401): the row of its
\* handle gets one longer, wherever it is then, and no other row changes.
LEMMA RowsAfterAdd ==
  ASSUME RowsInside, NEW o \in Handle, NEW h \in Hold,
         h \notin Range(Row(o)), handle_add_hold(o, h)
  PROVE  /\ RowsInside'
         /\ Row(o)' = Append(Row(o), h)
         /\ \A p \in Handle \ {o} : Row(p)' = Row(p)
<1> DEFINE more == IF Moves(o) THEN holds \o Row(o) ELSE holds
           n == num_holds[o]
<1>1. /\ holds' = more \o <<h>>
      /\ holds_start' = [holds_start EXCEPT ![o] = StartOf(o)]
      /\ num_holds' = [num_holds EXCEPT ![o] = @ + 1]
  BY DEF handle_add_hold
<1>2. /\ n \in Nat /\ holds \in Seq(Hold) /\ Len(holds) \in Nat
      /\ holds_start \in [Handle -> Nat] /\ num_holds \in [Handle -> Nat]
  BY DEF RowsInside
<1>3. /\ Row(o) \in Seq(Hold) /\ Len(Row(o)) = n
      /\ \A i \in 1..n : Row(o)[i] = holds[holds_start[o] + i]
  BY RowType
<1>4. /\ more \in Seq(Hold) /\ Len(more) >= Len(holds)
      /\ Len(more) = StartOf(o) + n
      /\ \A i \in 1..Len(holds) : more[i] = holds[i]
      /\ \A i \in 1..n : more[StartOf(o) + i] = Row(o)[i]
      /\ StartOf(o) \in Nat /\ Len(more) \in Nat
  <2>1. CASE Moves(o)
    <3>1. more = holds \o Row(o) /\ StartOf(o) = Len(holds)
      BY <2>1 DEF StartOf
    <3> HIDE DEF n
    <3>2. /\ Len(holds \o Row(o)) = Len(holds) + Len(Row(o))
          /\ holds \o Row(o) \in Seq(Hold)
      BY <1>2, <1>3, ConcatProperties, Zenon
    <3>3. \A i \in 1..Len(holds) : (holds \o Row(o))[i] = holds[i]
      BY <1>2, <1>3, ConcatProperties
    <3>4. \A i \in 1..n : (holds \o Row(o))[Len(holds) + i] = Row(o)[i]
      BY <1>2, <1>3, ConcatProperties
    <3> QED BY <3>1, <3>2, <3>3, <3>4, <1>2, <1>3
  <2>2. CASE ~Moves(o) /\ n # 0
    <3>1. more = holds /\ StartOf(o) = holds_start[o] /\ holds_start[o] + n = Len(holds)
      BY <2>2 DEF StartOf, Moves
    <3> HIDE DEF more, n
    <3> QED BY <3>1, <1>2, <1>3
  <2>3. CASE n = 0
    <3>1. more = holds /\ StartOf(o) = Len(holds)
      BY <2>3 DEF StartOf, Moves
    <3>2. Len(holds) = Len(holds) + n /\ 1..n = {}
      BY <2>3, <1>2
    <3> HIDE DEF more, n
    <3> QED BY <3>1, <3>2, <1>2
  <2> QED BY <2>1, <2>2, <2>3
<1> HIDE DEF more, n
<1>5. /\ holds' \in Seq(Hold) /\ Len(holds') = Len(more) + 1
      /\ \A i \in 1..Len(more) : holds'[i] = more[i]
      /\ holds'[Len(more) + 1] = h
  BY <1>1, <1>4
<1>6. /\ holds_start'[o] = StartOf(o) /\ num_holds'[o] = n + 1
      /\ holds_start' \in [Handle -> Nat] /\ num_holds' \in [Handle -> Nat]
      /\ \A p \in Handle \ {o} :
           holds_start'[p] = holds_start[p] /\ num_holds'[p] = num_holds[p]
  BY <1>1, <1>2, <1>4 DEF n
<1>7. RowsInside'
  <2>1. \A p \in Handle \ {o} :
          num_holds'[p] # 0 => holds_start'[p] + num_holds'[p] <= Len(holds')
    BY <1>2, <1>4, <1>5, <1>6 DEF RowsInside
  <2>2. holds_start'[o] + num_holds'[o] <= Len(holds')
    BY <1>2, <1>4, <1>5, <1>6
  <2> QED BY <2>1, <2>2, <1>5, <1>6 DEF RowsInside
<1>8. Row(o)' = Append(Row(o), h)
  <2>1. Row(o)' = [i \in 1..(n + 1) |-> holds'[StartOf(o) + i]]
    BY <1>6 DEF Row
  <2>2. Append(Row(o), h) = [i \in 1..(n + 1) |-> IF i <= n THEN Row(o)[i] ELSE h]
    <3>1. Len(Append(Row(o), h)) = n + 1 /\ Append(Row(o), h) \in Seq(Hold)
      BY <1>3, AppendProperties
    <3>2. \A i \in 1..n : Append(Row(o), h)[i] = Row(o)[i]
      BY <1>3, AppendProperties
    <3>3. Append(Row(o), h)[n + 1] = h
      BY <1>3, AppendProperties
    <3>4. \A i \in 1..(n + 1) : Append(Row(o), h)[i] = IF i <= n THEN Row(o)[i] ELSE h
      <4>1. \A i \in 1..(n + 1) : (i <= n /\ i \in 1..n) \/ (~(i <= n) /\ i = n + 1)
        BY <1>2
      <4> QED BY <4>1, <3>2, <3>3
    <3>5. Append(Row(o), h) \in [1..(n + 1) -> Hold]
      BY <3>1, LenProperties, Zenon
    <3> QED BY <3>4, <3>5
  <2>3. \A i \in 1..(n + 1) : holds'[StartOf(o) + i] = IF i <= n THEN Row(o)[i] ELSE h
    <3> SUFFICES ASSUME NEW i \in 1..(n + 1)
                 PROVE  holds'[StartOf(o) + i] = IF i <= n THEN Row(o)[i] ELSE h
      OBVIOUS
    <3>1. CASE i <= n
      <4>1. i \in 1..n /\ StartOf(o) + i \in 1..Len(more)
        BY <3>1, <1>2, <1>4
      <4> QED BY <4>1, <3>1, <1>4, <1>5
    <3>2. CASE ~(i <= n)
      <4>1. i = n + 1 /\ StartOf(o) + i = Len(more) + 1
        BY <3>2, <1>2, <1>4
      <4> QED BY <4>1, <3>2, <1>5
    <3> QED BY <3>1, <3>2
  <2> QED BY <2>1, <2>2, <2>3
<1>9. \A p \in Handle \ {o} : Row(p)' = Row(p)
  <2> SUFFICES ASSUME NEW p \in Handle \ {o} PROVE Row(p)' = Row(p)
    OBVIOUS
  <2>1. \A i \in 1..num_holds[p] : holds_start[p] + i \in 1..Len(holds)
    BY RowType
  <2>2. \A i \in 1..Len(holds) : holds'[i] = holds[i]
    <3> SUFFICES ASSUME NEW i \in 1..Len(holds) PROVE holds'[i] = holds[i]
      OBVIOUS
    <3>1. Len(holds) \in Nat /\ Len(more) \in Nat /\ Len(more) >= Len(holds)
      BY <1>2, <1>4
    <3>2. i \in 1..Len(more)
      BY <3>1
    <3>3. more[i] = holds[i]
      BY <1>4, Zenon
    <3>4. holds'[i] = more[i]
      BY <3>2, <1>5, Zenon
    <3> QED BY <3>3, <3>4
  <2>3. Row(p)' = [i \in 1..num_holds[p] |-> holds'[holds_start[p] + i]]
    BY <1>6 DEF Row
  <2> QED BY <2>1, <2>2, <2>3 DEF Row
<1> QED BY <1>7, <1>8, <1>9

\* No hold is ever read outside of the array, whatever is added to which handle
\* (verification.c:397, 403, 796).
THEOREM RowsStayInside == HoldsSpec => []RowsInside
<1>1. HoldsInit => RowsInside
  BY DEF HoldsInit, RowsInside
<1>2. RowsInside /\ [HoldsNext]_hold_vars => RowsInside'
  <2> SUFFICES ASSUME RowsInside, [HoldsNext]_hold_vars PROVE RowsInside'
    OBVIOUS
  <2>1. CASE DropHolds
    BY <2>1 DEF DropHolds, RowsInside
  <2>2. CASE UNCHANGED hold_vars
    BY <2>2 DEF hold_vars, RowsInside
  <2>3. ASSUME NEW o \in Handle, NEW h \in Hold, handle_add_hold(o, h)
        PROVE  RowsInside'
    BY <2>2, <2>3, RowsAfterAdd DEF handle_add_hold
  <2> QED BY <2>1, <2>2, <2>3 DEF HoldsNext
<1> QED BY <1>1, <1>2, PTL DEF HoldsSpec

\* handle_add_hold gives each handle a list of its own (verification.c:393).
THEOREM HoldsAreLists == HoldsSpec => ImplementsLists
<1>1. HoldsInit => Lists!Init
  <2> SUFFICES ASSUME HoldsInit PROVE Lists!Init
    OBVIOUS
  <2>1. \A o \in Handle : Row(o) = <<>>
    BY DEF HoldsInit, Row
  <2> QED BY <2>1 DEF Lists!Init
<1>2. RowsInside /\ [HoldsNext]_hold_vars => [Lists!Next]_([o \in Handle |-> Row(o)])
  <2> SUFFICES ASSUME RowsInside, [HoldsNext]_hold_vars
               PROVE  Lists!Next \/ UNCHANGED [o \in Handle |-> Row(o)]
    OBVIOUS
  <2>1. CASE DropHolds
    <3>1. \A o \in Handle : Row(o)' = <<>>
      BY <2>1 DEF DropHolds, Row
    <3>2. Lists!Reset
      BY <3>1 DEF Lists!Reset
    <3> QED BY <3>2 DEF Lists!Next
  <2>2. CASE UNCHANGED hold_vars
    <3>1. \A o \in Handle : Row(o)' = Row(o)
      BY <2>2 DEF hold_vars, Row
    <3> QED BY <3>1
  <2>3. ASSUME NEW o \in Handle, NEW h \in Hold, handle_add_hold(o, h)
        PROVE  Lists!Next \/ UNCHANGED [p \in Handle |-> Row(p)]
    <3>1. CASE UNCHANGED hold_vars
      BY <2>2, <3>1
    <3>2. CASE h \notin Range(Row(o))
      <4>1. /\ Row(o)' = Append(Row(o), h)
            /\ \A p \in Handle \ {o} : Row(p)' = Row(p)
        BY <2>3, <3>2, RowsAfterAdd
      <4>2. [p \in Handle |-> Row(p)]' =
              [[p \in Handle |-> Row(p)] EXCEPT ![o] = Append(@, h)]
        BY <4>1
      <4>3. Lists!Add(o, h)
        BY <4>2, <3>2 DEF Lists!Add, Range, Lists!Range
      <4> QED BY <4>3 DEF Lists!Next
    <3> QED BY <2>3, <3>1, <3>2 DEF handle_add_hold
  <2> QED BY <2>1, <2>2, <2>3 DEF HoldsNext
<1> QED BY <1>1, <1>2, RowsStayInside, PTL DEF HoldsSpec, ImplementsLists, Lists!Spec

-----------------------------------------------------------------------------
(* The context is its parts.                                               *)

LEMMA InternStepsTable == [InternNext]_ivars => [Next]_vars
BY DEF InternNext, Intern, Growing, comp_context_reset, ResetBoth, ivars, Next

LEMMA ContextStepsInterner == [ContextNext]_context_vars => [InternNext]_ivars
BY DEF ContextNext, InternPar, AddHold, StartFirstPass, ResetContext, context_vars,
       InternNext

LEMMA ContextStepsHolds == [ContextNext]_context_vars => [HoldsNext]_hold_vars
BY DEF ContextNext, InternPar, AddHold, StartFirstPass, ResetContext, context_vars,
       HoldsNext

\* comp_context_intern_par uses the table as the table is meant to be used
\* (verification.c:98): one put of one entry at a time, and resets between them.
THEOREM InternerUsesTable == InternSpec => Spec
<1>1. InternInit => Init
  BY DEF InternInit
<1> QED BY <1>1, InternStepsTable, PTL DEF InternSpec, Spec

\* Whatever the two checkers do with the context, its projections and their indices only
\* see calls of the interner (verification.c:89, 98).
THEOREM ContextInterns == ContextSpec => InternSpec
<1>1. ContextInit => InternInit
  BY DEF ContextInit
<1> QED BY <1>1, ContextStepsInterner, PTL DEF ContextSpec, InternSpec

\* And its holds only see calls of handle_add_hold and the drops (verification.c:393, 742).
THEOREM ContextHolds == ContextSpec => HoldsSpec
<1>1. ContextInit => HoldsInit
  BY DEF ContextInit
<1> QED BY <1>1, ContextStepsHolds, PTL DEF ContextSpec, HoldsSpec

\* The safety of the three parts holds of the context (verification.c:53, 56, 98, 397): a
\* search ends and finds what was put, an index is one projection's, and rows of holds
\* stay inside the array, in any order of first passes, interning, adds and resets.
THEOREM ContextSafe ==
  ContextSpec => [](TableInv /\ SearchesEnd /\ GetFindsStored /\ IndexedOnce /\ RowsInside)
BY ContextInterns, ContextHolds, InternerUsesTable, TableSafe, SearchesAlwaysEnd,
   GetsWhatWasPut, IndicesAreUnique, RowsStayInside, PTL

\* The context implements a partial map from projections to indices and a list of holds
\* for every handle, both at once (verification.c:28, 393).
THEOREM ContextImplements == ContextSpec => ImplementsMap /\ ImplementsLists
BY ContextInterns, ContextHolds, InternerUsesTable, TableIsMap, HoldsAreLists

-----------------------------------------------------------------------------
(* Holds and handles.                                                      *)

\* A handle that has holds exists, and so does every handle that is held.
HoldsExist ==
  /\ \A o \in Handle : num_holds[o] # 0 => Exists(o)
  /\ \A i \in DOMAIN holds : Exists(holds[i])

\* What handle_add_hold leaves in the array was in it before (verification.c:405), except
\* for the new hold.
LEMMA HeldAfterAdd ==
  ASSUME RowsInside, HoldsExist, NEW o \in Handle, NEW h \in Hold, Exists(h),
         holds' = (IF Moves(o) THEN holds \o Row(o) ELSE holds) \o <<h>>
  PROVE  \A i \in DOMAIN holds' : Exists(holds'[i])
<1>1. holds \in Seq(Hold) /\ Row(o) \in Seq(Hold)
  BY RowType DEF RowsInside
<1>2. \A i \in DOMAIN Row(o) : Exists(Row(o)[i])
  BY RowType DEF HoldsExist, RowsInside
<1>3. ASSUME NEW s \in Seq(Hold), NEW t \in Seq(Hold),
             \A i \in DOMAIN s : Exists(s[i]), \A i \in DOMAIN t : Exists(t[i])
      PROVE  s \o t \in Seq(Hold) /\ \A i \in DOMAIN (s \o t) : Exists((s \o t)[i])
  <2>1. ASSUME NEW i \in DOMAIN (s \o t) PROVE Exists((s \o t)[i])
    BY <1>3
  <2> QED BY <2>1
<1>4. <<h>> \in Seq(Hold) /\ \A i \in DOMAIN <<h>> : Exists(<<h>>[i])
  OBVIOUS
<1>5. \A i \in DOMAIN holds : Exists(holds[i])
  BY DEF HoldsExist
<1>. DEFINE moved == IF Moves(o) THEN holds \o Row(o) ELSE holds
<1>6. moved \in Seq(Hold) /\ \A i \in DOMAIN moved : Exists(moved[i])
  BY <1>1, <1>2, <1>3, <1>5
<1>. HIDE DEF moved
<1>7. holds' = moved \o <<h>>
  BY DEF moved
<1> QED BY <1>3, <1>4, <1>6, <1>7

\* No hold outlives the handle that has it or the one it is on, which ctx->handles is
\* indexed with unchecked (verification.c:396, 796): both go when the context is reset.
THEOREM HoldsHaveHandles == ContextSpec => []HoldsExist
<1>1. ContextInit => HoldsExist
  BY DEF ContextInit, HoldsInit, HoldsExist
<1>2. RowsInside /\ HandlesTyped /\ HoldsExist /\ [ContextNext]_context_vars => HoldsExist'
  <2> SUFFICES ASSUME RowsInside, HandlesTyped, HoldsExist, [ContextNext]_context_vars
               PROVE  HoldsExist'
    OBVIOUS
  <2>1. ASSUME NEW o \in Handle, NEW h \in Hold, AddHold(o, h) PROVE HoldsExist'
    <3>1. CASE UNCHANGED hold_vars
      BY <2>1, <3>1 DEF AddHold, HoldsExist, Exists, hold_vars, ivars
    <3>2. CASE /\ holds' = (IF Moves(o) THEN holds \o Row(o) ELSE holds) \o <<h>>
               /\ num_holds' = [num_holds EXCEPT ![o] = @ + 1]
      <4>1. Exists(o) /\ Exists(h) /\ \A i \in Val : Exists(i) => Exists(i)'
        BY <2>1 DEF AddHold, Exists, ivars
      <4>2. \A i \in DOMAIN holds' : Exists(holds'[i])
        BY <3>2, <4>1, HeldAfterAdd
      <4>3. (\A i \in DOMAIN holds : Exists(holds[i]))'
        BY <2>1, <4>2 DEF AddHold, Exists, ivars
      <4>4. (\A p \in Handle : num_holds[p] # 0 => Exists(p))'
        BY <2>1, <3>2, <4>1 DEF AddHold, Exists, ivars, HoldsExist, RowsInside
      <4> QED BY <4>3, <4>4 DEF HoldsExist
    <3> QED BY <2>1, <3>1, <3>2 DEF AddHold, handle_add_hold
  <2>2. CASE DropHolds
    BY <2>2 DEF DropHolds, HoldsExist
  <2>3. ASSUME UNCHANGED hold_vars, DOMAIN handles \subseteq DOMAIN handles' PROVE HoldsExist'
    BY <2>3 DEF HoldsExist, Exists, hold_vars
  <2>4. CASE InternPar
    <3>1. DOMAIN handles \subseteq DOMAIN handles'
      <4>1. ASSUME NEW k \in Key, Intern(k) PROVE DOMAIN handles \subseteq DOMAIN handles'
        BY <4>1 DEF Intern, HandlesTyped
      <4> QED BY <2>4, <4>1 DEF InternPar, Growing
    <3> QED BY <2>3, <2>4, <3>1 DEF InternPar
  <2>5. CASE UNCHANGED context_vars
    BY <2>3, <2>5 DEF context_vars, ivars
  <2> QED BY <2>1, <2>2, <2>4, <2>5 DEF ContextNext, StartFirstPass, ResetContext
<1>3. InternInv => HandlesTyped
  BY DEF InternInv
<1> QED BY <1>1, <1>2, <1>3, ContextInterns, ContextHolds, InternerSafe, RowsStayInside, PTL
        DEF ContextSpec
=============================================================================
