------------------------------ MODULE ParTable ------------------------------
(***************************************************************************)
(* ParIdxTable (src/verification.c): the open-addressing hash table that   *)
(* gives each projection of a function its index.                          *)
(*                                                                         *)
(* slots is the arrays keys, vals and used: a slot is Free or an entry,    *)
(* and what keys and vals hold at a slot that is not used is never read.   *)
(* par_idx_table_put is one step, unless it has to grow the table first:   *)
(* then par_idx_table_grow moves one slot of the old arrays a step, and    *)
(* the key and the value wait in pending.  No other call runs meanwhile.   *)
(* StopsOnHash, GrowsLate, FirstPlace, AnyFree and CountsUsed are wrong    *)
(* versions of the definitions that follow them.                           *)
(***************************************************************************)
EXTENDS Integers, FiniteSets

CONSTANTS
  Key,       \* the projections (struct Par)
  Val,       \* their indices (par_idx)
  Free,      \* a slot whose used flag is clear
  None,      \* no value, no pending call
  Hash,      \* par_hash
  FirstCap   \* the capacity of the first arrays; 16 in the source

Entry == [key : Key, val : Val]

ASSUME FirstCapAssumption == FirstCap \in Nat /\ FirstCap >= 2
ASSUME HashAssumption == Hash \in [Key -> Nat]
ASSUME FreeAssumption == Free \notin Entry /\ None \notin Val /\ None \notin Entry

VARIABLES
  cap,      \* table->cap
  slots,    \* table->keys, vals and used, from 0 to cap - 1
  len,      \* table->len
  old,      \* old.keys, vals and used, while the table grows
  old_cap,  \* old.cap, 0 when the table does not grow
  cursor,   \* the i of the loop of par_idx_table_grow
  pending   \* the entry being put, while the table grows

vars == <<cap, slots, len, old, old_cap, cursor, pending>>

-----------------------------------------------------------------------------
(* Searching.                                                              *)

Empty(n) == [i \in 0..(n - 1) |-> Free]

\* Where the search for a key starts: par_hash(key) & (cap - 1), the capacity being
\* a power of two.
Home(k, n) == Hash[k] % n

\* The places a search that starts at h looks at before place j.
Before(h, j, n) ==
  IF h <= j THEN h..(j - 1) ELSE (h..(n - 1)) \cup (0..(j - 1))

StopsOnHash(s, k, i) == s[i] # Free => Hash[s[i].key] = Hash[k]

\* A search for k goes on over entries with another key.
Stops(s, k, i) == s[i] # Free => s[i].key = k

\* It ends at place j.
EndsAt(s, n, k, j) ==
  /\ j \in 0..(n - 1)
  /\ Stops(s, k, j)
  /\ \A i \in Before(Home(k, n), j, n) : ~Stops(s, k, i)

\* par_idx_table_get
Get(k) ==
  IF cap = 0 THEN None
  ELSE LET j == CHOOSE j \in 0..(cap - 1) : EndsAt(slots, cap, k, j)
       IN IF slots[j] = Free THEN None ELSE slots[j].val

-----------------------------------------------------------------------------
(* The calls.                                                              *)

Idle == pending = None

Init ==
  /\ cap = 0 /\ slots = Empty(0) /\ len = 0
  /\ old = Empty(0) /\ old_cap = 0 /\ cursor = 0 /\ pending = None

\* The end of par_idx_table_put: the entry replaces the value its key has, or
\* takes the first free place.
Store(e) ==
  \E j \in 0..(cap - 1) :
    /\ EndsAt(slots, cap, e.key, j)
    /\ slots' = [slots EXCEPT ![j] = e]
    /\ len' = IF slots[j] = Free THEN len + 1 ELSE len
    /\ cap' = cap

GrowsLate == len + 1 > cap
MustGrow == (len + 1) * 4 >= cap * 3

NextCap == IF cap = 0 THEN FirstCap ELSE cap * 2

NewArrays == slots' = Empty(NextCap) /\ len' = 0

\* The head of par_idx_table_grow: new arrays, twice as large.
StartGrowing(e) ==
  /\ old' = slots /\ old_cap' = cap /\ cursor' = 0 /\ pending' = e
  /\ cap' = NextCap
  /\ NewArrays

Put(k, v) ==
  /\ Idle
  /\ \/ MustGrow /\ StartGrowing([key |-> k, val |-> v])
     \/ /\ ~MustGrow
        /\ Store([key |-> k, val |-> v])
        /\ UNCHANGED <<old, old_cap, cursor, pending>>

FirstPlace(h, j) == j = h
AnyFree(h, j) == j \in 0..(cap - 1) /\ slots[j] = Free

CountsUsed(i) == IF old[i] = Free THEN i ELSE i + 1
NextSlot(i) == i + 1

\* One turn of the loop of par_idx_table_grow: the entry goes to the first free
\* place of the new arrays, which cannot hold its key yet.
FirstFree(h, j) ==
  /\ j \in 0..(cap - 1)
  /\ slots[j] = Free
  /\ \A i \in Before(h, j, cap) : slots[i] # Free

Move ==
  /\ ~Idle /\ cursor < old_cap
  /\ \/ old[cursor] = Free /\ UNCHANGED <<slots, len>>
     \/ /\ old[cursor] # Free
        /\ \E j \in 0..(cap - 1) :
             /\ FirstFree(Home(old[cursor].key, cap), j)
             /\ slots' = [slots EXCEPT ![j] = old[cursor]]
        /\ len' = len + 1
  /\ cursor' = NextSlot(cursor)
  /\ UNCHANGED <<cap, old, old_cap, pending>>

\* The loop ends, the old arrays are freed, and the entry is stored.
FinishGrowing ==
  /\ ~Idle /\ cursor = old_cap
  /\ Store(pending)
  /\ old' = Empty(0) /\ old_cap' = 0 /\ cursor' = 0 /\ pending' = None

\* par_idx_table_reset keeps the arrays
Reset ==
  /\ Idle
  /\ slots' = Empty(cap) /\ len' = 0
  /\ UNCHANGED <<cap, old, old_cap, cursor, pending>>

Next ==
  \/ \E k \in Key, v \in Val : Put(k, v)
  \/ Move \/ FinishGrowing
  \/ Reset

Spec == Init /\ [][Next]_vars

-----------------------------------------------------------------------------
(* Properties.                                                             *)

TypeOK ==
  /\ cap \in Nat /\ slots \in [0..(cap - 1) -> Entry \cup {Free}] /\ len \in Nat
  /\ old_cap \in Nat /\ old \in [0..(old_cap - 1) -> Entry \cup {Free}]
  /\ cursor \in 0..old_cap
  /\ pending \in Entry \cup {None}

Used(s) == {i \in DOMAIN s : s[i] # Free}

LeftToMove == {i \in Used(old) : i >= cursor}

\* Every entry can be reached: from the home of its key up to it no place is free.
Chained ==
  \A i \in Used(slots) :
    \A m \in Before(Home(slots[i].key, cap), i, cap) : slots[m] # Free

\* A key has one entry, in the arrays and in what is left to move together.
KeysOnce ==
  /\ \A i, m \in Used(slots) : slots[i].key = slots[m].key => i = m
  /\ \A i, m \in LeftToMove : old[i].key = old[m].key => i = m
  /\ \A i \in Used(slots), m \in LeftToMove : slots[i].key # old[m].key

\* The entries are counted, and the entries that are left to move will fit.
Counted ==
  /\ len = Cardinality(Used(slots))
  /\ cap = 0 \/ cap >= FirstCap
  /\ Idle =>
       /\ cap > 0 => 4 * len < 3 * cap
       /\ old_cap = 0
  /\ ~Idle =>
       /\ cap = IF old_cap = 0 THEN FirstCap ELSE 2 * old_cap
       /\ old_cap = 0 \/ old_cap >= FirstCap
       /\ IF old_cap = 0 THEN len = 0
          ELSE 4 * (len + Cardinality(LeftToMove)) < 3 * old_cap

\* The inductive invariant (verification.c:28, 66): what a search relies on, also while
\* the entries are being moved to arrays where other keys collide.
TableInv == TypeOK /\ Chained /\ KeysOnce /\ Counted

\* A search ends wherever it starts (verification.c:56, 69 and 41 loop until a free
\* place): the table always has one, also while it grows.
SearchesEnd ==
  cap > 0 => \A k \in Key : \E j \in 0..(cap - 1) : EndsAt(slots, cap, k, j)

\* The entries of the table, those waiting to be moved included.
Contents == {slots[i] : i \in Used(slots)} \cup {old[i] : i \in LeftToMove}
Stored ==
  [k \in Key |->
     IF \E e \in Contents : e.key = k
     THEN (CHOOSE e \in Contents : e.key = k).val
     ELSE None]

\* par_idx_table_get finds what was put (verification.c:53): collisions, growth and
\* resets lose no entry, hide none, and revive none.
GetFindsStored == Idle => \A k \in Key : Get(k) = Stored[k]

\* The table implements a partial map: what is observable changes when the value
\* is stored, and moving the entries changes nothing.
Map == INSTANCE PartialMap WITH map <- Stored
ImplementsMap == Map!Spec

\* A put that had to grow the table comes back.
GrowthEnds == ~Idle ~> Idle
=============================================================================
