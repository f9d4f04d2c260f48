------------------------------- MODULE Arrays -------------------------------
(***************************************************************************)
(* The array and slice instructions of vm_run (src/vm.c, B_PUSH_ARR_AT to  *)
(* B_SLICE_DEC), which module VM abstracts from: array variables of one    *)
(* type, slices into them, and the last element pointer that was pushed on *)
(* the parameter stack.                                                    *)
(*                                                                         *)
(* An address is an array and a number of elements from its data_offset.   *)
(* An operand is a num_t, the lengths are count_t: count is the cast.      *)
(* A refused operand crashes; the pad it goes to, and so the next          *)
(* instruction, may be any (module VM).                                    *)
(* FullLate, SlotLast, DropsNone, DropsMore and RefusesLate are wrong      *)
(* versions of the definitions that follow them.                           *)
(***************************************************************************)
EXTENDS Integers, Sequences

CONSTANTS
  Arr,         \* the array variables
  Slice,       \* the slice variables
  Val,         \* the values of an element
  None,        \* a null pointer; no pointer on the stack
  Zero,        \* the value of zeroed storage
  Capacity,    \* type->data.array.capacity
  CountMod,    \* 2 to the width of count_t
  Numbers,     \* the numbers (num_t) the program indexes with
  Paired,      \* the program only uses a slice that was shortened by as much as
               \* it was advanced
  MaxAdvance   \* bound: how far a slice is advanced

ASSUME CapacityAssumption ==
  Capacity \in Nat /\ CountMod \in Nat /\ Capacity < CountMod
ASSUME NumbersAssumption == Numbers \subseteq Int /\ MaxAdvance \in Nat
ASSUME ValAssumption == Zero \in Val /\ None \notin Arr /\ Paired \in BOOLEAN

VARIABLES
  len,     \* the length of every array
  data,    \* its elements, those past the length included
  slice,   \* every slice: array and place it points at, length, and, as a history,
           \* by how much more it was advanced than shortened
  top      \* the last element pointer on the parameter stack, or None

vars == <<len, data, slice, top>>

Places == 0..(Capacity - 1)

count(n) == n % CountMod

Null == [arr |-> None, at |-> 0, len |-> 0, ahead |-> 0]

Init ==
  /\ len = [a \in Arr |-> 0]
  /\ data = [a \in Arr |-> [p \in Places |-> Zero]]
  /\ slice = [s \in Slice |-> Null]
  /\ top = None

\* An operand that was refused has changed nothing.  The pad may have been installed
\* before the element pointer was pushed, or after.
Crash == top' \in {top, None} /\ UNCHANGED <<len, data, slice>>

Point(a, p) ==
  /\ top' = [arr |-> a, at |-> p]
  /\ UNCHANGED <<len, data, slice>>

-----------------------------------------------------------------------------
(* Arrays.                                                                 *)

FullLate(l) == l > Capacity
Full(l) == l >= Capacity

SlotLast(l) == IF l = 0 THEN 0 ELSE l - 1
Slot(l) == l

ArrPush(a, v) ==
  \/ Full(len[a]) /\ Crash
  \/ /\ ~Full(len[a])
     /\ data' = [data EXCEPT ![a][Slot(len[a])] = v]
     /\ len' = [len EXCEPT ![a] = @ + 1]
     /\ UNCHANGED <<slice, top>>

DropsNone(l, n) == l
DropsMore(l, n) == IF l > count(n) THEN l - count(n) - 1 ELSE 0
Shortened(l, n) == l - count(n)

TooMany(n, l) == n < 0 \/ count(n) > l

ArrDrop(a, n) ==
  \/ TooMany(n, len[a]) /\ Crash
  \/ /\ ~TooMany(n, len[a])
     /\ len' = [len EXCEPT ![a] = Shortened(@, n)]
     /\ UNCHANGED <<data, slice, top>>

RefusesLate(n, l) == n < 0 \/ count(n) > l
OutOfBounds(n, l) == n < 0 \/ count(n) >= l

ArrAt(a, n) ==
  IF OutOfBounds(n, len[a]) \/ OutOfBounds(n, Capacity) THEN Crash ELSE Point(a, n)

-----------------------------------------------------------------------------
(* Slices and views.                                                       *)

Retarget(s, a, p, l) ==
  /\ slice' = [slice EXCEPT ![s] = [arr |-> a, at |-> p, len |-> l, ahead |-> 0]]
  /\ UNCHANGED <<len, data, top>>

SliceFromArr(s, a) == Retarget(s, a, 0, len[a])

SliceFromOne(s) == top # None /\ Retarget(s, top.arr, top.at, 1)

Usable(s) == Paired => slice[s].ahead <= 0

SliceAt(s, n) ==
  /\ Usable(s)
  /\ IF OutOfBounds(n, slice[s].len) THEN Crash ELSE Point(slice[s].arr, slice[s].at + n)

\* The data pointer moves by the number itself, not by its cast; the length stays.
SliceInc(s, n) ==
  \/ TooMany(n, slice[s].len) /\ Crash
  \/ /\ ~TooMany(n, slice[s].len)
     /\ slice[s].at + n <= MaxAdvance
     /\ slice' = [slice EXCEPT ![s].at = @ + n, ![s].ahead = @ + n]
     /\ UNCHANGED <<len, data, top>>

SliceDec(s, n) ==
  \/ TooMany(n, slice[s].len) /\ Crash
  \/ /\ ~TooMany(n, slice[s].len)
     /\ slice' = [slice EXCEPT ![s].len = Shortened(@, n),
                               ![s].ahead = @ - count(n)]
     /\ UNCHANGED <<len, data, top>>

-----------------------------------------------------------------------------
(* B_COPY to an element, of an array and of a slice.                       *)

\* A store outside of the array is undefined: nothing is said of what follows.
Store(v) ==
  /\ top # None /\ top.at \in Places
  /\ data' = [data EXCEPT ![top.arr][top.at] = v]
  /\ UNCHANGED <<len, slice, top>>

CopyArray(a, b) ==
  /\ len' = [len EXCEPT ![a] = len[b]]
  /\ data' = [data EXCEPT ![a] = data[b]]
  /\ UNCHANGED <<slice, top>>

CopySlice(s, t) ==
  /\ slice' = [slice EXCEPT ![s] = slice[t]]
  /\ UNCHANGED <<len, data, top>>

ArrayStep ==
  \/ \E a \in Arr, v \in Val : ArrPush(a, v)
  \/ \E a \in Arr, n \in Numbers : ArrDrop(a, n) \/ ArrAt(a, n)
  \/ \E a, b \in Arr : CopyArray(a, b)

SliceStep ==
  \/ \E s \in Slice, a \in Arr : SliceFromArr(s, a)
  \/ \E s \in Slice : SliceFromOne(s)
  \/ \E s \in Slice, n \in Numbers : SliceAt(s, n) \/ SliceInc(s, n) \/ SliceDec(s, n)
  \/ \E s, t \in Slice : CopySlice(s, t)

Next == ArrayStep \/ SliceStep \/ \E v \in Val : Store(v)

Spec == Init /\ [][Next]_vars

-----------------------------------------------------------------------------
(* Properties.                                                             *)

TypeOK ==
  /\ len \in [Arr -> 0..Capacity]
  /\ data \in [Arr -> [Places -> Val]]
  /\ slice \in [Slice -> [arr : Arr \cup {None}, at : Nat, len : Nat, ahead : Int]]
  /\ top \in [arr : Arr, at : Nat] \cup {None}

\* A slice ends inside its array, but for the elements it was advanced by and not
\* shortened (vm.c:1262), whatever became of the array since it was made.
SlicesEnd ==
  \A s \in Slice :
    /\ slice[s].arr = None => slice[s].len = 0
    /\ slice[s].arr # None => slice[s].at + slice[s].len <= Capacity + slice[s].ahead

\* An index that is not refused selects an element: no pointer to before or behind the
\* data of an array is ever pushed (vm.c:1076, 1228).
ElementsInside == top # None => top.at \in Places

\* The arrays are bounded sequences, also when they are written through slices made when
\* they were longer or shorter: such a write changes one element or is not seen.
Contents == [a \in Arr |-> [i \in 1..len[a] |-> data[a][i - 1]]]
Sequence == INSTANCE BoundedSeq WITH seqs <- Contents
ImplementsSequences == Sequence!Spec

\* Each instruction does what is asked of it, or crashes when, and only when, it cannot be
\* done (vm.c:1076, 1150, 1168).
OperationsExact ==
  [][\A a \in Arr :
       /\ \A v \in Val :
            ArrPush(a, v) =>
              IF Len(Contents[a]) < Capacity THEN Sequence!Push(a, v) ELSE Crash
       /\ \A n \in Numbers :
            /\ ArrDrop(a, n) =>
                 IF n \in 0..len[a] THEN Sequence!Drop(a, n) ELSE Crash
            /\ ArrAt(a, n) =>
                 IF n + 1 \in DOMAIN Contents[a] THEN top' = [arr |-> a, at |-> n] ELSE Crash]_vars
=============================================================================
