---------------------------- MODULE Arrays_proofs ----------------------------
(***************************************************************************)
(* Proofs about module Arrays: for any arrays, slices, values, capacity    *)
(* and width of count_t.                                                   *)
(***************************************************************************)
EXTENDS Arrays, SequenceTheorems, TLAPS

\* What a program has to keep to: its numbers fit count_t, and it shortens a slice by as
\* much as it advances it.  The code checks neither.
Fits == Paired /\ \A n \in Numbers : n < CountMod

\* The inductive invariant.
ArraysInv == TypeOK /\ SlicesEnd /\ ElementsInside

\* The cast of a number that fits (vm.c:1076).
LEMMA CountOfFitting ==
  ASSUME Fits, NEW n \in Numbers
  PROVE  /\ n \in Int /\ count(n) \in Nat
         /\ n >= 0 => count(n) = n
<1>1. n \in Int /\ CountMod \in Nat /\ CountMod > 0 /\ n < CountMod
  BY CapacityAssumption, NumbersAssumption DEF Fits
<1>2. n % CountMod \in 0..(CountMod - 1)
  BY <1>1
<1>3. ASSUME n >= 0 PROVE n % CountMod = n
  BY <1>1, <1>3
<1> QED BY <1>1, <1>2, <1>3 DEF count

LEMMA ConstantTypes ==
  /\ Capacity \in Nat /\ CountMod \in Nat /\ Capacity < CountMod
  /\ Numbers \subseteq Int /\ Zero \in Val /\ None \notin Arr
BY CapacityAssumption, NumbersAssumption, ValAssumption

LEMMA InitInv == Init => ArraysInv
BY ConstantTypes DEF Init, ArraysInv, TypeOK, SlicesEnd, ElementsInside, Null, Places

\* A crash leaves everything but the pointer, which may be dropped (vm.c:1078).
LEMMA CrashKeeps ==
  ASSUME ArraysInv, Crash PROVE ArraysInv'
BY DEF Crash, ArraysInv, TypeOK, SlicesEnd, ElementsInside, Places

\* A pointer to an element of an array may be pushed.
LEMMA PointKeeps ==
  ASSUME ArraysInv, NEW a \in Arr, NEW p \in Places, Point(a, p) PROVE ArraysInv'
<1>1. p \in Nat
  BY ConstantTypes DEF Places
<1> QED BY <1>1 DEF Point, ArraysInv, TypeOK, SlicesEnd, ElementsInside, Places

\* The array instructions.
LEMMA ArraysKeep ==
  ASSUME Fits, ArraysInv, ArrayStep PROVE ArraysInv'
<1> USE ConstantTypes
<1>1. ASSUME NEW a \in Arr, NEW v \in Val, ArrPush(a, v) PROVE ArraysInv'
  <2>1. CASE Crash
    BY <2>1, CrashKeeps
  <2>2. CASE ~Full(len[a]) /\ ~Crash
    <3>1. /\ data' = [data EXCEPT ![a][Slot(len[a])] = v]
          /\ len' = [len EXCEPT ![a] = @ + 1]
          /\ UNCHANGED <<slice, top>>
      BY <1>1, <2>2 DEF ArrPush
    <3>2. len[a] \in 0..(Capacity - 1)
      BY <2>2 DEF ArraysInv, TypeOK, Full
    <3>3. len' \in [Arr -> 0..Capacity] /\ data' \in [Arr -> [Places -> Val]]
      BY <3>1, <3>2 DEF ArraysInv, TypeOK, Slot, Places
    <3> QED BY <3>1, <3>3 DEF ArraysInv, TypeOK, SlicesEnd, ElementsInside
  <2> QED BY <1>1, <2>1, <2>2 DEF ArrPush
<1>2. ASSUME NEW a \in Arr, NEW n \in Numbers, ArrDrop(a, n) PROVE ArraysInv'
  <2>1. CASE Crash
    BY <2>1, CrashKeeps
  <2>2. CASE ~TooMany(n, len[a]) /\ ~Crash
    <3>1. len' = [len EXCEPT ![a] = Shortened(@, n)] /\ UNCHANGED <<data, slice, top>>
      BY <1>2, <2>2 DEF ArrDrop
    <3>2. count(n) \in Nat /\ count(n) <= len[a] /\ len[a] \in 0..Capacity
      BY <2>2, CountOfFitting DEF ArraysInv, TypeOK, TooMany
    <3>3. len' \in [Arr -> 0..Capacity]
      BY <3>1, <3>2 DEF ArraysInv, TypeOK, Shortened
    <3> QED BY <3>1, <3>3 DEF ArraysInv, TypeOK, SlicesEnd, ElementsInside
  <2> QED BY <1>2, <2>1, <2>2 DEF ArrDrop
<1>3. ASSUME NEW a \in Arr, NEW n \in Numbers, ArrAt(a, n) PROVE ArraysInv'
  <2>1. CASE Crash
    BY <2>1, CrashKeeps
  <2>2. CASE ~Crash
    <3>1. Point(a, n) /\ ~OutOfBounds(n, Capacity)
      BY <1>3, <2>2 DEF ArrAt
    <3>2. n \in Places
      BY <3>1, CountOfFitting DEF OutOfBounds, Places
    <3> QED BY <3>1, <3>2, PointKeeps
  <2> QED BY <2>1, <2>2
<1>4. ASSUME NEW a \in Arr, NEW b \in Arr, CopyArray(a, b) PROVE ArraysInv'
  BY <1>4 DEF CopyArray, ArraysInv, TypeOK, SlicesEnd, ElementsInside
<1> QED BY <1>1, <1>2, <1>3, <1>4 DEF ArrayStep

\* The slices after one of them was set: the invariant holds of it, so it holds of all.
LEMMA SliceSet ==
  ASSUME ArraysInv, NEW s \in Slice, NEW new,
         slice' = [slice EXCEPT ![s] = new], UNCHANGED <<len, data, top>>,
         new \in [arr : Arr \cup {None}, at : Nat, len : Nat, ahead : Int],
         new.arr = None => new.len = 0,
         new.arr # None => new.at + new.len <= Capacity + new.ahead
  PROVE  ArraysInv'
<1>1. slice' \in [Slice -> [arr : Arr \cup {None}, at : Nat, len : Nat, ahead : Int]]
  BY DEF ArraysInv, TypeOK
<1>2. \A r \in Slice : slice'[r] = IF r = s THEN new ELSE slice[r]
  BY DEF ArraysInv, TypeOK
<1>3. SlicesEnd'
  BY <1>2 DEF ArraysInv, SlicesEnd
<1> QED BY <1>1, <1>3 DEF ArraysInv, TypeOK, ElementsInside

\* A slice that is advanced by n elements, and one that is shortened by c.
LEMMA Moved ==
  ASSUME NEW r \in [arr : Arr \cup {None}, at : Nat, len : Nat, ahead : Int],
         NEW n \in Nat, NEW c \in Nat, c <= r.len
  PROVE  LET inc == [r EXCEPT !.at = @ + n, !.ahead = @ + n]
             dec == [r EXCEPT !.len = @ - c, !.ahead = @ - c]
         IN /\ inc \in [arr : Arr \cup {None}, at : Nat, len : Nat, ahead : Int]
            /\ inc.arr = r.arr /\ inc.len = r.len /\ inc.at = r.at + n
            /\ inc.ahead = r.ahead + n
            /\ dec \in [arr : Arr \cup {None}, at : Nat, len : Nat, ahead : Int]
            /\ dec.arr = r.arr /\ dec.len = r.len - c /\ dec.at = r.at
            /\ dec.ahead = r.ahead - c
<1>1. r.at \in Nat /\ r.len \in Nat /\ r.ahead \in Int
  OBVIOUS
<1>2. r.at + n \in Nat /\ r.ahead + n \in Int /\ r.len - c \in Nat /\ r.ahead - c \in Int
  BY <1>1
<1> QED BY <1>2

\* The slice instructions.
LEMMA SlicesKeep ==
  ASSUME Fits, ArraysInv, SliceStep PROVE ArraysInv'
<1> USE ConstantTypes
<1> DEFINE Record == [arr : Arr \cup {None}, at : Nat, len : Nat, ahead : Int]
<1>1. ASSUME NEW s \in Slice, NEW a \in Arr, SliceFromArr(s, a) PROVE ArraysInv'
  <2> DEFINE new == [arr |-> a, at |-> 0, len |-> len[a], ahead |-> 0]
  <2>1. slice' = [slice EXCEPT ![s] = new] /\ UNCHANGED <<len, data, top>>
    BY <1>1 DEF SliceFromArr, Retarget
  <2>2. new \in Record /\ new.arr # None /\ new.at + new.len <= Capacity + new.ahead
    BY DEF ArraysInv, TypeOK
  <2> HIDE DEF new
  <2> QED BY <2>1, <2>2, SliceSet
<1>2. ASSUME NEW s \in Slice, SliceFromOne(s) PROVE ArraysInv'
  <2> DEFINE new == [arr |-> top.arr, at |-> top.at, len |-> 1, ahead |-> 0]
  <2>1. slice' = [slice EXCEPT ![s] = new] /\ UNCHANGED <<len, data, top>>
    BY <1>2 DEF SliceFromOne, Retarget
  <2>2. top # None /\ top \in [arr : Arr, at : Nat] /\ top.at \in Places
    BY <1>2 DEF SliceFromOne, ArraysInv, TypeOK, ElementsInside
  <2>3. new \in Record /\ new.arr # None /\ new.at + new.len <= Capacity + new.ahead
    BY <2>2 DEF Places
  <2> HIDE DEF new
  <2> QED BY <2>1, <2>3, SliceSet
<1>3. ASSUME NEW s \in Slice, NEW n \in Numbers, SliceAt(s, n) PROVE ArraysInv'
  <2>1. CASE Crash
    BY <2>1, CrashKeeps
  <2>2. CASE ~Crash
    <3> DEFINE this == slice[s]
    <3>1. this \in Record /\ this.ahead <= 0
      BY <1>3 DEF SliceAt, Usable, Fits, ArraysInv, TypeOK
    <3>2. ~OutOfBounds(n, this.len) /\ Point(this.arr, this.at + n)
      BY <1>3, <2>2 DEF SliceAt
    <3>3. n \in Nat /\ n < this.len
      BY <3>1, <3>2, CountOfFitting DEF OutOfBounds
    <3>4. this.arr # None /\ this.at + this.len <= Capacity + this.ahead
      BY <3>1, <3>3 DEF ArraysInv, SlicesEnd
    <3>5. this.arr \in Arr /\ this.at + n \in Places
      BY <3>1, <3>3, <3>4 DEF Places
    <3> QED BY <3>2, <3>5, PointKeeps
  <2> QED BY <2>1, <2>2
<1>4. ASSUME NEW s \in Slice, NEW n \in Numbers, SliceInc(s, n) \/ SliceDec(s, n)
      PROVE  ArraysInv'
  <2>1. CASE Crash
    BY <2>1, CrashKeeps
  <2>2. CASE ~Crash
    <3> DEFINE this == slice[s]
               inc == [this EXCEPT !.at = @ + n, !.ahead = @ + n]
               dec == [this EXCEPT !.len = Shortened(@, n), !.ahead = @ - count(n)]
    <3>1. /\ this \in Record
          /\ this.arr = None => this.len = 0
          /\ this.arr # None => this.at + this.len <= Capacity + this.ahead
      BY DEF ArraysInv, TypeOK, SlicesEnd
    <3>2. ~TooMany(n, this.len) /\ UNCHANGED <<len, data, top>>
      BY <1>4, <2>2 DEF SliceInc, SliceDec
    <3>3. slice' = [slice EXCEPT ![s] = inc] \/ slice' = [slice EXCEPT ![s] = dec]
      BY <1>4, <2>2 DEF SliceInc, SliceDec, ArraysInv, TypeOK
    <3>4. n \in Nat /\ count(n) \in Nat /\ count(n) <= this.len
      BY <3>1, <3>2, CountOfFitting DEF TooMany
    <3>5. /\ inc \in Record /\ inc.arr = this.arr /\ inc.len = this.len
          /\ inc.at = this.at + n /\ inc.ahead = this.ahead + n
      BY <3>1, <3>4, Moved
    <3>6. /\ dec \in Record /\ dec.arr = this.arr /\ dec.len = this.len - count(n)
          /\ dec.at = this.at /\ dec.ahead = this.ahead - count(n)
      BY <3>1, <3>4, Moved DEF Shortened
    <3>7. /\ this.len \in Nat /\ this.at \in Nat /\ this.ahead \in Int
          /\ this.arr = None => count(n) = 0
      BY <3>1, <3>4
    <3> HIDE DEF this, inc, dec
    <3>8. /\ inc.arr = None => inc.len = 0
          /\ inc.arr # None => inc.at + inc.len <= Capacity + inc.ahead
      BY <3>1, <3>4, <3>5, <3>7
    <3>9. /\ dec.arr = None => dec.len = 0
          /\ dec.arr # None => dec.at + dec.len <= Capacity + dec.ahead
      BY <3>1, <3>4, <3>6, <3>7
    <3> QED BY <3>2, <3>3, <3>5, <3>6, <3>8, <3>9, SliceSet
  <2> QED BY <2>1, <2>2
<1>5. ASSUME NEW s \in Slice, NEW t \in Slice, CopySlice(s, t) PROVE ArraysInv'
  <2>1. slice' = [slice EXCEPT ![s] = slice[t]] /\ UNCHANGED <<len, data, top>>
    BY <1>5 DEF CopySlice
  <2>2. /\ slice[t] \in Record
        /\ slice[t].arr = None => slice[t].len = 0
        /\ slice[t].arr # None => slice[t].at + slice[t].len <= Capacity + slice[t].ahead
    BY DEF ArraysInv, TypeOK, SlicesEnd
  <2> QED BY <2>1, <2>2, SliceSet
<1> QED BY <1>1, <1>2, <1>3, <1>4, <1>5 DEF SliceStep

LEMMA StoreKeeps ==
  ASSUME ArraysInv, NEW v \in Val, Store(v) PROVE ArraysInv'
<1>1. top \in [arr : Arr, at : Nat] /\ top.at \in Places
  BY DEF Store, ArraysInv, TypeOK
<1>2. data' \in [Arr -> [Places -> Val]]
  BY <1>1 DEF Store, ArraysInv, TypeOK
<1> QED BY <1>2 DEF Store, ArraysInv, TypeOK, SlicesEnd, ElementsInside

LEMMA InvInductive ==
  ASSUME Fits, ArraysInv, [Next]_vars PROVE ArraysInv'
<1>1. CASE UNCHANGED vars
  BY <1>1 DEF vars, ArraysInv, TypeOK, SlicesEnd, ElementsInside
<1> QED BY <1>1, ArraysKeep, SlicesKeep, StoreKeeps DEF Next

\* The inductive invariant: types, ends of slices and pointers to elements, which rely on
\* one another (a slice is made of a pointer, and a pointer of a slice).
THEOREM ArraysSafe == ASSUME Fits PROVE Spec => []ArraysInv
<1>1. ArraysInv /\ [Next]_vars => ArraysInv'
  BY InvInductive
<1> QED BY <1>1, InitInv, PTL DEF Spec

\* The state keeps its types (vm.c:1061 to 1270): an index that was taken for a number of
\* another width would leave them.
THEOREM ArraysTyped == ASSUME Fits PROVE Spec => []TypeOK
<1>1. ArraysInv => TypeOK
  BY DEF ArraysInv
<1> QED BY <1>1, ArraysSafe, PTL

\* No index that is accepted selects memory outside of its array (vm.c:1076, 1228), in
\* any order of array and slice instructions.
THEOREM ElementsStayInside == ASSUME Fits PROVE Spec => []ElementsInside
<1>1. ArraysInv => ElementsInside
  BY DEF ArraysInv
<1> QED BY <1>1, ArraysSafe, PTL

\* A slice never ends behind its array but for what it was advanced by (vm.c:1262).
THEOREM SlicesStayInside == ASSUME Fits PROVE Spec => []SlicesEnd
<1>1. ArraysInv => SlicesEnd
  BY DEF ArraysInv
<1> QED BY <1>1, ArraysSafe, PTL

-----------------------------------------------------------------------------
(* The arrays as sequences.                                                *)

\* What the sequence of an array is (Contents), by its length and its elements.
LEMMA ContentsType ==
  ASSUME TypeOK, NEW a \in Arr
  PROVE  /\ Contents[a] \in Seq(Val) /\ Len(Contents[a]) = len[a]
         /\ len[a] \in 0..Capacity /\ DOMAIN Contents[a] = 1..len[a]
         /\ \A i \in 1..len[a] : Contents[a][i] = data[a][i - 1]
<1>1. len[a] \in Nat /\ len[a] <= Capacity /\ len[a] \in 0..Capacity
  BY ConstantTypes DEF TypeOK
<1>2. \A i \in 1..len[a] : data[a][i - 1] \in Val
  <2> SUFFICES ASSUME NEW i \in 1..len[a] PROVE data[a][i - 1] \in Val
    OBVIOUS
  <2>1. i - 1 \in Places
    BY <1>1, ConstantTypes DEF Places
  <2> QED BY <2>1 DEF TypeOK
<1>3. Contents[a] = [i \in 1..len[a] |-> data[a][i - 1]]
  BY DEF Contents
<1>4. Contents[a] \in [1..len[a] -> Val]
  BY <1>2, <1>3
<1>5. Contents[a] \in Seq(Val) /\ Len(Contents[a]) = len[a]
  BY <1>1, <1>4
<1> QED BY <1>1, <1>3, <1>5

\* A push appends (vm.c:1154).
LEMMA PushAppends ==
  ASSUME TypeOK, NEW a \in Arr, NEW v \in Val, ArrPush(a, v), ~Full(len[a])
  PROVE  Sequence!Push(a, v)
<1> USE ConstantTypes
<1>1. /\ data' = [data EXCEPT ![a][len[a]] = v]
      /\ len' = [len EXCEPT ![a] = @ + 1]
  BY DEF ArrPush, Slot
<1>2. len[a] \in 0..(Capacity - 1) /\ len[a] \in Nat
  BY DEF TypeOK, Full
<1>3. len'[a] = len[a] + 1 /\ \A b \in Arr \ {a} : len'[b] = len[b] /\ data'[b] = data[b]
  BY <1>1 DEF TypeOK
<1>4. data'[a] = [data[a] EXCEPT ![len[a]] = v]
  BY <1>1 DEF TypeOK
<1>5. Contents'[a] = [i \in 1..(len[a] + 1) |-> data'[a][i - 1]]
  BY <1>3 DEF Contents
<1>6. Contents'[a] = Append(Contents[a], v)
  <2> DEFINE s == Contents[a]
  <2>1. /\ s \in Seq(Val) /\ Len(s) = len[a]
        /\ \A i \in 1..len[a] : s[i] = data[a][i - 1]
    BY ContentsType
  <2>2. /\ Append(s, v) \in Seq(Val) /\ Len(Append(s, v)) = len[a] + 1
        /\ \A i \in 1..len[a] : Append(s, v)[i] = s[i]
        /\ Append(s, v)[len[a] + 1] = v
    <3> HIDE DEF s
    <3> QED BY <2>1, AppendProperties
  <2>3. \A i \in 1..(len[a] + 1) : data'[a][i - 1] = Append(s, v)[i]
    <3> SUFFICES ASSUME NEW i \in 1..(len[a] + 1)
                 PROVE  data'[a][i - 1] = Append(s, v)[i]
      OBVIOUS
    <3> HIDE DEF s
    <3>1. CASE i \in 1..len[a]
      <4>1. i - 1 \in Places /\ i - 1 # len[a]
        BY <3>1, <1>2 DEF Places
      <4>2. data'[a][i - 1] = data[a][i - 1]
        BY <4>1, <1>4 DEF TypeOK
      <4> QED BY <3>1, <4>2, <2>1, <2>2
    <3>2. CASE i = len[a] + 1
      <4>1. i - 1 = len[a] /\ len[a] \in Places
        BY <3>2, <1>2 DEF Places
      <4>2. data'[a][len[a]] = v
        BY <4>1, <1>4 DEF TypeOK
      <4> QED BY <3>2, <4>1, <4>2, <2>2
    <3>3. i \in 1..len[a] \/ i = len[a] + 1
      BY <1>2
    <3> QED BY <3>1, <3>2, <3>3
  <2> HIDE DEF s
  <2>4. Append(s, v) \in [1..(len[a] + 1) -> Val]
    BY <2>2, LenProperties, Zenon
  <2> QED BY <2>3, <2>4, <1>5 DEF s
<1>7. \A b \in Arr \ {a} : Contents'[b] = Contents[b]
  BY <1>3 DEF Contents
<1>8. Contents' = [Contents EXCEPT ![a] = Append(@, v)]
  BY <1>6, <1>7 DEF Contents
<1>9. Len(Contents[a]) < Capacity
  BY <1>2, ContentsType
<1> QED BY <1>8, <1>9 DEF Sequence!Push

\* A drop takes elements off the end (vm.c:1172).
LEMMA DropShortens ==
  ASSUME Fits, TypeOK, NEW a \in Arr, NEW n \in Numbers, ArrDrop(a, n), ~TooMany(n, len[a])
  PROVE  Sequence!Drop(a, n) /\ n \in 0..len[a]
<1> USE ConstantTypes
<1>1. len' = [len EXCEPT ![a] = @ - count(n)] /\ UNCHANGED data
  BY DEF ArrDrop, Shortened
<1>2. n \in 0..len[a] /\ count(n) = n /\ len[a] \in Nat
  BY CountOfFitting DEF TooMany, TypeOK
<1>3. len'[a] = len[a] - n /\ \A b \in Arr \ {a} : len'[b] = len[b]
  BY <1>1, <1>2 DEF TypeOK
<1>4. Contents'[a] = SubSeq(Contents[a], 1, len[a] - n)
  <2> DEFINE s == Contents[a]
             t == SubSeq(s, 1, len[a] - n)
  <2>1. /\ s \in Seq(Val) /\ Len(s) = len[a]
        /\ \A i \in 1..len[a] : s[i] = data[a][i - 1]
    BY ContentsType
  <2>2. Contents'[a] = [i \in 1..(len[a] - n) |-> data[a][i - 1]]
    BY <1>1, <1>3 DEF Contents
  <2>3. len[a] - n \in 0..len[a]
    BY <1>2
  <2> HIDE DEF s
  <2>4. t = [i \in 1..(len[a] - n) |-> s[i]]
    <3>1. t = [i \in 1..(len[a] - n - 1 + 1) |-> s[1 + i - 1]]
      BY <2>1, <2>3
    <3> QED BY <3>1, <2>1, <2>3, <1>2
  <2>5. \A i \in 1..(len[a] - n) : s[i] = data[a][i - 1]
    BY <2>1, <2>3, <1>2
  <2> QED BY <2>2, <2>4, <2>5 DEF s
<1>5. \A b \in Arr \ {a} : Contents'[b] = Contents[b]
  BY <1>1, <1>3 DEF Contents
<1>6. Len(Contents[a]) = len[a]
  BY ContentsType
<1>7. Contents' = [Contents EXCEPT ![a] = SubSeq(@, 1, Len(@) - n)]
  BY <1>4, <1>5, <1>6 DEF Contents
<1> QED BY <1>2, <1>6, <1>7 DEF Sequence!Drop

\* A store through an element pointer, of the array itself or of a slice, sets an element
\* or is not seen (vm.c:1090).
LEMMA StoreSets ==
  ASSUME TypeOK, NEW v \in Val, Store(v)
  PROVE  \/ \E a \in Arr, i \in 1..Capacity : Sequence!Set(a, i, v)
         \/ UNCHANGED Contents
<1> USE ConstantTypes
<1>1. /\ top.arr \in Arr /\ top.at \in Places
      /\ data' = [data EXCEPT ![top.arr][top.at] = v] /\ UNCHANGED len
  BY DEF Store, TypeOK
<1>2. PICK a \in Arr : a = top.arr
  BY <1>1
<1>3. PICK p \in Places : p = top.at
  BY <1>1
<1>4. /\ \A b \in Arr \ {a} : data'[b] = data[b]
      /\ \A q \in Places : data'[a][q] = IF q = p THEN v ELSE data[a][q]
  BY <1>1, <1>2, <1>3 DEF TypeOK
<1>5. /\ len[a] \in 0..Capacity /\ p \in 0..(Capacity - 1)
      /\ \A i \in 1..len[a] : i - 1 \in Places
  BY DEF TypeOK, Places
<1>6. \A b \in Arr \ {a} : Contents'[b] = Contents[b]
  BY <1>1, <1>4 DEF Contents
<1>7. /\ Contents'[a] = [i \in 1..len[a] |-> data'[a][i - 1]]
      /\ Contents[a] = [i \in 1..len[a] |-> data[a][i - 1]]
  BY <1>1 DEF Contents
<1>8. CASE p + 1 \in 1..len[a]
  <2>1. \A i \in 1..len[a] :
          data'[a][i - 1] = IF i = p + 1 THEN v ELSE data[a][i - 1]
    BY <1>4, <1>5
  <2>2. Contents'[a] = [Contents[a] EXCEPT ![p + 1] = v]
    <3>1. DOMAIN Contents[a] = 1..len[a]
      BY <1>7, Zenon
    <3>2. [Contents[a] EXCEPT ![p + 1] = v] =
            [i \in 1..len[a] |-> IF i = p + 1 THEN v ELSE Contents[a][i]]
      BY <3>1, Zenon
    <3>3. \A i \in 1..len[a] : Contents[a][i] = data[a][i - 1]
      BY <1>7, Zenon
    <3>4. \A i \in 1..len[a] :
            data'[a][i - 1] = IF i = p + 1 THEN v ELSE Contents[a][i]
      BY <2>1, <3>3, Zenon
    <3> QED BY <1>7, <3>2, <3>4, Zenon
  <2>3. Contents' = [Contents EXCEPT ![a][p + 1] = v]
    BY <1>6, <2>2 DEF Contents
  <2>4. p + 1 \in DOMAIN Contents[a] /\ p + 1 \in 1..Capacity
    BY <1>5, <1>7, <1>8
  <2> QED BY <2>3, <2>4 DEF Sequence!Set
<1>9. CASE p + 1 \notin 1..len[a]
  <2>1. \A i \in 1..len[a] : data'[a][i - 1] = data[a][i - 1]
    BY <1>4, <1>5, <1>9
  <2>2. Contents'[a] = Contents[a]
    BY <1>7, <2>1
  <2> QED BY <1>6, <2>2 DEF Contents
<1> QED BY <1>8, <1>9

\* Copying an array (vm.c:1090) takes its length and all its elements.
LEMMA CopyAssigns ==
  ASSUME TypeOK, NEW a \in Arr, NEW b \in Arr, CopyArray(a, b)
  PROVE  Sequence!Assign(a, b)
<1>1. /\ len'[a] = len[b] /\ data'[a] = data[b]
      /\ \A c \in Arr \ {a} : len'[c] = len[c] /\ data'[c] = data[c]
  BY DEF CopyArray, TypeOK
<1>2. Contents'[a] = Contents[b] /\ \A c \in Arr \ {a} : Contents'[c] = Contents[c]
  BY <1>1 DEF Contents
<1>3. Contents' = [Contents EXCEPT ![a] = Contents[b]]
  BY <1>2 DEF Contents
<1> QED BY <1>3 DEF Sequence!Assign

\* The array and slice instructions implement bounded sequences (vm.c:1061 to 1270), also
\* when arrays are written through slices that were made when they were longer or shorter.
THEOREM ArraysAreSequences == ASSUME Fits PROVE Spec => ImplementsSequences
<1> USE ConstantTypes
<1>1. Init => Sequence!Init
  <2> SUFFICES ASSUME Init PROVE Sequence!Init
    OBVIOUS
  <2>1. ASSUME NEW a \in Arr PROVE Contents[a] = <<>>
    <3>1. len[a] = 0
      BY DEF Init
    <3>2. Contents[a] = [i \in 1..len[a] |-> data[a][i - 1]]
      BY DEF Contents
    <3>3. Contents[a] = [i \in 1..0 |-> data[a][i - 1]]
      BY <3>1, <3>2
    <3> HIDE DEF Contents
    <3> QED BY <3>3
  <2>2. Contents = [a \in Arr |-> <<>>]
    BY <2>1 DEF Contents
  <2> QED BY <2>2 DEF Sequence!Init
<1>2. ArraysInv /\ [Next]_vars => [Sequence!Next]_Contents
  <2> SUFFICES ASSUME ArraysInv, [Next]_vars PROVE Sequence!Next \/ UNCHANGED Contents
    OBVIOUS
  <2>1. TypeOK
    BY DEF ArraysInv
  <2>2. ASSUME UNCHANGED <<len, data>> PROVE UNCHANGED Contents
    BY <2>2 DEF Contents
  <2>3. ASSUME NEW a \in Arr, NEW v \in Val, ArrPush(a, v)
        PROVE  Sequence!Next \/ UNCHANGED Contents
    <3>1. CASE Crash
      BY <3>1, <2>2 DEF Crash
    <3>2. CASE ~Full(len[a])
      <4>1. Sequence!Push(a, v)
        BY <3>2, <2>1, <2>3, PushAppends
      <4> QED BY <4>1 DEF Sequence!Next
    <3> QED BY <2>3, <3>1, <3>2 DEF ArrPush
  <2>4. ASSUME NEW a \in Arr, NEW n \in Numbers, ArrDrop(a, n)
        PROVE  Sequence!Next \/ UNCHANGED Contents
    <3>1. CASE Crash
      BY <3>1, <2>2 DEF Crash
    <3>2. CASE ~TooMany(n, len[a])
      <4>1. Sequence!Drop(a, n) /\ n \in 0..len[a] /\ len[a] \in 0..Capacity
        BY <3>2, <2>1, <2>4, DropShortens, ContentsType
      <4>2. n \in 0..Capacity
        BY <4>1
      <4> QED BY <4>1, <4>2 DEF Sequence!Next
    <3> QED BY <2>4, <3>1, <3>2 DEF ArrDrop
  <2>5. ASSUME NEW a \in Arr, NEW n \in Numbers, ArrAt(a, n) PROVE UNCHANGED Contents
    BY <2>5, <2>2 DEF ArrAt, Crash, Point
  <2>6. ASSUME NEW a \in Arr, NEW b \in Arr, CopyArray(a, b) PROVE Sequence!Next
    <3>1. Sequence!Assign(a, b)
      BY <2>1, <2>6, CopyAssigns
    <3> QED BY <3>1 DEF Sequence!Next
  <2>7. CASE ArrayStep
    BY <2>3, <2>4, <2>5, <2>6, <2>7 DEF ArrayStep
  <2>8. CASE SliceStep
    <3>1. UNCHANGED <<len, data>>
      BY <2>8 DEF SliceStep, SliceFromArr, SliceFromOne, Retarget, SliceAt, SliceInc,
        SliceDec, CopySlice, Crash, Point
    <3> QED BY <3>1, <2>2
  <2>9. ASSUME NEW v \in Val, Store(v) PROVE Sequence!Next \/ UNCHANGED Contents
    BY <2>1, <2>9, StoreSets DEF Sequence!Next
  <2> QED BY <2>2, <2>7, <2>8, <2>9 DEF Next, vars
<1> QED BY <1>1, <1>2, ArraysSafe, PTL DEF Spec, ImplementsSequences, Sequence!Spec

\* Each array instruction does what is asked, and crashes only if that cannot be done
\* (vm.c:1076, 1150, 1168).
THEOREM ArraysExact == ASSUME Fits PROVE Spec => OperationsExact
<1> USE ConstantTypes
<1> DEFINE Exact ==
      \A a \in Arr :
        /\ \A v \in Val :
             ArrPush(a, v) =>
               IF Len(Contents[a]) < Capacity THEN Sequence!Push(a, v) ELSE Crash
        /\ \A n \in Numbers :
             /\ ArrDrop(a, n) =>
                  IF n \in 0..len[a] THEN Sequence!Drop(a, n) ELSE Crash
             /\ ArrAt(a, n) =>
                  IF n + 1 \in DOMAIN Contents[a] THEN top' = [arr |-> a, at |-> n] ELSE Crash
<1>1. ArraysInv => Exact
  <2> SUFFICES ASSUME ArraysInv, NEW a \in Arr
               PROVE  /\ \A v \in Val :
                           ArrPush(a, v) =>
                             IF Len(Contents[a]) < Capacity THEN Sequence!Push(a, v) ELSE Crash
                      /\ \A n \in Numbers :
                           /\ ArrDrop(a, n) =>
                                IF n \in 0..len[a] THEN Sequence!Drop(a, n) ELSE Crash
                           /\ ArrAt(a, n) =>
                                IF n + 1 \in DOMAIN Contents[a]
                                THEN top' = [arr |-> a, at |-> n] ELSE Crash
    OBVIOUS
  <2>1. TypeOK
    BY DEF ArraysInv
  <2>2. /\ len[a] \in 0..Capacity /\ len[a] \in Nat /\ Len(Contents[a]) = len[a]
        /\ DOMAIN Contents[a] = 1..len[a]
    BY <2>1, ContentsType
  <2>3. ASSUME NEW v \in Val, ArrPush(a, v)
        PROVE  IF Len(Contents[a]) < Capacity THEN Sequence!Push(a, v) ELSE Crash
    <3>1. Len(Contents[a]) < Capacity <=> ~Full(len[a])
      BY <2>2 DEF Full
    <3> QED BY <3>1, <2>1, <2>3, PushAppends DEF ArrPush
  <2>4. ASSUME NEW n \in Numbers, ArrDrop(a, n)
        PROVE  IF n \in 0..len[a] THEN Sequence!Drop(a, n) ELSE Crash
    <3>1. TooMany(n, len[a]) => n \notin 0..len[a]
      BY <2>2, CountOfFitting DEF TooMany
    <3> QED BY <3>1, <2>1, <2>4, DropShortens DEF ArrDrop
  <2>5. ASSUME NEW n \in Numbers, ArrAt(a, n)
        PROVE  IF n + 1 \in DOMAIN Contents[a] THEN top' = [arr |-> a, at |-> n] ELSE Crash
    <3>1. n + 1 \in DOMAIN Contents[a] <=> ~(OutOfBounds(n, len[a]) \/ OutOfBounds(n, Capacity))
      BY <2>2, CountOfFitting DEF OutOfBounds
    <3> QED BY <3>1, <2>5 DEF ArrAt, Point
  <2> QED BY <2>3, <2>4, <2>5
<1>2. ArraysInv /\ [Next]_vars => [Exact]_vars
  BY <1>1
<1> QED BY <1>2, ArraysSafe, PTL DEF Spec, OperationsExact
=============================================================================
