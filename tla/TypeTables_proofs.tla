------------------------- MODULE TypeTables_proofs -------------------------
(***************************************************************************)
(* Proofs about modules Layout and TypeTables: for type tables of any      *)
(* length, structs of any number of fields, arrays of any capacity and any *)
(* sizes whose alignments divide each other.                               *)
(***************************************************************************)
EXTENDS TypeTables, Numbers_proofs, FiniteSetTheorems, SequenceTheorems

-----------------------------------------------------------------------------
(* Sizes.                                                                  *)

Aligns == {1, NumSize, CountSize, PtrSize}

\* What every layout has.
Fits(layout) ==
  layout.portal \in BOOLEAN /\ layout.payload_size \in Nat /\ layout.align \in Aligns

\* align_up (ir.c:31) goes to a multiple that is not smaller.
LEMMA AlignUp ==
  ASSUME NEW n \in Nat, NEW align \in Nat \ {0}
  PROVE  /\ align_up(n, align) \in Nat /\ align_up(n, align) >= n
         /\ align_up(n, align) % align = 0
<1> DEFINE q == (n + align - 1) \div align
<1>1. q \in Nat /\ q * align >= n
  OBVIOUS
<1>2. (q * align) % align = 0 /\ q * align \in Nat
  BY <1>1
<1> QED BY <1>1, <1>2 DEF align_up

LEMMA AlignsDivide ==
  /\ Aligns \subseteq Nat \ {0}
  /\ \A a, b \in Aligns : a <= b => b % a = 0
  /\ \A a, b \in Aligns : Larger(a, b) \in Aligns /\ Larger(a, b) >= a /\ Larger(a, b) >= b
<1>1. Aligns \subseteq Nat \ {0}
  BY SizesAssumption DEF Aligns
<1>2. \A a, b \in Aligns : a % b = 0 \/ b % a = 0
  <2>1. \A a \in Aligns : a % 1 = 0
    BY <1>1
  <2> QED BY <2>1, AlignsAssumption DEF Aligns
<1>3. ASSUME NEW a \in Nat \ {0}, NEW b \in Nat \ {0}, a % b = 0 \/ b % a = 0, a <= b
      PROVE  b % a = 0
  <2>1. CASE a % b = 0
    BY <1>3, <2>1
  <2> QED BY <1>3, <2>1
<1>4. \A a, b \in Aligns : a <= b => b % a = 0
  BY <1>1, <1>2, <1>3
<1>5. \A a, b \in Aligns : Larger(a, b) \in Aligns /\ Larger(a, b) >= a /\ Larger(a, b) >= b
  BY <1>1 DEF Larger
<1> QED BY <1>1, <1>4, <1>5

LEMMA ScalarsFit ==
  /\ Fits(Scalar(NumSize)) /\ Fits(Scalar(1)) /\ Fits(Scalar(PtrSize)) /\ Fits(Portal)
  /\ ~Scalar(NumSize).portal /\ ~Scalar(1).portal /\ ~Scalar(PtrSize).portal /\ Portal.portal
<1>1. type_slice_payload_size \in Nat
  <2>1. PtrSize \in Nat /\ CountSize \in Nat \ {0}
    BY SizesAssumption
  <2> QED BY <2>1, AlignUp DEF type_slice_payload_size, type_slice_len_offset
<1>2. Larger(PtrSize, CountSize) \in Aligns
  BY DEF Larger, Aligns
<1> QED BY <1>1, <1>2, SizesAssumption DEF Fits, Scalar, Portal, Aligns

\* The elements of an array lie behind its length and inside of it (ir.c:63).
LEMMA ArraysFit ==
  ASSUME NEW elem, Fits(elem), NEW capacity \in Nat
  PROVE  LET layout == ArrayOf(elem, capacity)
         IN  /\ Fits(layout) /\ layout.portal = elem.portal
             /\ layout.data_offset >= CountSize
             /\ layout.data_offset + capacity * elem.payload_size <= layout.payload_size
<1>1. PICK p, a, align, offset, all :
        /\ p = elem.payload_size /\ a = elem.align
        /\ align = Larger(a, CountSize) /\ offset = align_up(CountSize, a)
        /\ all = align_up(offset + p * capacity, align)
  OBVIOUS
<1>2. /\ p \in Nat /\ a \in Nat \ {0} /\ align \in Nat \ {0} /\ align \in Aligns
      /\ CountSize \in Nat
  BY <1>1, AlignsDivide, SizesAssumption DEF Fits, Aligns
<1>3. offset \in Nat /\ offset >= CountSize
  BY <1>1, <1>2, AlignUp
<1>4. p * capacity \in Nat /\ p * capacity = capacity * p
  BY <1>2
<1>5. all \in Nat /\ all >= offset + p * capacity
  <2>1. PICK sum : sum = offset + p * capacity /\ sum \in Nat
    BY <1>3, <1>4
  <2> QED BY <1>1, <1>2, <2>1, AlignUp
<1>6. ArrayOf(elem, capacity) =
        [portal |-> elem.portal, align |-> align, data_offset |-> offset, payload_size |-> all]
  BY <1>1 DEF ArrayOf
<1> QED BY <1>1, <1>2, <1>3, <1>4, <1>5, <1>6 DEF Fits

-----------------------------------------------------------------------------
(* The fields of a struct.                                                 *)

\* placed is the layouts of the struct of the first n fields.
Places(fields, placed, n) ==
  placed = [i \in 0..n |-> IF i = 0 THEN NoFields ELSE AddField(placed[i - 1], fields[i])]

LEMMA PlacesExist ==
  ASSUME NEW fields
  PROVE  \A n \in Nat : \E placed : Places(fields, placed, n)
<1> DEFINE T == {n \in Nat : \E placed : Places(fields, placed, n)}
<1>1. 0 \in T
  <2> DEFINE placed == [i \in 0..0 |-> NoFields]
  <2>1. Places(fields, placed, 0)
    BY DEF Places
  <2> QED BY <2>1
<1>2. ASSUME NEW n \in Nat, n \in T PROVE n + 1 \in T
  <2>1. PICK f : Places(fields, f, n)
    BY <1>2
  <2> DEFINE g == [i \in 0..(n + 1) |-> IF i = n + 1 THEN AddField(f[n], fields[i]) ELSE f[i]]
             h(i) == IF i = 0 THEN NoFields ELSE AddField(g[i - 1], fields[i])
  <2>2. ASSUME NEW i \in 0..(n + 1) PROVE g[i] = h(i)
    <3>1. CASE i = n + 1
      BY <3>1
    <3>2. CASE i \in 0..n
      <4>1. g[i] = f[i] /\ (i # 0 => g[i - 1] = f[i - 1])
        BY <3>2
      <4>2. f[i] = IF i = 0 THEN NoFields ELSE AddField(f[i - 1], fields[i])
        BY <2>1, <3>2 DEF Places
      <4> QED BY <4>1, <4>2
    <3> QED BY <3>1, <3>2
  <2>3. g = [i \in 0..(n + 1) |-> h(i)]
    BY <2>2
  <2>4. Places(fields, g, n + 1)
    BY <2>3 DEF Places
  <2> QED BY <2>4
<1> HIDE DEF T
<1>3. \A n \in Nat : n \in T
  BY <1>1, <1>2, Induction
<1> QED BY <1>3 DEF T

\* What a struct of the first n fields has (ir.c:84 to 94).
Placed(fields, layout, n) ==
  /\ layout \in [portal : BOOLEAN, align : Aligns, offsets : Seq(Nat), payload_size : Nat]
  /\ Len(layout.offsets) = n
  /\ layout.portal <=> \E i \in 1..n : fields[i].portal
  /\ \A i \in 1..n :
       /\ layout.offsets[i] % fields[i].align = 0
       /\ fields[i].align <= layout.align
       /\ layout.offsets[i] + fields[i].payload_size <= layout.payload_size
       /\ \A k \in 1..n :
            i < k => layout.offsets[i] + fields[i].payload_size <= layout.offsets[k]

LEMMA FieldPlaced ==
  ASSUME NEW fields, NEW n \in Nat, Fits(fields[n + 1]), \A i \in 1..n : Fits(fields[i]),
         NEW layout, Placed(fields, layout, n)
  PROVE  Placed(fields, AddField(layout, fields[n + 1]), n + 1)
<1>1. PICK size, align, offsets, offset, field :
        /\ size = layout.payload_size /\ align = layout.align /\ offsets = layout.offsets
        /\ field = fields[n + 1] /\ offset = align_up(size, field.align)
  OBVIOUS
<1>2. PICK all : all = AddField(layout, field)
  OBVIOUS
<1>3. /\ all.portal = (layout.portal \/ field.portal)
      /\ all.align = Larger(align, field.align)
      /\ all.offsets = Append(offsets, offset)
      /\ all.payload_size = offset + field.payload_size
  BY <1>1, <1>2 DEF AddField
<1>4. /\ size \in Nat /\ align \in Aligns /\ offsets \in Seq(Nat) /\ Len(offsets) = n
      /\ field.payload_size \in Nat /\ field.align \in Aligns /\ field.align \in Nat \ {0}
      /\ field.portal \in BOOLEAN /\ layout.portal \in BOOLEAN
  BY <1>1, AlignsDivide DEF Placed, Fits
<1>5. offset \in Nat /\ offset >= size /\ offset % field.align = 0
  BY <1>1, <1>4, AlignUp
<1>6. /\ all.align \in Aligns /\ all.align >= align /\ all.align >= field.align
      /\ all.align \in Nat /\ align \in Nat
  BY <1>3, <1>4, AlignsDivide
<1>7. /\ all.offsets \in Seq(Nat) /\ Len(all.offsets) = n + 1
      /\ all.offsets[n + 1] = offset
      /\ \A i \in 1..n : all.offsets[i] = offsets[i] /\ offsets[i] \in Nat
  BY <1>3, <1>4, <1>5, AppendProperties
<1>8. all \in [portal : BOOLEAN, align : Aligns, offsets : Seq(Nat), payload_size : Nat]
  <2>1. all = [portal |-> all.portal, align |-> all.align, offsets |-> all.offsets,
               payload_size |-> all.payload_size]
    BY <1>2 DEF AddField
  <2>2. /\ all.portal \in BOOLEAN /\ all.align \in Aligns /\ all.offsets \in Seq(Nat)
        /\ all.payload_size \in Nat
    BY <1>3, <1>4, <1>5, <1>6, <1>7
  <2> QED BY ONLY <2>1, <2>2
<1>9. all.portal <=> \E i \in 1..(n + 1) : fields[i].portal
  <2>1. \A i \in 1..(n + 1) : i \in 1..n \/ i = n + 1
    OBVIOUS
  <2>2. \A i \in 1..n : i \in 1..(n + 1)
    OBVIOUS
  <2>3. n + 1 \in 1..(n + 1)
    OBVIOUS
  <2>4. layout.portal <=> \E i \in 1..n : fields[i].portal
    BY DEF Placed
  <2> QED BY <1>1, <1>3, <2>1, <2>2, <2>3, <2>4
<1>10. ASSUME NEW i \in 1..n
       PROVE  /\ all.offsets[i] % fields[i].align = 0
              /\ fields[i].align <= all.align
              /\ all.offsets[i] + fields[i].payload_size <= size
  <2>1. /\ offsets[i] % fields[i].align = 0 /\ fields[i].align <= align
        /\ offsets[i] + fields[i].payload_size <= size
    BY <1>1 DEF Placed
  <2>2. fields[i].align \in Nat
    BY AlignsDivide DEF Fits
  <2> QED BY <1>6, <1>7, <2>1, <2>2
<1>11. ASSUME NEW i \in 1..(n + 1)
       PROVE  /\ all.offsets[i] % fields[i].align = 0
              /\ fields[i].align <= all.align
              /\ all.offsets[i] + fields[i].payload_size <= all.payload_size
              /\ \A k \in 1..(n + 1) :
                   i < k => all.offsets[i] + fields[i].payload_size <= all.offsets[k]
  <2>1. CASE i = n + 1
    <3>1. \A k \in 1..(n + 1) : ~(i < k)
      BY <2>1
    <3>2. fields[i] = field /\ all.offsets[i] = offset
      BY <1>1, <1>7, <2>1
    <3>3. all.offsets[i] % fields[i].align = 0 /\ fields[i].align <= all.align
      BY <1>5, <1>6, <3>2
    <3>4. all.payload_size = all.offsets[i] + fields[i].payload_size /\ all.payload_size \in Nat
      BY <1>3, <1>4, <1>5, <3>2
    <3>5. all.offsets[i] + fields[i].payload_size <= all.payload_size
      BY <3>4
    <3> QED BY <3>1, <3>3, <3>5
  <2>2. CASE i \in 1..n
    <3>1. PICK to : to = all.offsets[i] + fields[i].payload_size /\ to \in Nat /\ to <= size
      BY <1>7, <1>10, <2>2 DEF Fits
    <3>2. to <= all.payload_size /\ to <= offset
      BY <1>3, <1>4, <1>5, <3>1
    <3>3. ASSUME NEW k \in 1..(n + 1), i < k PROVE to <= all.offsets[k]
      <4>1. CASE k = n + 1
        BY <1>7, <3>2, <4>1
      <4>2. CASE k \in 1..n
        <5>1. offsets[i] + fields[i].payload_size <= offsets[k]
          BY <1>1, <2>2, <3>3, <4>2 DEF Placed
        <5> QED BY <1>7, <2>2, <3>1, <4>2, <5>1
      <4> QED BY <4>1, <4>2
    <3> QED BY <1>10, <2>2, <3>1, <3>2, <3>3
  <2> QED BY <2>1, <2>2
<1> QED BY <1>1, <1>2, <1>7, <1>8, <1>9, <1>11 DEF Placed

\* The fields of a struct are aligned, lie behind each other and inside of it, and it is a
\* portal if one of them is (ir.c:78 to 98).
LEMMA StructsFit ==
  ASSUME NEW fields, Len(fields) \in Nat, \A i \in 1..Len(fields) : Fits(fields[i])
  PROVE  Placed(fields, StructOf(fields), Len(fields))
<1>. DEFINE n == Len(fields)
<1>1. PICK placed : /\ Places(fields, placed, n)
                    /\ StructOf(fields) =
                         [placed[n] EXCEPT !.payload_size = align_up(@, placed[n].align)]
  <2> DEFINE placed == CHOOSE f : f = [i \in 0..n |-> IF i = 0 THEN NoFields
                                         ELSE AddField(f[i - 1], fields[i])]
  <2>1. \E f : f = [i \in 0..n |-> IF i = 0 THEN NoFields ELSE AddField(f[i - 1], fields[i])]
    <3>1. \E f : Places(fields, f, n)
      BY PlacesExist
    <3> QED BY <3>1 DEF Places
  <2>2. Places(fields, placed, n)
    BY <2>1 DEF Places
  <2>3. StructOf(fields) = [placed[n] EXCEPT !.payload_size = align_up(@, placed[n].align)]
    BY DEF StructOf
  <2> QED BY <2>2, <2>3
<1> DEFINE T == {i \in Nat : i <= n => Placed(fields, placed[i], i)}
<1>2. 0 \in T
  <2>1. placed[0] = NoFields
    BY <1>1 DEF Places
  <2>2. Placed(fields, NoFields, 0)
    BY DEF NoFields, Placed, Fits, Aligns
  <2> QED BY <2>1, <2>2
<1>3. ASSUME NEW i \in Nat, i \in T PROVE i + 1 \in T
  <2>1. CASE i + 1 <= n
    <3>1. Placed(fields, placed[i], i)
      BY <1>3, <2>1
    <3>2. placed[i + 1] = AddField(placed[i], fields[i + 1])
      <4>1. i + 1 \in 0..n /\ i + 1 # 0 /\ (i + 1) - 1 = i
        BY <2>1
      <4> QED BY <1>1, <4>1 DEF Places
    <3>3. Fits(fields[i + 1]) /\ \A k \in 1..i : Fits(fields[k])
      BY <2>1
    <3>4. Placed(fields, placed[i + 1], i + 1)
      BY <3>1, <3>2, <3>3, FieldPlaced
    <3> QED BY <3>4
  <2> QED BY <2>1
<1> HIDE DEF T
<1>4. n \in T
  BY <1>2, <1>3, Induction
<1>5. PICK last : last = placed[n] /\ Placed(fields, last, n)
  BY <1>4 DEF T
<1>6. PICK all : all = [last EXCEPT !.payload_size = align_up(@, last.align)]
  OBVIOUS
<1>7. /\ all.portal = last.portal /\ all.align = last.align /\ all.offsets = last.offsets
      /\ all.payload_size = align_up(last.payload_size, last.align)
  BY <1>5, <1>6 DEF Placed
<1>8. PICK size, align : size = last.payload_size /\ align = last.align
  OBVIOUS
<1>9. size \in Nat /\ align \in Aligns /\ align \in Nat \ {0}
  BY <1>5, <1>8, AlignsDivide DEF Placed
<1>10. all.payload_size \in Nat /\ all.payload_size >= size
  BY <1>7, <1>8, <1>9, AlignUp
<1>11. all \in [portal : BOOLEAN, align : Aligns, offsets : Seq(Nat), payload_size : Nat]
  BY <1>5, <1>6, <1>7, <1>10 DEF Placed
<1>12. ASSUME NEW i \in 1..n
       PROVE  last.offsets[i] + fields[i].payload_size <= all.payload_size
  <2>1. PICK to : to = last.offsets[i] + fields[i].payload_size /\ to \in Nat
    BY <1>5 DEF Placed, Fits
  <2>2. to <= size
    BY <1>5, <1>8, <2>1 DEF Placed
  <2> QED BY <1>9, <1>10, <2>1, <2>2
<1>13. Placed(fields, all, n)
  BY <1>5, <1>7, <1>11, <1>12 DEF Placed
<1> QED BY <1>1, <1>5, <1>6, <1>13

-----------------------------------------------------------------------------
(* Types, their parts and their layouts.                                   *)

AllTypes == [kind : {"INT", "BYTE"}] \cup UserTypes

IsTable(T) ==
  /\ T \in Seq(AllTypes) /\ Len(T) \in 2..MaxTypes
  /\ T[1].kind = "INT" /\ T[2].kind = "BYTE"

PartsIn(T, t) == Range(PartsOf(T[t]))

Layouts ==
       [portal : BOOLEAN, align : Aligns, payload_size : Nat]
  \cup [portal : BOOLEAN, align : Aligns, payload_size : Nat, data_offset : Nat]
  \cup [portal : BOOLEAN, align : Aligns, payload_size : Nat, offsets : Seq(Nat)]

LEMMA TypeFacts ==
  ASSUME NEW type \in AllTypes
  PROVE  /\ PartsOf(type) \in Seq(Index)
         /\ type.kind \in {"INT", "BYTE", "ARRAY", "SLICE", "VIEW", "STRUCT",
                           "NATIVE_FUNC_POINTER"}
         /\ type.kind = "ARRAY" => type.capacity \in Nat /\ PartsOf(type) = <<type.elem>>
         /\ type.kind \in {"SLICE", "VIEW"} => PartsOf(type) = <<type.elem>>
         /\ type.kind = "STRUCT" =>
              PartsOf(type) = type.fields /\ type.fields \in Seq(Index)
         /\ type.kind = "NATIVE_FUNC_POINTER" =>
              PartsOf(type) = <<>> /\ type.outs = <<>> /\ type.ins \in Seq(Index)
         /\ type.kind \in {"INT", "BYTE"} => PartsOf(type) = <<>>
<1>1. CASE type \in [kind : {"INT", "BYTE"}]
  BY <1>1 DEF PartsOf
<1>2. CASE type \in [kind : {"ARRAY"}, elem : Index, capacity : Capacities]
  BY <1>2, BoundsAssumption DEF PartsOf
<1>3. CASE type \in [kind : {"SLICE", "VIEW"}, elem : Index]
  BY <1>3 DEF PartsOf
<1>4. CASE type \in [kind : {"STRUCT"}, fields : UNION {[1..n -> Index] : n \in 0..MaxFields}]
  <2>1. type.kind = "STRUCT" /\ type.fields \in UNION {[1..n -> Index] : n \in 0..MaxFields}
    BY <1>4
  <2>2. type.fields \in Seq(Index)
    BY <2>1, BoundsAssumption, SeqDef
  <2> QED BY <2>1, <2>2 DEF PartsOf
<1>5. CASE type \in [kind : {"NATIVE_FUNC_POINTER"}, outs : {<<>>},
                     ins : {<<i>> : i \in Index}]
  <2>1. /\ type.kind = "NATIVE_FUNC_POINTER" /\ type.outs = <<>>
        /\ type.ins \in {<<i>> : i \in Index}
    BY <1>5
  <2>2. PICK i \in Index : type.ins = <<i>>
    BY <2>1
  <2>3. type.ins \in Seq(Index)
    BY <2>2
  <2> QED BY <2>1, <2>3 DEF PartsOf
<1> QED BY <1>1, <1>2, <1>3, <1>4, <1>5 DEF AllTypes, UserTypes

LEMMA LayoutsFit ==
  /\ \A layout \in Layouts : Fits(layout)
  /\ NoFields \in Layouts /\ Portal \in Layouts
  /\ Scalar(NumSize) \in Layouts /\ Scalar(1) \in Layouts /\ Scalar(PtrSize) \in Layouts
<1>1. \A layout \in Layouts : Fits(layout)
  BY DEF Layouts, Fits
<1>2. NoFields \in [portal : BOOLEAN, align : Aligns, payload_size : Nat, offsets : Seq(Nat)]
  BY DEF NoFields, Aligns
<1>3. /\ Portal \in [portal : BOOLEAN, align : Aligns, payload_size : Nat]
      /\ Scalar(NumSize) \in [portal : BOOLEAN, align : Aligns, payload_size : Nat]
      /\ Scalar(1) \in [portal : BOOLEAN, align : Aligns, payload_size : Nat]
      /\ Scalar(PtrSize) \in [portal : BOOLEAN, align : Aligns, payload_size : Nat]
  BY ScalarsFit DEF Fits, Portal, Scalar
<1> QED BY <1>1, <1>2, <1>3 DEF Layouts

\* The layout of a type whose parts have one (ir.c:45 to 111).
LEMMA LayoutFits ==
  ASSUME NEW type \in AllTypes, NEW types, \A p \in Range(PartsOf(type)) : types[p] \in Layouts
  PROVE  /\ LayoutOf(type, types) \in Layouts
         /\ type.kind \in {"SLICE", "VIEW"} => LayoutOf(type, types).portal
         /\ type.kind \notin {"SLICE", "VIEW"} =>
              (LayoutOf(type, types).portal <=> \E p \in Range(PartsOf(type)) : types[p].portal)
<1> DEFINE layout == LayoutOf(type, types)
<1>1. CASE type.kind = "ARRAY"
  <2>1. PICK elem : elem = types[type.elem]
    OBVIOUS
  <2>2. type.capacity \in Nat /\ Range(PartsOf(type)) = {type.elem}
    BY <1>1, TypeFacts DEF Range
  <2>3. elem \in Layouts /\ Fits(elem)
    BY <2>1, <2>2, LayoutsFit
  <2>4. layout = ArrayOf(elem, type.capacity)
    BY <1>1, <2>1 DEF LayoutOf
  <2>5. Fits(layout) /\ layout.portal = elem.portal /\ layout.data_offset \in Nat
    <3>1. /\ Fits(ArrayOf(elem, type.capacity))
          /\ ArrayOf(elem, type.capacity).portal = elem.portal
      BY <2>2, <2>3, ArraysFit
    <3>2. ArrayOf(elem, type.capacity).data_offset = align_up(CountSize, elem.align)
      BY DEF ArrayOf
    <3>3. CountSize \in Nat /\ elem.align \in Nat \ {0}
      BY <2>3, AlignsDivide, SizesAssumption DEF Fits
    <3> QED BY <2>4, <3>1, <3>2, <3>3, AlignUp
  <2>6. layout = [portal |-> layout.portal, align |-> layout.align,
                  data_offset |-> layout.data_offset, payload_size |-> layout.payload_size]
    BY <2>4 DEF ArrayOf
  <2>7. layout \in Layouts
    BY <2>5, <2>6 DEF Layouts, Fits
  <2> QED BY <1>1, <2>1, <2>2, <2>5, <2>7
<1>2. CASE type.kind = "STRUCT"
  <2>1. PICK fields : fields = [i \in DOMAIN type.fields |-> types[type.fields[i]]]
    OBVIOUS
  <2>2. PICK n \in Nat : DOMAIN type.fields = 1..n
    BY <1>2, TypeFacts
  <2>3. Len(fields) = n
    BY <2>1, <2>2
  <2>4. \A i \in 1..n : fields[i] = types[type.fields[i]] /\ type.fields[i] \in Range(PartsOf(type))
    BY <1>2, <2>1, <2>2, TypeFacts DEF Range
  <2>5. \A i \in 1..n : Fits(fields[i])
    BY <2>4, LayoutsFit
  <2>6. layout = StructOf(fields)
    BY <1>2, <2>1 DEF LayoutOf
  <2>7. Placed(fields, layout, n)
    BY <2>3, <2>5, <2>6, StructsFit
  <2>8. layout \in Layouts
    BY <2>7 DEF Placed, Layouts
  <2>9. layout.portal <=> \E p \in Range(PartsOf(type)) : types[p].portal
    <3>1. \A p \in Range(PartsOf(type)) : \E i \in 1..n : p = type.fields[i]
      BY <1>2, <2>2, TypeFacts DEF Range
    <3>2. layout.portal <=> \E i \in 1..n : fields[i].portal
      BY <2>7 DEF Placed
    <3> QED BY <2>4, <3>1, <3>2
  <2> QED BY <1>2, <2>8, <2>9
<1>3. CASE type.kind \in {"SLICE", "VIEW"}
  BY <1>3, LayoutsFit, ScalarsFit DEF LayoutOf
<1>4. CASE type.kind \in {"INT", "BYTE", "NATIVE_FUNC_POINTER"}
  <2>1. Range(PartsOf(type)) = {}
    BY <1>4, TypeFacts DEF Range
  <2>2. layout \in {Scalar(NumSize), Scalar(1), Scalar(PtrSize)}
    BY <1>4 DEF LayoutOf
  <2> QED BY <1>4, <2>1, <2>2, LayoutsFit, ScalarsFit
<1> QED BY <1>1, <1>2, <1>3, <1>4, TypeFacts

\* The layout of a type depends on the layouts of its parts only.
LEMMA LayoutOfParts ==
  ASSUME NEW type \in AllTypes, NEW types, NEW others,
         \A p \in Range(PartsOf(type)) : types[p] = others[p]
  PROVE  LayoutOf(type, types) = LayoutOf(type, others)
<1>1. CASE type.kind = "ARRAY"
  <2>1. type.elem \in Range(PartsOf(type))
    BY <1>1, TypeFacts DEF Range
  <2> QED BY <1>1, <2>1 DEF LayoutOf
<1>2. CASE type.kind = "STRUCT"
  <2>1. \A i \in DOMAIN type.fields : type.fields[i] \in Range(PartsOf(type))
    BY <1>2, TypeFacts DEF Range
  <2>2. [i \in DOMAIN type.fields |-> types[type.fields[i]]] =
          [i \in DOMAIN type.fields |-> others[type.fields[i]]]
    BY <2>1
  <2>3. /\ LayoutOf(type, types) =
             StructOf([i \in DOMAIN type.fields |-> types[type.fields[i]]])
        /\ LayoutOf(type, others) =
             StructOf([i \in DOMAIN type.fields |-> others[type.fields[i]]])
    BY <1>2 DEF LayoutOf
  <2> QED BY <2>2, <2>3
<1> QED BY <1>1, <1>2, TypeFacts DEF LayoutOf

-----------------------------------------------------------------------------
(* The state of the walk (ir.c:37, the calls of type_layout_one that have  *)
(* not returned).                                                          *)

Marks == {"PENDING", "ACTIVE", "DONE"}
Jobs == [do : {"ENTER", "END"}, type : Index]

WalkType(T, s) ==
  s \in [ok : BOOLEAN, todo : Seq(Jobs), states : [DOMAIN T -> Marks],
         types : [DOMAIN T -> Layouts], sizes : [DOMAIN T -> Nat]]

Ends(s, i) == s.todo[i].do = "END"
At(s, i) == s.todo[i].type
Positions(s) == 1..Len(s.todo)

\* What is to do is a type of the table or a part of one.
Known(T, s) ==
  \A i \in Positions(s) : At(s, i) \in DOMAIN T \/ \E t \in DOMAIN T : At(s, i) \in PartsIn(T, t)

\* The calls that have not returned are those of the types marked active, one of each.
Begun(T, s) ==
  /\ \A i \in Positions(s) :
       Ends(s, i) => At(s, i) \in DOMAIN T /\ s.states[At(s, i)] = "ACTIVE"
  /\ \A t \in DOMAIN T :
       s.states[t] = "ACTIVE" => \E i \in Positions(s) : Ends(s, i) /\ At(s, i) = t
  /\ \A i, j \in Positions(s) : Ends(s, i) /\ Ends(s, j) /\ At(s, i) = At(s, j) => i = j

\* What comes before the end of a call is a part of a type whose call has begun since.
Nested(T, s) ==
  \A j \in Positions(s) : Ends(s, j) =>
    \A i \in 1..(j - 1) :
      \E k \in (i + 1)..j : Ends(s, k) /\ At(s, i) \in PartsIn(T, At(s, k))

\* The parts of a type are done or come before its end.
Needed(T, s) ==
  \A j \in Positions(s) : Ends(s, j) =>
    \A p \in PartsIn(T, At(s, j)) :
      \/ p \in DOMAIN T /\ s.states[p] = "DONE"
      \/ \E i \in 1..(j - 1) : At(s, i) = p

\* Every type is done or still to do.
Left(T, s) ==
  \A t \in DOMAIN T : s.states[t] = "DONE" \/ \E i \in Positions(s) : At(s, i) = t

\* A type that is done has the layout its parts give it.
LaidOut(T, s) ==
  \A t \in DOMAIN T :
    /\ s.states[t] # "PENDING" => Named(T, T[t])
    /\ s.states[t] = "DONE" =>
         /\ s.types[t] = LayoutOf(T[t], s.types)
         /\ \A p \in PartsIn(T, t) : p \in DOMAIN T /\ s.states[p] = "DONE"

\* The types that are done were done one after the other, the parts of each before it.
Ranked(T, s, n) ==
  \E rank \in [DOMAIN T -> Nat] :
    \A t \in DOMAIN T : s.states[t] = "DONE" =>
      rank[t] < n /\ \A p \in PartsIn(T, t) : rank[p] < rank[t]

\* A table with a type that needs its own layout, or an index that is none.
ClosedIn(T, types) == \A t \in types \cap DOMAIN T : PartsIn(T, t) \subseteq types
InItself(T, t) ==
  \A types \in SUBSET Index : PartsIn(T, t) \subseteq types /\ ClosedIn(T, types) => t \in types
Wrong(T) ==
  \E t \in DOMAIN T :
    ~Named(T, T[t]) \/ ~(PartsIn(T, t) \subseteq DOMAIN T) \/ InItself(T, t)

WalkInv(T, s, n) ==
  /\ WalkType(T, s)
  /\ Known(T, s) /\ Begun(T, s) /\ Nested(T, s) /\ Needed(T, s) /\ Left(T, s)
  /\ LaidOut(T, s) /\ Ranked(T, s, n)
  /\ ~s.ok => Wrong(T)

LEMMA TableFacts ==
  ASSUME NEW T, IsTable(T)
  PROVE  /\ DOMAIN T = 1..Len(T) /\ Len(T) \in Nat /\ DOMAIN T \subseteq Index
         /\ \A t \in DOMAIN T : /\ T[t] \in AllTypes /\ PartsOf(T[t]) \in Seq(Index)
                                /\ PartsIn(T, t) \subseteq Index
<1>1. DOMAIN T = 1..Len(T) /\ Len(T) \in Nat /\ DOMAIN T \subseteq Index
  BY BoundsAssumption DEF IsTable, Index
<1>2. ASSUME NEW t \in DOMAIN T
      PROVE  T[t] \in AllTypes /\ PartsOf(T[t]) \in Seq(Index) /\ PartsIn(T, t) \subseteq Index
  <2>1. T[t] \in AllTypes
    BY <1>2 DEF IsTable
  <2>2. PartsOf(T[t]) \in Seq(Index)
    BY <2>1, TypeFacts
  <2> QED BY <2>1, <2>2 DEF PartsIn, Range
<1> QED BY <1>1, <1>2

\* The head of what is to do.
LEMMA Heads ==
  ASSUME NEW T, NEW s, WalkType(T, s), ~Over(s)
  PROVE  /\ s.todo \in Seq(Jobs) /\ Len(s.todo) \in Nat /\ Len(s.todo) >= 1
         /\ Head(s.todo) = s.todo[1] /\ s.todo[1] \in Jobs
         /\ Tail(s.todo) \in Seq(Jobs) /\ Len(Tail(s.todo)) = Len(s.todo) - 1
         /\ \A i \in 1..(Len(s.todo) - 1) : Tail(s.todo)[i] = s.todo[i + 1]
<1>1. s.todo \in Seq(Jobs) /\ s.todo # <<>>
  BY DEF WalkType, Over
<1>2. PICK todo \in Seq(Jobs) : todo = s.todo /\ todo # <<>>
  BY <1>1
<1>3. Len(todo) \in Nat /\ Len(todo) >= 1 /\ Head(todo) = todo[1] /\ todo[1] \in Jobs
  BY <1>2, EmptySeq, ElementOfSeq
<1> QED BY <1>2, <1>3, HeadTailProperties

\* The step that takes the head away: its type was done, or is now.
Drops(T, s, s2) ==
  LET t == At(s, 1)
  IN /\ t \in DOMAIN T
     /\ s2.ok = s.ok
     /\ s2.todo = Tail(s.todo)
     /\ s2.states = [s.states EXCEPT ![t] = "DONE"]
     /\ s2.types = [s.types EXCEPT ![t] = LayoutOf(T[t], s.types)]
     /\ \/ Ends(s, 1)
        \/ ~Ends(s, 1) /\ s.states[t] = "DONE"

\* The step that begins a call.
Begins(T, s, s2) ==
  LET t == At(s, 1)
  IN /\ t \in DOMAIN T /\ s.states[t] = "PENDING" /\ ~Ends(s, 1)
     /\ Named(T, T[t])
     /\ s2.ok = s.ok
     /\ s2.todo = Entering(PartsOf(T[t])) \o <<End(t)>> \o Tail(s.todo)
     /\ s2.states = [s.states EXCEPT ![t] = "ACTIVE"]
     /\ s2.types = s.types

\* The step that refuses the table.
Refuses(T, s, s2) ==
  LET t == At(s, 1)
  IN /\ s2 = Refused(s)
     /\ ~Ends(s, 1)
     /\ t \in DOMAIN T => s.states[t] = "ACTIVE" \/ ~Named(T, T[t])

\* A step does one of the three.
LEMMA Steps ==
  ASSUME NEW T, IsTable(T), NEW s, NEW n, WalkInv(T, s, n), ~Over(s)
  PROVE  LET s2 == Step(T, s)
         IN WalkType(T, s2) /\ (Drops(T, s, s2) \/ Begins(T, s, s2) \/ Refuses(T, s, s2))
<1>0. PICK s2 : s2 = Step(T, s)
  OBVIOUS
<1> SUFFICES WalkType(T, s2) /\ (Drops(T, s, s2) \/ Begins(T, s, s2) \/ Refuses(T, s, s2))
  BY <1>0
<1>1. WalkType(T, s)
  BY DEF WalkInv
<1>2. PICK todo, t : todo = s.todo /\ t = todo[1].type
  OBVIOUS
<1>3. /\ todo \in Seq(Jobs) /\ Len(todo) >= 1 /\ Head(todo) = todo[1] /\ todo[1] \in Jobs
      /\ Tail(todo) \in Seq(Jobs)
  BY <1>1, <1>2, Heads
<1>4. t \in Index /\ todo[1].do \in {"ENTER", "END"}
  BY <1>2, <1>3 DEF Jobs
<1>5. t = At(s, 1) /\ Head(s.todo).type = t /\ (Head(s.todo).do = "ENTER" <=> ~Ends(s, 1))
  BY <1>2, <1>3, <1>4 DEF At, Ends
<1>6. CASE ~Ends(s, 1)
  <2>1. s2 = EnterType(T, s, t)
    BY <1>0, <1>5, <1>6 DEF Step
  <2>2. CASE t \notin DOMAIN T \/ (s.states[t] # "DONE"
                                     /\ (s.states[t] = "ACTIVE" \/ ~Named(T, T[t])))
    <3>1. s2 = Refused(s)
      BY <2>1, <2>2 DEF EnterType
    <3>2. WalkType(T, s2)
      BY <1>1, <3>1 DEF WalkType, Refused
    <3> QED BY <1>5, <1>6, <2>2, <3>1, <3>2 DEF Refuses
  <2>3. CASE t \in DOMAIN T /\ s.states[t] = "DONE"
    <3>1. s2 = [s EXCEPT !.todo = Tail(@)]
      BY <2>1, <2>3 DEF EnterType
    <3>2. /\ s2.ok = s.ok /\ s2.todo = Tail(s.todo) /\ s2.states = s.states
          /\ s2.types = s.types
      BY <1>1, <3>1 DEF WalkType
    <3>3. WalkType(T, s2)
      BY <1>1, <1>2, <1>3, <3>1 DEF WalkType
    <3>4. s.types[t] = LayoutOf(T[t], s.types)
      BY <2>3 DEF WalkInv, LaidOut
    <3>5. /\ s.states = [s.states EXCEPT ![t] = "DONE"]
          /\ s.types = [s.types EXCEPT ![t] = LayoutOf(T[t], s.types)]
      BY <1>1, <2>3, <3>4 DEF WalkType
    <3> QED BY <1>5, <1>6, <2>3, <3>2, <3>3, <3>5 DEF Drops
  <2>4. CASE t \in DOMAIN T /\ s.states[t] \notin {"ACTIVE", "DONE"} /\ Named(T, T[t])
    <3>1. s2 = [s EXCEPT !.todo = Entering(PartsOf(T[t])) \o <<End(t)>> \o Tail(@),
                         !.states[t] = "ACTIVE"]
      BY <2>1, <2>4 DEF EnterType
    <3>2. s.states[t] = "PENDING"
      BY <1>1, <2>4 DEF WalkType, Marks
    <3>3. Entering(PartsOf(T[t])) \o <<End(t)>> \o Tail(todo) \in Seq(Jobs)
      <4>1. PICK parts \in Seq(Index) : parts = PartsOf(T[t])
        BY <2>4, TableFacts
      <4>2. Entering(parts) \in Seq(Jobs)
        <5>1. \A i \in DOMAIN parts : Enter(parts[i]) \in Jobs
          BY DEF Enter, Jobs
        <5> QED BY <5>1 DEF Entering
      <4>3. <<End(t)>> \in Seq(Jobs)
        BY <1>4 DEF End, Jobs
      <4>4. Entering(parts) \o <<End(t)>> \in Seq(Jobs)
        BY <4>2, <4>3, ConcatProperties
      <4> QED BY <1>3, <4>1, <4>4, ConcatProperties
    <3>4. WalkType(T, s2)
      <4>1. PICK new : new = Entering(PartsOf(T[t])) \o <<End(t)>> \o Tail(todo)
        OBVIOUS
      <4>2. PICK states : states = [s.states EXCEPT ![t] = "ACTIVE"]
        OBVIOUS
      <4>3. s2 = [s EXCEPT !.todo = new, !.states = states]
        BY <1>2, <3>1, <4>1, <4>2
      <4>4. new \in Seq(Jobs)
        BY <3>3, <4>1
      <4>5. states \in [DOMAIN T -> Marks]
        BY <1>1, <4>2 DEF WalkType, Marks
      <4> QED BY <1>1, <4>3, <4>4, <4>5 DEF WalkType
    <3>5. /\ s2.ok = s.ok
          /\ s2.todo = Entering(PartsOf(T[t])) \o <<End(t)>> \o Tail(s.todo)
          /\ s2.states = [s.states EXCEPT ![t] = "ACTIVE"]
          /\ s2.types = s.types
      <4>1. PICK new : new = Entering(PartsOf(T[t])) \o <<End(t)>> \o Tail(s.todo)
        OBVIOUS
      <4>2. s2 = [s EXCEPT !.todo = new, !.states[t] = "ACTIVE"]
        BY <3>1, <4>1
      <4> QED BY <1>1, <4>1, <4>2 DEF WalkType
    <3> QED BY <1>5, <1>6, <2>4, <3>2, <3>4, <3>5 DEF Begins
  <2> QED BY <2>2, <2>3, <2>4
<1>7. CASE Ends(s, 1)
  <2>1. PICK layout : layout = LayoutOf(T[t], s.types)
    OBVIOUS
  <2>2. s2 = Done(s, t, layout)
    BY <1>0, <1>5, <1>7, <2>1 DEF Step
  <2>3. t \in DOMAIN T
    <3>1. 1 \in Positions(s)
      BY <1>2, <1>3 DEF Positions
    <3> QED BY <1>5, <1>7, <3>1 DEF WalkInv, Begun
  <2>4. \A p \in PartsIn(T, t) : p \in DOMAIN T /\ s.states[p] = "DONE"
    <3>1. 1 \in Positions(s)
      BY <1>2, <1>3 DEF Positions
    <3> QED BY <1>5, <1>7, <3>1 DEF WalkInv, Needed
  <2>5. layout \in Layouts
    <3>1. T[t] \in AllTypes
      BY <2>3, TableFacts
    <3>2. \A p \in Range(PartsOf(T[t])) : s.types[p] \in Layouts
      BY <1>1, <2>4 DEF WalkType, PartsIn
    <3> QED BY <2>1, <3>1, <3>2, LayoutFits
  <2>6. PICK size : size = align_up(layout.payload_size, CellAlign) /\ size \in Nat
    <3>1. layout.payload_size \in Nat
      BY <2>5, LayoutsFit DEF Fits
    <3> QED BY <3>1, AlignUp, SizesAssumption
  <2>7. s2 = [s EXCEPT !.todo = Tail(@), !.states[t] = "DONE", !.types[t] = layout,
                       !.sizes[t] = size]
    BY <2>2, <2>6 DEF Done
  <2>8. /\ s2.ok = s.ok /\ s2.todo = Tail(s.todo)
        /\ s2.states = [s.states EXCEPT ![t] = "DONE"]
        /\ s2.types = [s.types EXCEPT ![t] = layout]
    BY <1>1, <2>7 DEF WalkType
  <2>9. WalkType(T, s2)
    <3>1. PICK states, types, sizes :
            /\ states = [s.states EXCEPT ![t] = "DONE"]
            /\ types = [s.types EXCEPT ![t] = layout]
            /\ sizes = [s.sizes EXCEPT ![t] = size]
      OBVIOUS
    <3>2. s2 = [s EXCEPT !.todo = Tail(@), !.states = states, !.types = types,
                         !.sizes = sizes]
      BY <2>7, <3>1
    <3>3. /\ states \in [DOMAIN T -> Marks] /\ types \in [DOMAIN T -> Layouts]
          /\ sizes \in [DOMAIN T -> Nat]
      BY <1>1, <2>3, <2>5, <2>6, <3>1 DEF WalkType, Marks
    <3> QED BY <1>1, <1>2, <1>3, <3>2, <3>3 DEF WalkType
  <2> QED BY <1>5, <1>7, <2>1, <2>3, <2>8, <2>9 DEF Drops
<1> QED BY <1>6, <1>7

LEMMA Dropped ==
  ASSUME NEW T, IsTable(T), NEW s, NEW n \in Nat, WalkInv(T, s, n), ~Over(s),
         NEW s2, WalkType(T, s2), Drops(T, s, s2)
  PROVE  WalkInv(T, s2, n + 1)
<1>1. PICK t, m, D : t = At(s, 1) /\ m = Len(s.todo) /\ D = DOMAIN T
  OBVIOUS
<1>2. /\ m \in Nat /\ m >= 1 /\ t \in D /\ Positions(s) = 1..m /\ Positions(s2) = 1..(m - 1)
      /\ \A i \in 1..(m - 1) :
           /\ i + 1 \in 1..m
           /\ At(s2, i) = At(s, i + 1) /\ (Ends(s2, i) <=> Ends(s, i + 1))
  <2>1. WalkType(T, s)
    BY DEF WalkInv
  <2>2. m \in Nat /\ m >= 1 /\ Len(s2.todo) = m - 1
        /\ \A i \in 1..(m - 1) : s2.todo[i] = s.todo[i + 1]
    BY <1>1, <2>1, Heads DEF Drops
  <2>3. \A i \in 1..(m - 1) : i + 1 \in 1..m
    BY <2>2
  <2> QED BY <1>1, <2>2, <2>3 DEF Drops, Positions, At, Ends
<1>3. \A u \in D : s2.states[u] = IF u = t THEN "DONE" ELSE s.states[u]
  BY <1>1 DEF Drops, WalkInv, WalkType
<1>4. \A u \in D : s2.types[u] = IF u = t THEN LayoutOf(T[t], s.types) ELSE s.types[u]
  BY <1>1 DEF Drops, WalkInv, WalkType
<1>5. \A i \in 1..m : i = 1 \/ (i - 1 \in 1..(m - 1) /\ (i - 1) + 1 = i)
  BY <1>2
<1>6. Ends(s, 1) \/ (~Ends(s, 1) /\ s.states[t] = "DONE")
  BY <1>1 DEF Drops
<1>7. Known(T, s2)
  BY <1>1, <1>2 DEF WalkInv, Known
<1>8. /\ \A i \in 1..m : Ends(s, i) => At(s, i) \in D /\ s.states[At(s, i)] = "ACTIVE"
      /\ \A u \in D : s.states[u] = "ACTIVE" => \E i \in 1..m : Ends(s, i) /\ At(s, i) = u
      /\ \A i, j \in 1..m : Ends(s, i) /\ Ends(s, j) /\ At(s, i) = At(s, j) => i = j
  BY <1>1, <1>2 DEF WalkInv, Begun
<1>9. \A i \in 1..m : Ends(s, i) /\ i # 1 => At(s, i) # t
  <2>1. SUFFICES ASSUME NEW i \in 1..m, Ends(s, i), i # 1, At(s, i) = t PROVE FALSE
    OBVIOUS
  <2>2. 1 \in 1..m
    BY <1>2
  <2>3. CASE Ends(s, 1)
    BY <1>1, <1>8, <2>1, <2>2, <2>3
  <2>4. CASE s.states[t] = "DONE"
    BY <1>8, <2>1, <2>4
  <2> QED BY <1>6, <2>3, <2>4
<1>10. Begun(T, s2)
  <2>1. ASSUME NEW i \in 1..(m - 1), Ends(s2, i)
        PROVE  At(s2, i) \in D /\ s2.states[At(s2, i)] = "ACTIVE"
    <3>1. i + 1 \in 1..m /\ i + 1 # 1 /\ Ends(s, i + 1) /\ At(s2, i) = At(s, i + 1)
      BY <1>2, <2>1
    <3> QED BY <1>3, <1>8, <1>9, <3>1
  <2>2. ASSUME NEW u \in D, s2.states[u] = "ACTIVE"
        PROVE  \E i \in 1..(m - 1) : Ends(s2, i) /\ At(s2, i) = u
    <3>1. u # t /\ s.states[u] = "ACTIVE"
      BY <1>3, <2>2
    <3>2. PICK i \in 1..m : Ends(s, i) /\ At(s, i) = u
      BY <1>8, <3>1
    <3>3. i - 1 \in 1..(m - 1) /\ (i - 1) + 1 = i
      BY <1>1, <1>5, <3>1, <3>2
    <3> QED BY <1>2, <3>2, <3>3
  <2>3. ASSUME NEW i \in 1..(m - 1), NEW j \in 1..(m - 1), Ends(s2, i), Ends(s2, j),
               At(s2, i) = At(s2, j)
        PROVE  i = j
    <3>1. i + 1 = j + 1
      BY <1>2, <1>8, <2>3
    <3> QED BY <3>1
  <2> QED BY <1>1, <1>2, <2>1, <2>2, <2>3 DEF Begun
<1>11. Nested(T, s2)
  <2>1. SUFFICES ASSUME NEW j \in 1..(m - 1), Ends(s2, j), NEW i \in 1..(j - 1)
                 PROVE  \E k \in (i + 1)..j :
                          Ends(s2, k) /\ At(s2, i) \in PartsIn(T, At(s2, k))
    BY <1>2 DEF Nested
  <2>2. /\ j + 1 \in 1..m /\ Ends(s, j + 1) /\ i + 1 \in 1..((j + 1) - 1)
        /\ i \in 1..(m - 1) /\ i \in Int /\ j \in Int /\ m \in Int
    BY <1>2, <2>1
  <2>3. PICK k \in ((i + 1) + 1)..(j + 1) :
               Ends(s, k) /\ At(s, i + 1) \in PartsIn(T, At(s, k))
    BY <1>2, <2>2 DEF WalkInv, Nested
  <2>4. k - 1 \in (i + 1)..j /\ k - 1 \in 1..(m - 1) /\ (k - 1) + 1 = k
    BY <2>2, <2>3
  <2>5. Ends(s2, k - 1) /\ At(s2, i) \in PartsIn(T, At(s2, k - 1))
    BY <1>2, <2>2, <2>3, <2>4
  <2> QED BY <2>4, <2>5
<1>12. Needed(T, s2)
  <2>1. SUFFICES ASSUME NEW j \in 1..(m - 1), Ends(s2, j), NEW p \in PartsIn(T, At(s2, j))
                 PROVE  \/ p \in D /\ s2.states[p] = "DONE"
                        \/ \E i \in 1..(j - 1) : At(s2, i) = p
    BY <1>1, <1>2 DEF Needed
  <2>2. /\ j + 1 \in 1..m /\ Ends(s, j + 1) /\ p \in PartsIn(T, At(s, j + 1)) /\ j \in Int
        /\ (j + 1) - 1 = j /\ m \in Int
    BY <1>2, <2>1
  <2>3. (p \in D /\ s.states[p] = "DONE") \/ \E i \in 1..j : At(s, i) = p
    BY <1>1, <1>2, <2>2 DEF WalkInv, Needed
  <2>4. CASE p \in D /\ s.states[p] = "DONE"
    BY <1>3, <2>4
  <2>5. ASSUME NEW i \in 1..j, At(s, i) = p
        PROVE  \/ p \in D /\ s2.states[p] = "DONE"
               \/ \E k \in 1..(j - 1) : At(s2, k) = p
    <3>1. CASE i = 1
      BY <1>1, <1>2, <1>3, <2>5, <3>1
    <3>2. CASE i # 1
      <4>1. i - 1 \in 1..(j - 1) /\ i - 1 \in 1..(m - 1) /\ (i - 1) + 1 = i
        BY <2>2, <2>5, <3>2
      <4> QED BY <1>2, <2>5, <4>1
    <3> QED BY <3>1, <3>2
  <2> QED BY <2>3, <2>4, <2>5
<1>13. Left(T, s2)
  <2>1. ASSUME NEW u \in D, u # t
        PROVE  s2.states[u] = "DONE" \/ \E i \in 1..(m - 1) : At(s2, i) = u
    <3>1. s.states[u] = "DONE" \/ \E i \in 1..m : At(s, i) = u
      BY <1>1, <1>2 DEF WalkInv, Left
    <3>2. ASSUME NEW i \in 1..m, At(s, i) = u
          PROVE  \E k \in 1..(m - 1) : At(s2, k) = u
      <4>1. i - 1 \in 1..(m - 1) /\ (i - 1) + 1 = i
        BY <1>1, <1>5, <2>1, <3>2
      <4> QED BY <1>2, <3>2, <4>1
    <3> QED BY <1>3, <2>1, <3>1, <3>2
  <2> QED BY <1>1, <1>2, <1>3, <2>1 DEF Left
<1>14. \A p \in PartsIn(T, t) : p \in D /\ s.states[p] = "DONE"
  <2>1. CASE Ends(s, 1)
    <3>1. 1 \in 1..m
      BY <1>2
    <3>2. \A i \in 1..(1 - 1) : FALSE
      OBVIOUS
    <3> QED BY <1>1, <1>2, <2>1, <3>1, <3>2 DEF WalkInv, Needed
  <2>2. CASE s.states[t] = "DONE"
    BY <1>1, <1>2, <2>2 DEF WalkInv, LaidOut
  <2> QED BY <1>6, <2>1, <2>2
<1>15. \A u \in D : T[u] \in AllTypes
  BY <1>1, TableFacts
<1>16. \A u \in D : (\A p \in PartsIn(T, u) : s2.types[p] = s.types[p]) =>
                      LayoutOf(T[u], s2.types) = LayoutOf(T[u], s.types)
  BY <1>15, LayoutOfParts DEF PartsIn
<1>17. s2.types[t] = s.types[t] \/ s.states[t] # "DONE"
  BY <1>1, <1>2, <1>4 DEF WalkInv, LaidOut
<1>18. LaidOut(T, s2)
  <2>1. ASSUME NEW u \in D, s2.states[u] = "DONE"
        PROVE  /\ s2.types[u] = LayoutOf(T[u], s2.types)
               /\ \A p \in PartsIn(T, u) : p \in D /\ s2.states[p] = "DONE"
    <3>1. \A p \in PartsIn(T, u) : p \in D /\ s.states[p] = "DONE"
      BY <1>1, <1>3, <1>14, <2>1 DEF WalkInv, LaidOut
    <3>2. \A p \in PartsIn(T, u) : s2.types[p] = s.types[p]
      BY <1>4, <1>17, <3>1
    <3>3. LayoutOf(T[u], s2.types) = LayoutOf(T[u], s.types)
      BY <1>16, <3>2
    <3>4. s2.types[u] = LayoutOf(T[u], s.types)
      BY <1>1, <1>3, <1>4, <2>1 DEF WalkInv, LaidOut
    <3> QED BY <1>3, <3>1, <3>3, <3>4
  <2>2. ASSUME NEW u \in D, s2.states[u] # "PENDING" PROVE Named(T, T[u])
    <3>1. CASE u # t
      BY <1>1, <1>3, <2>2, <3>1 DEF WalkInv, LaidOut
    <3>2. CASE u = t
      <4>1. s.states[t] # "PENDING"
        <5>1. 1 \in 1..m
          BY <1>2
        <5> QED BY <1>1, <1>6, <1>8, <5>1
      <4> QED BY <1>1, <1>2, <3>2, <4>1 DEF WalkInv, LaidOut
    <3> QED BY <3>1, <3>2
  <2> QED BY <1>1, <2>1, <2>2 DEF LaidOut
<1>19. Ranked(T, s2, n + 1)
  <2>1. PICK rank \in [D -> Nat] :
          \A u \in D : s.states[u] = "DONE" =>
            rank[u] < n /\ \A p \in PartsIn(T, u) : rank[p] < rank[u]
    BY <1>1 DEF WalkInv, Ranked
  <2>2. CASE s.states[t] = "DONE"
    <3>1. \A u \in D : s2.states[u] = "DONE" => s.states[u] = "DONE"
      BY <1>3, <2>2
    <3>2. \A u \in D : rank[u] \in Nat /\ (rank[u] < n => rank[u] < n + 1)
      OBVIOUS
    <3> QED BY <1>1, <2>1, <3>1, <3>2 DEF Ranked
  <2>3. CASE s.states[t] # "DONE"
    <3>1. PICK new \in [D -> Nat] : \A u \in D : new[u] = IF u = t THEN n ELSE rank[u]
      <4>1. [rank EXCEPT ![t] = n] \in [D -> Nat]
        OBVIOUS
      <4>2. \A u \in D : [rank EXCEPT ![t] = n][u] = IF u = t THEN n ELSE rank[u]
        OBVIOUS
      <4> QED BY <4>1, <4>2
    <3>2. ASSUME NEW u \in D, s2.states[u] = "DONE"
          PROVE  new[u] < n + 1 /\ \A p \in PartsIn(T, u) : new[p] < new[u]
      <4>1. \A p \in PartsIn(T, t) : new[p] < n
        <5>1. \A p \in PartsIn(T, t) : p \in D /\ p # t /\ rank[p] < n
          BY <1>14, <2>1, <2>3
        <5> QED BY <3>1, <5>1
      <4>2. CASE u = t
        BY <3>1, <4>1, <4>2
      <4>3. CASE u # t
        <5>1. s.states[u] = "DONE"
          BY <1>3, <3>2, <4>3
        <5>2. \A p \in PartsIn(T, u) : p \in D /\ p # t
          BY <1>1, <2>3, <5>1 DEF WalkInv, LaidOut
        <5>3. rank[u] < n /\ rank[u] \in Nat
          BY <2>1, <5>1
        <5> QED BY <2>1, <3>1, <4>3, <5>1, <5>2, <5>3
      <4> QED BY <4>2, <4>3
    <3> QED BY <1>1, <3>1, <3>2 DEF Ranked
  <2> QED BY <2>2, <2>3
<1>20. s2.ok
  BY DEF Drops, Over
<1> QED BY <1>7, <1>10, <1>11, <1>12, <1>13, <1>18, <1>19, <1>20 DEF WalkInv

LEMMA Entered ==
  ASSUME NEW T, IsTable(T), NEW s, NEW n \in Nat, WalkInv(T, s, n), ~Over(s),
         NEW s2, WalkType(T, s2), Begins(T, s, s2)
  PROVE  /\ WalkInv(T, s2, n + 1)
         /\ Len(s2.todo) = Len(PartsOf(T[At(s, 1)])) + Len(s.todo)
<1>1. PICK t, m, D, parts, l :
        /\ t = At(s, 1) /\ m = Len(s.todo) /\ D = DOMAIN T
        /\ parts = PartsOf(T[t]) /\ l = Len(parts)
  OBVIOUS
<1>2. /\ t \in D /\ t \in Index /\ m \in Nat /\ m >= 1 /\ l \in Nat
      /\ parts \in Seq(Index) /\ DOMAIN parts = 1..l
  <2>1. t \in D
    BY <1>1 DEF Begins
  <2>2. parts \in Seq(Index) /\ t \in Index
    BY <1>1, <2>1, TableFacts
  <2>3. m \in Nat /\ m >= 1
    BY <1>1, Heads DEF WalkInv
  <2> QED BY <1>1, <2>1, <2>2, <2>3, LenProperties
<1>3. /\ Len(s2.todo) = l + m
      /\ \A i \in 1..l : s2.todo[i] = Enter(parts[i])
      /\ s2.todo[l + 1] = End(t)
      /\ \A i \in (l + 2)..(l + m) : s2.todo[i] = s.todo[i - l]
  <2>1. PICK tail : /\ tail = Tail(s.todo) /\ tail \in Seq(Jobs) /\ Len(tail) = m - 1
                    /\ \A i \in 1..(m - 1) : tail[i] = s.todo[i + 1]
    BY <1>1, Heads DEF WalkInv
  <2>2. PICK first : first = Entering(parts)
    OBVIOUS
  <2>3. first \in Seq(Jobs) /\ Len(first) = l /\ \A i \in 1..l : first[i] = Enter(parts[i])
    <3>1. \A i \in 1..l : Enter(parts[i]) \in Jobs
      BY <1>1, <1>2 DEF Enter, Jobs
    <3>2. first = [i \in 1..l |-> Enter(parts[i])]
      BY <1>2, <2>2 DEF Entering
    <3> QED BY <1>2, <3>1, <3>2
  <2>4. PICK second : second = first \o <<End(t)>>
    OBVIOUS
  <2>5. /\ second \in Seq(Jobs) /\ Len(second) = l + 1
        /\ \A i \in 1..l : second[i] = first[i]
        /\ second[l + 1] = End(t)
    <3>1. <<End(t)>> \in Seq(Jobs) /\ Len(<<End(t)>>) = 1 /\ <<End(t)>>[1] = End(t)
      BY <1>2 DEF End, Jobs
    <3>2. PICK one : one = <<End(t)>> /\ one \in Seq(Jobs) /\ Len(one) = 1 /\ one[1] = End(t)
      BY <3>1
    <3>3. /\ first \o one \in Seq(Jobs) /\ Len(first \o one) = l + 1
          /\ \A i \in 1..(l + 1) : (first \o one)[i] = IF i <= l THEN first[i] ELSE one[i - l]
      BY <2>3, <3>2, ConcatProperties
    <3>4. l + 1 \in 1..(l + 1) /\ ~(l + 1 <= l) /\ (l + 1) - l = 1
          /\ \A i \in 1..l : i \in 1..(l + 1) /\ i <= l
      BY <1>2
    <3> QED BY <2>4, <3>2, <3>3, <3>4
  <2>6. /\ Len(second \o tail) = (l + 1) + (m - 1)
        /\ \A i \in 1..((l + 1) + (m - 1)) :
             (second \o tail)[i] = IF i <= l + 1 THEN second[i] ELSE tail[i - (l + 1)]
    <3>1. /\ Len(second \o tail) = Len(second) + Len(tail)
          /\ \A i \in 1..(Len(second) + Len(tail)) :
               (second \o tail)[i] =
                 IF i <= Len(second) THEN second[i] ELSE tail[i - Len(second)]
      BY <2>1, <2>5, ConcatProperties
    <3>2. Len(second) = l + 1 /\ Len(tail) = m - 1
      BY <2>1, <2>5
    <3> QED BY <3>1, <3>2
  <2>7. s2.todo = second \o tail
    BY <1>1, <2>1, <2>2, <2>4 DEF Begins
  <2>8. (l + 1) + (m - 1) = l + m
    BY <1>2
  <2>9. ASSUME NEW i \in (l + 2)..(l + m) PROVE s2.todo[i] = s.todo[i - l]
    <3>1. /\ i \in 1..(l + m) /\ ~(i <= l + 1) /\ i - (l + 1) \in 1..(m - 1)
          /\ (i - (l + 1)) + 1 = i - l
      BY <1>2, <2>9
    <3> QED BY <2>1, <2>6, <2>7, <2>8, <3>1
  <2>10. ASSUME NEW i \in 1..(l + 1) PROVE s2.todo[i] = second[i]
    <3>1. i \in 1..(l + m) /\ i <= l + 1
      BY <1>2, <2>10
    <3> QED BY <2>6, <2>7, <2>8, <3>1
  <2>11. \A i \in 1..l : i \in 1..(l + 1)
    BY <1>2
  <2>12. l + 1 \in 1..(l + 1)
    BY <1>2
  <2> QED BY <2>3, <2>5, <2>6, <2>7, <2>8, <2>9, <2>10, <2>11, <2>12
<1>4. Positions(s) = 1..m /\ Positions(s2) = 1..(l + m)
  BY <1>1, <1>3 DEF Positions
<1>5. \A i \in 1..l : At(s2, i) = parts[i] /\ ~Ends(s2, i) /\ At(s2, i) \in PartsIn(T, t)
  <2>1. \A i \in 1..l : parts[i] \in PartsIn(T, t)
    BY <1>1, <1>2 DEF PartsIn, Range
  <2>2. ASSUME NEW i \in 1..l PROVE s2.todo[i].type = parts[i] /\ s2.todo[i].do # "END"
    <3>1. s2.todo[i] = Enter(parts[i])
      BY <1>3
    <3>2. Enter(parts[i]).type = parts[i] /\ Enter(parts[i]).do # "END"
      BY DEF Enter
    <3> QED BY <3>1, <3>2
  <2> QED BY <2>1, <2>2 DEF At, Ends
<1>6. At(s2, l + 1) = t /\ Ends(s2, l + 1) /\ l + 1 \in 1..(l + m)
  BY <1>2, <1>3 DEF At, Ends, End
<1>7. ASSUME NEW i \in 2..m
      PROVE  /\ i + l \in 1..(l + m) /\ i + l # l + 1 /\ i \in 1..m
             /\ At(s2, i + l) = At(s, i) /\ (Ends(s2, i + l) <=> Ends(s, i))
  <2>1. i + l \in (l + 2)..(l + m) /\ (i + l) - l = i
    BY <1>2, <1>7
  <2>2. s2.todo[i + l] = s.todo[i]
    BY <1>3, <2>1
  <2> QED BY <1>2, <1>7, <2>1, <2>2 DEF At, Ends
<1>8. \A i \in 1..(l + m) :
        i \in 1..l \/ i = l + 1 \/ (i - l \in 2..m /\ (i - l) + l = i /\ i > l + 1)
  BY <1>2
<1>9. \A i \in 1..m : i = 1 \/ i \in 2..m
  BY <1>2
<1>10. \A u \in D : s2.states[u] = IF u = t THEN "ACTIVE" ELSE s.states[u]
  BY <1>1 DEF Begins, WalkInv, WalkType
<1>11. /\ s.states[t] = "PENDING" /\ ~Ends(s, 1) /\ Named(T, T[t])
       /\ s2.types = s.types /\ s2.ok = s.ok
  BY <1>1 DEF Begins
<1>12. Known(T, s2)
  <2>1. \A i \in 1..m : At(s, i) \in D \/ \E u \in D : At(s, i) \in PartsIn(T, u)
    BY <1>1, <1>4 DEF WalkInv, Known
  <2>2. ASSUME NEW i \in 1..(l + m)
        PROVE  At(s2, i) \in D \/ \E u \in D : At(s2, i) \in PartsIn(T, u)
    <3>1. CASE i \in 1..l
      BY <1>2, <1>5, <3>1
    <3>2. CASE i = l + 1
      BY <1>2, <1>6, <3>2
    <3>3. CASE i - l \in 2..m /\ (i - l) + l = i
      BY <1>7, <2>1, <3>3
    <3> QED BY <1>8, <3>1, <3>2, <3>3
  <2> QED BY <1>1, <1>4, <2>2 DEF Known
<1>13. /\ \A i \in 1..m : Ends(s, i) => At(s, i) \in D /\ s.states[At(s, i)] = "ACTIVE"
       /\ \A u \in D : s.states[u] = "ACTIVE" => \E i \in 1..m : Ends(s, i) /\ At(s, i) = u
       /\ \A i, j \in 1..m : Ends(s, i) /\ Ends(s, j) /\ At(s, i) = At(s, j) => i = j
  BY <1>1, <1>4 DEF WalkInv, Begun
<1>14. \A i \in 1..(l + m) : Ends(s2, i) =>
         \/ i = l + 1
         \/ /\ i - l \in 2..m /\ (i - l) + l = i /\ Ends(s, i - l)
            /\ At(s2, i) = At(s, i - l) /\ At(s2, i) # t
  BY <1>5, <1>7, <1>8, <1>11, <1>13
<1>15. Begun(T, s2)
  <2>1. ASSUME NEW i \in 1..(l + m), Ends(s2, i)
        PROVE  At(s2, i) \in D /\ s2.states[At(s2, i)] = "ACTIVE"
    <3>1. CASE i = l + 1
      BY <1>2, <1>6, <1>10, <3>1
    <3>2. CASE i # l + 1
      <4>1. i - l \in 1..m
        BY <1>7, <1>14, <2>1, <3>2
      <4> QED BY <1>10, <1>13, <1>14, <2>1, <3>2, <4>1
    <3> QED BY <3>1, <3>2
  <2>2. ASSUME NEW u \in D, s2.states[u] = "ACTIVE"
        PROVE  \E i \in 1..(l + m) : Ends(s2, i) /\ At(s2, i) = u
    <3>1. CASE u = t
      BY <1>6, <3>1
    <3>2. CASE u # t
      <4>1. PICK i \in 1..m : Ends(s, i) /\ At(s, i) = u
        BY <1>10, <1>13, <2>2, <3>2
      <4>2. i \in 2..m
        BY <1>9, <1>11, <4>1
      <4> QED BY <1>7, <4>1, <4>2
    <3> QED BY <3>1, <3>2
  <2>3. ASSUME NEW i \in 1..(l + m), NEW j \in 1..(l + m), Ends(s2, i), Ends(s2, j),
               At(s2, i) = At(s2, j)
        PROVE  i = j
    <3>1. CASE i = l + 1 \/ j = l + 1
      BY <1>6, <1>14, <2>3, <3>1
    <3>2. CASE i # l + 1 /\ j # l + 1
      <4>1. /\ i - l \in 2..m /\ j - l \in 2..m /\ Ends(s, i - l) /\ Ends(s, j - l)
            /\ At(s, i - l) = At(s, j - l) /\ (i - l) + l = i /\ (j - l) + l = j
        BY <1>14, <2>3, <3>2
      <4>2. i - l = j - l
        BY <1>7, <1>13, <4>1
      <4> QED BY <4>1, <4>2
    <3> QED BY <3>1, <3>2
  <2> QED BY <1>1, <1>4, <2>1, <2>2, <2>3 DEF Begun
<1>16. Nested(T, s2)
  <2>1. SUFFICES ASSUME NEW j \in 1..(l + m), Ends(s2, j), NEW i \in 1..(j - 1)
                 PROVE  \E k \in (i + 1)..j :
                          Ends(s2, k) /\ At(s2, i) \in PartsIn(T, At(s2, k))
    BY <1>4 DEF Nested
  <2>2. j = l + 1 \/ (j - l \in 2..m /\ Ends(s, j - l) /\ (j - l) + l = j)
    BY <1>14, <2>1
  <2>3. l + 1 <= j /\ i \in 1..(l + m) /\ j \in Int /\ i \in Int /\ i < j
    BY <1>2, <2>1, <2>2
  <2>4. CASE i \in 1..l
    <3>1. l + 1 \in (i + 1)..j
      BY <1>2, <2>3, <2>4
    <3>2. At(s2, i) \in PartsIn(T, At(s2, l + 1))
      BY <1>5, <1>6, <2>4
    <3> QED BY <1>6, <3>1, <3>2
  <2>5. ASSUME i >= l + 1
        PROVE  \E k \in (i + 1)..j : Ends(s2, k) /\ At(s2, i) \in PartsIn(T, At(s2, k))
    <3>1. j - l \in 2..m /\ Ends(s, j - l) /\ (j - l) + l = j
      BY <1>2, <2>2, <2>3, <2>5
    <3>2. i - l \in 1..((j - l) - 1) /\ j - l \in 1..m
      BY <1>2, <2>3, <2>5, <3>1
    <3>3. PICK k \in ((i - l) + 1)..(j - l) :
                 Ends(s, k) /\ At(s, i - l) \in PartsIn(T, At(s, k))
      BY <1>4, <3>1, <3>2 DEF WalkInv, Nested
    <3>4. k \in 2..m /\ k + l \in (i + 1)..j
      BY <1>2, <2>3, <2>5, <3>1, <3>2, <3>3
    <3>5. Ends(s2, k + l) /\ At(s2, k + l) = At(s, k)
      BY <1>7, <3>3, <3>4
    <3>6. At(s2, i) = At(s, i - l)
      <4>1. CASE i = l + 1
        <5>1. i - l = 1
          BY <1>2, <4>1
        <5> QED BY <1>1, <1>6, <4>1, <5>1
      <4>2. CASE i # l + 1
        <5>1. i - l \in 2..m /\ (i - l) + l = i
          BY <1>2, <2>3, <2>5, <4>2
        <5> QED BY <1>7, <5>1
      <4> QED BY <4>1, <4>2
    <3> QED BY <3>3, <3>4, <3>5, <3>6
  <2>6. i \in 1..l \/ i >= l + 1
    BY <1>2, <2>3
  <2> QED BY <2>4, <2>5, <2>6
<1>17. Needed(T, s2)
  <2>1. SUFFICES ASSUME NEW j \in 1..(l + m), Ends(s2, j), NEW p \in PartsIn(T, At(s2, j))
                 PROVE  \/ p \in D /\ s2.states[p] = "DONE"
                        \/ \E i \in 1..(j - 1) : At(s2, i) = p
    BY <1>1, <1>4 DEF Needed
  <2>2. CASE j = l + 1
    <3>1. p \in PartsIn(T, t)
      BY <1>6, <2>1, <2>2
    <3>2. PICK i \in 1..l : p = parts[i]
      BY <1>1, <1>2, <3>1 DEF PartsIn, Range
    <3>3. i \in 1..(j - 1)
      BY <1>2, <2>2, <3>2
    <3> QED BY <1>5, <3>2, <3>3
  <2>3. CASE j # l + 1
    <3>1. /\ j - l \in 2..m /\ Ends(s, j - l) /\ (j - l) + l = j
          /\ p \in PartsIn(T, At(s, j - l)) /\ j - l \in 1..m
      BY <1>7, <1>14, <2>1, <2>3
    <3>2. (p \in D /\ s.states[p] = "DONE") \/ \E i \in 1..((j - l) - 1) : At(s, i) = p
      BY <1>1, <1>4, <3>1 DEF WalkInv, Needed
    <3>3. CASE p \in D /\ s.states[p] = "DONE"
      BY <1>10, <1>11, <3>3
    <3>4. ASSUME NEW i \in 1..((j - l) - 1), At(s, i) = p
          PROVE  \E k \in 1..(j - 1) : At(s2, k) = p
      <4>1. CASE i = 1
        <5>1. l + 1 \in 1..(j - 1)
          BY <1>2, <2>1, <3>1
        <5> QED BY <1>1, <1>6, <3>4, <4>1, <5>1
      <4>2. CASE i # 1
        <5>1. i \in 2..m /\ i + l \in 1..(j - 1)
          BY <1>2, <2>1, <3>1, <3>4, <4>2
        <5> QED BY <1>7, <3>4, <5>1
      <4> QED BY <4>1, <4>2
    <3> QED BY <3>2, <3>3, <3>4
  <2> QED BY <2>2, <2>3
<1>18. Left(T, s2)
  <2>1. ASSUME NEW u \in D
        PROVE  s2.states[u] = "DONE" \/ \E i \in 1..(l + m) : At(s2, i) = u
    <3>1. s.states[u] = "DONE" \/ \E i \in 1..m : At(s, i) = u
      BY <1>1, <1>4 DEF WalkInv, Left
    <3>2. CASE u = t
      BY <1>6, <3>2
    <3>3. CASE u # t /\ s.states[u] = "DONE"
      BY <1>10, <3>3
    <3>4. ASSUME NEW i \in 1..m, At(s, i) = u, u # t
          PROVE  \E k \in 1..(l + m) : At(s2, k) = u
      <4>1. i \in 2..m
        BY <1>1, <1>9, <3>4
      <4> QED BY <1>7, <3>4, <4>1
    <3> QED BY <3>1, <3>2, <3>3, <3>4
  <2> QED BY <1>1, <1>4, <2>1 DEF Left
<1>19. LaidOut(T, s2)
  <2>1. ASSUME NEW u \in D, s2.states[u] = "DONE"
        PROVE  /\ s2.types[u] = LayoutOf(T[u], s2.types)
               /\ \A p \in PartsIn(T, u) : p \in DOMAIN T /\ s2.states[p] = "DONE"
    <3>1. s.states[u] = "DONE" /\ u # t
      BY <1>10, <2>1
    <3>2. /\ s.types[u] = LayoutOf(T[u], s.types)
          /\ \A p \in PartsIn(T, u) : p \in D /\ s.states[p] = "DONE"
      BY <1>1, <3>1 DEF WalkInv, LaidOut
    <3> QED BY <1>1, <1>10, <1>11, <3>2
  <2>2. ASSUME NEW u \in D, s2.states[u] # "PENDING" PROVE Named(T, T[u])
    BY <1>1, <1>10, <1>11, <2>2 DEF WalkInv, LaidOut
  <2> QED BY <1>1, <2>1, <2>2 DEF LaidOut
<1>20. Ranked(T, s2, n + 1)
  <2>1. PICK rank \in [D -> Nat] :
          \A u \in D : s.states[u] = "DONE" =>
            rank[u] < n /\ \A p \in PartsIn(T, u) : rank[p] < rank[u]
    BY <1>1 DEF WalkInv, Ranked
  <2>2. \A u \in D : s2.states[u] = "DONE" => s.states[u] = "DONE"
    BY <1>10
  <2>3. \A u \in D : rank[u] \in Nat /\ (rank[u] < n => rank[u] < n + 1)
    OBVIOUS
  <2> QED BY <1>1, <2>1, <2>2, <2>3 DEF Ranked
<1>21. s2.ok
  BY <1>11 DEF Over
<1>22. WalkInv(T, s2, n + 1)
  BY <1>12, <1>15, <1>16, <1>17, <1>18, <1>19, <1>20, <1>21 DEF WalkInv
<1> QED BY <1>1, <1>3, <1>22

\* A type met again while it is active is in every closed set that holds its parts: what
\* comes before the end of its call was met for a part of a part of it.
LEMMA MetAgain ==
  ASSUME NEW T, IsTable(T), NEW s, NEW n, WalkInv(T, s, n),
         NEW j \in Positions(s), Ends(s, j), NEW i \in 1..(j - 1),
         NEW types \in SUBSET Index, PartsIn(T, At(s, j)) \subseteq types, ClosedIn(T, types)
  PROVE  At(s, i) \in types
<1>1. j \in Nat /\ Positions(s) = 1..Len(s.todo) /\ Len(s.todo) \in Nat
  <2>1. Len(s.todo) \in Nat
    BY LenProperties DEF WalkInv, WalkType
  <2> QED BY <2>1 DEF Positions
<1> DEFINE Out == {k \in 0..(j - 2) : At(s, j - 1 - k) \notin types}
<1>2. SUFFICES ASSUME Out # {} PROVE FALSE
  <2>1. j - 1 - i \in 0..(j - 2) /\ j - 1 - (j - 1 - i) = i
    BY <1>1
  <2> QED BY <2>1
<1>3. PICK x \in Out : \A y \in Out : x <= y
  <2>1. Out \subseteq Nat
    BY <1>1
  <2> HIDE DEF Out
  <2> QED BY <1>2, <2>1, LeastNumber
<1>4. PICK c : c = j - 1 - x /\ c \in 1..(j - 1) /\ At(s, c) \notin types
  BY <1>1, <1>3
<1>5. PICK k \in (c + 1)..j : Ends(s, k) /\ At(s, c) \in PartsIn(T, At(s, k))
  BY <1>4 DEF WalkInv, Nested
<1>6. CASE k = j
  BY <1>4, <1>5, <1>6
<1>7. CASE k # j
  <2>1. k \in 1..(j - 1) /\ j - 1 - k \in 0..(j - 2) /\ j - 1 - (j - 1 - k) = k
        /\ ~(x <= j - 1 - k)
    BY <1>1, <1>3, <1>4, <1>5, <1>7
  <2>2. At(s, k) \in types
    BY <1>3, <2>1
  <2>3. At(s, k) \in DOMAIN T
    <3>1. k \in Positions(s)
      BY <1>1, <2>1
    <3> QED BY <1>5, <3>1 DEF WalkInv, Begun
  <2>4. PartsIn(T, At(s, k)) \subseteq types
    BY <2>2, <2>3 DEF ClosedIn
  <2> QED BY <1>4, <1>5, <2>4
<1> QED BY <1>6, <1>7

LEMMA RefusedWrong ==
  ASSUME NEW T, IsTable(T), NEW s, NEW n \in Nat, WalkInv(T, s, n), ~Over(s),
         NEW s2, WalkType(T, s2), Refuses(T, s, s2)
  PROVE  WalkInv(T, s2, n + 1) /\ ~s2.ok
<1>1. PICK t : t = At(s, 1)
  OBVIOUS
<1>2. 1 \in Positions(s)
  <2>1. Len(s.todo) \in Nat /\ Len(s.todo) >= 1
    BY Heads DEF WalkInv
  <2> QED BY <2>1 DEF Positions
<1>3. Wrong(T)
  <2>1. CASE t \notin DOMAIN T
    <3>1. PICK u \in DOMAIN T : t \in PartsIn(T, u)
      BY <1>1, <1>2, <2>1 DEF WalkInv, Known
    <3> QED BY <2>1, <3>1 DEF Wrong
  <2>2. CASE t \in DOMAIN T /\ ~Named(T, T[t])
    BY <2>2 DEF Wrong
  <2>3. CASE t \in DOMAIN T /\ s.states[t] = "ACTIVE"
    <3>1. PICK j \in Positions(s) : Ends(s, j) /\ At(s, j) = t
      BY <2>3 DEF WalkInv, Begun
    <3>2. 1 \in 1..(j - 1)
      <4>1. j # 1
        BY <3>1 DEF Refuses
      <4>2. j \in Int /\ j >= 1
        BY DEF Positions
      <4> QED BY <4>1, <4>2
    <3>3. \A types \in SUBSET Index :
            PartsIn(T, t) \subseteq types /\ ClosedIn(T, types) => t \in types
      BY <1>1, <3>1, <3>2, MetAgain
    <3>4. InItself(T, t)
      BY <3>3 DEF InItself
    <3> QED BY <2>3, <3>4 DEF Wrong
  <2> QED BY <1>1, <2>1, <2>2, <2>3 DEF Refuses
<1>4. /\ s2.todo = s.todo /\ s2.states = s.states /\ s2.types = s.types /\ ~s2.ok
  BY DEF Refuses, Refused, WalkInv, WalkType
<1>5. /\ Positions(s2) = Positions(s)
      /\ \A i : At(s2, i) = At(s, i) /\ (Ends(s2, i) <=> Ends(s, i))
  BY <1>4 DEF Positions, At, Ends
<1>6. Known(T, s2) /\ Left(T, s2)
  BY <1>4, <1>5 DEF WalkInv, Known, Left
<1>7. Begun(T, s2)
  BY <1>4, <1>5 DEF WalkInv, Begun
<1>8. Nested(T, s2)
  BY <1>4, <1>5 DEF WalkInv, Nested
<1>9. Needed(T, s2)
  BY <1>4, <1>5 DEF WalkInv, Needed
<1>10. LaidOut(T, s2)
  BY <1>4 DEF WalkInv, LaidOut
<1>11. Ranked(T, s2, n + 1)
  <2>1. PICK rank \in [DOMAIN T -> Nat] :
          \A u \in DOMAIN T : s.states[u] = "DONE" =>
            rank[u] < n /\ \A p \in PartsIn(T, u) : rank[p] < rank[u]
    BY DEF WalkInv, Ranked
  <2>2. \A u \in DOMAIN T : rank[u] \in Nat /\ (rank[u] < n => rank[u] < n + 1)
    OBVIOUS
  <2> QED BY <1>4, <2>1, <2>2 DEF Ranked
<1> QED BY <1>3, <1>4, <1>6, <1>7, <1>8, <1>9, <1>10, <1>11 DEF WalkInv

-----------------------------------------------------------------------------
(* The walk ends.                                                          *)

Waiting(T, s) == {t \in DOMAIN T : s.states[t] = "PENDING"}

\* What is to do and what the types that were not entered can add to it.
Budget(T, s) == (MostParts(T) + 2) * Cardinality(Waiting(T, s)) + Len(s.todo)

LEMMA PartsBounded ==
  ASSUME NEW T, IsTable(T)
  PROVE  /\ MostParts(T) \in Nat
         /\ \A t \in DOMAIN T : Len(PartsOf(T[t])) <= MostParts(T)
<1> DEFINE Lines == {DOMAIN PartsOf(T[t]) : t \in DOMAIN T}
<1>1. \A t \in DOMAIN T : /\ DOMAIN PartsOf(T[t]) = 1..Len(PartsOf(T[t]))
                          /\ Len(PartsOf(T[t])) \in Nat
  BY TableFacts, LenProperties
<1>2. IsFiniteSet(UNION Lines)
  <2>1. IsFiniteSet(DOMAIN T)
    BY TableFacts, FS_Interval
  <2>2. IsFiniteSet(Lines)
    <3>1. PICK f : f = [t \in DOMAIN T |-> DOMAIN PartsOf(T[t])]
      OBVIOUS
    <3>2. f \in Surjection(DOMAIN T, Lines)
      BY <3>1 DEF Surjection
    <3> HIDE DEF Lines
    <3> QED BY <2>1, <3>2, FS_Surjection
  <2>3. \A line \in Lines : IsFiniteSet(line)
    BY <1>1, FS_Interval
  <2> HIDE DEF Lines
  <2> QED BY <2>2, <2>3, FS_UNION
<1>3. MostParts(T) = Cardinality(UNION Lines)
  BY DEF MostParts
<1>4. MostParts(T) \in Nat
  BY <1>2, <1>3, FS_CardinalityType
<1>5. ASSUME NEW t \in DOMAIN T PROVE Len(PartsOf(T[t])) <= MostParts(T)
  <2>1. PICK l \in Nat : l = Len(PartsOf(T[t])) /\ DOMAIN PartsOf(T[t]) = 1..l
    BY <1>1
  <2>2. 1..l \subseteq UNION Lines
    BY <2>1
  <2>3. Cardinality(1..l) <= Cardinality(UNION Lines)
    <3> HIDE DEF Lines
    <3> QED BY <1>2, <2>2, FS_Subset
  <2>4. Cardinality(1..l) = l
    <3>1. 1 \in Int /\ l \in Int /\ (l = 0 \/ l >= 1)
      OBVIOUS
    <3>2. Cardinality(1..l) = IF 1 > l THEN 0 ELSE l - 1 + 1
      BY <3>1, FS_Interval
    <3> QED BY <3>1, <3>2
  <2> QED BY <1>3, <2>1, <2>3, <2>4
<1> QED BY <1>4, <1>5

LEMMA WaitingCounted ==
  ASSUME NEW T, IsTable(T), NEW s
  PROVE  IsFiniteSet(Waiting(T, s)) /\ Cardinality(Waiting(T, s)) \in Nat
<1>1. IsFiniteSet(DOMAIN T)
  BY TableFacts, FS_Interval
<1>2. Waiting(T, s) \subseteq DOMAIN T
  BY DEF Waiting
<1>3. IsFiniteSet(Waiting(T, s))
  BY <1>1, <1>2, FS_Subset
<1> QED BY <1>3, FS_CardinalityType

\* Every step uses some of the budget.
LEMMA StepCosts ==
  ASSUME NEW T, IsTable(T), NEW s, NEW n \in Nat, WalkInv(T, s, n), ~Over(s),
         NEW s2, WalkType(T, s2), Drops(T, s, s2) \/ Begins(T, s, s2)
  PROVE  Budget(T, s2) \in Nat /\ Budget(T, s) \in Nat /\ Budget(T, s2) < Budget(T, s)
<1>1. PICK t, m, k, c, c2 :
        /\ t = At(s, 1) /\ m = Len(s.todo) /\ k = MostParts(T)
        /\ c = Cardinality(Waiting(T, s)) /\ c2 = Cardinality(Waiting(T, s2))
  OBVIOUS
<1>2. /\ m \in Nat /\ m >= 1 /\ k \in Nat /\ c \in Nat /\ c2 \in Nat
      /\ IsFiniteSet(Waiting(T, s)) /\ IsFiniteSet(Waiting(T, s2))
  BY <1>1, Heads, PartsBounded, WaitingCounted DEF WalkInv
<1>3. (k + 2) * c \in Nat /\ (k + 2) * c2 \in Nat
  BY <1>2
<1>4. CASE Drops(T, s, s2)
  <2>1. Len(s2.todo) = m - 1
    BY <1>1, <1>4, Heads DEF WalkInv, Drops
  <2>2. Waiting(T, s2) \subseteq Waiting(T, s)
    BY <1>4 DEF Drops, Waiting, WalkInv, WalkType
  <2>3. c2 <= c
    BY <1>1, <1>2, <2>2, FS_Subset
  <2>4. (k + 2) * c2 <= (k + 2) * c
    BY <1>2, <2>3
  <2>5. PICK a, b : a = (k + 2) * c2 /\ b = (k + 2) * c
    OBVIOUS
  <2>6. Budget(T, s2) = a + (m - 1) /\ Budget(T, s) = b + m
    BY <1>1, <2>1, <2>5 DEF Budget
  <2> QED BY <1>2, <1>3, <2>4, <2>5, <2>6
<1>5. CASE Begins(T, s, s2)
  <2>1. PICK l : l = Len(PartsOf(T[t])) /\ l \in Nat /\ l <= k
    <3>1. t \in DOMAIN T
      BY <1>1, <1>5 DEF Begins
    <3>2. PartsOf(T[t]) \in Seq(Index)
      BY <3>1, TableFacts
    <3> QED BY <1>1, <3>1, <3>2, PartsBounded, LenProperties
  <2>2. Len(s2.todo) = l + m
    BY <1>1, <1>5, <2>1, Entered
  <2>3. Waiting(T, s2) = Waiting(T, s) \ {t} /\ t \in Waiting(T, s)
    BY <1>1, <1>5 DEF Begins, Waiting, WalkInv, WalkType
  <2>4. c2 = c - 1
    BY <1>1, <1>2, <2>3, FS_RemoveElement
  <2>5. (k + 2) * c2 = (k + 2) * c - (k + 2)
    BY <1>2, <2>4
  <2>6. PICK a, b : a = (k + 2) * c2 /\ b = (k + 2) * c
    OBVIOUS
  <2>7. Budget(T, s2) = a + (l + m) /\ Budget(T, s) = b + m
    BY <1>1, <2>2, <2>6 DEF Budget
  <2> QED BY <1>2, <1>3, <2>1, <2>5, <2>6, <2>7
<1> QED BY <1>4, <1>5

IsOrder(T, order) == order \in Seq(DOMAIN T) /\ DOMAIN T \subseteq Range(order)

LEMMA Started ==
  ASSUME NEW T, IsTable(T), NEW order, IsOrder(T, order)
  PROVE  LET s == Pending(T, order)
         IN  /\ WalkInv(T, s, 0) /\ s.ok
             /\ Budget(T, s) = MostSteps(T, order) /\ MostSteps(T, order) \in Nat
<1>1. PICK s : s = Pending(T, order)
  OBVIOUS
<1>2. PICK m \in Nat : m = Len(order) /\ DOMAIN order = 1..m
  BY LenProperties DEF IsOrder
<1>3. \A i \in 1..m : order[i] \in DOMAIN T /\ order[i] \in Index
  BY <1>2, TableFacts DEF IsOrder
<1>4. /\ s.ok = TRUE /\ s.todo = Entering(order)
      /\ s.states = [t \in DOMAIN T |-> "PENDING"]
      /\ s.types = [t \in DOMAIN T |-> NoFields]
      /\ s.sizes = [t \in DOMAIN T |-> 0]
  BY <1>1 DEF Pending
<1>5. Entering(order) = [i \in 1..m |-> Enter(order[i])]
  BY <1>2 DEF Entering
<1>6. Entering(order) \in Seq(Jobs) /\ Len(Entering(order)) = m
  <2>1. \A i \in 1..m : Enter(order[i]) \in Jobs
    BY <1>3 DEF Enter, Jobs
  <2> QED BY <1>2, <1>5, <2>1
<1>7. WalkType(T, s)
  <2>1. /\ s.states \in [DOMAIN T -> Marks] /\ s.types \in [DOMAIN T -> Layouts]
        /\ s.sizes \in [DOMAIN T -> Nat]
    BY <1>4, LayoutsFit DEF Marks
  <2>2. s = [ok |-> s.ok, todo |-> s.todo, states |-> s.states, types |-> s.types,
             sizes |-> s.sizes]
    BY <1>1 DEF Pending
  <2>3. s.ok \in BOOLEAN /\ s.todo \in Seq(Jobs)
    BY <1>4, <1>6
  <2> QED BY ONLY <2>1, <2>2, <2>3 DEF WalkType
<1>8. /\ Positions(s) = 1..m
      /\ \A i \in 1..m : At(s, i) = order[i] /\ ~Ends(s, i)
  <2>1. \A i \in 1..m : s.todo[i] = Enter(order[i])
    BY <1>4, <1>5
  <2> QED BY <1>4, <1>6, <2>1 DEF Positions, At, Ends, Enter
<1>9. \A t \in DOMAIN T : s.states[t] = "PENDING"
  BY <1>4
<1>10. Known(T, s) /\ Begun(T, s) /\ Nested(T, s) /\ Needed(T, s) /\ LaidOut(T, s)
  BY <1>3, <1>8, <1>9 DEF Known, Begun, Nested, Needed, LaidOut
<1>11. Left(T, s)
  BY <1>2, <1>8 DEF Left, IsOrder, Range
<1>12. Ranked(T, s, 0)
  <2>1. [t \in DOMAIN T |-> 0] \in [DOMAIN T -> Nat]
    OBVIOUS
  <2> QED BY <1>9, <2>1 DEF Ranked
<1>13. Waiting(T, s) = DOMAIN T
  BY <1>9 DEF Waiting
<1>14. PICK c \in Nat : c = Cardinality(DOMAIN T) /\ c = Cardinality(Waiting(T, s))
  BY <1>13, WaitingCounted
<1>15. PICK k \in Nat : k = MostParts(T)
  BY PartsBounded
<1>16. Budget(T, s) = (k + 2) * c + m /\ MostSteps(T, order) = m + c * (k + 2)
  BY <1>2, <1>4, <1>6, <1>14, <1>15 DEF Budget, MostSteps
<1>17. (k + 2) * c + m = m + c * (k + 2) /\ m + c * (k + 2) \in Nat
  OBVIOUS
<1> QED BY <1>1, <1>4, <1>7, <1>10, <1>11, <1>12, <1>16, <1>17 DEF WalkInv

\* The states of the walk after 0 to n steps.
Walks(T, order, after, n) ==
  after = [i \in 0..n |-> IF i = 0 THEN Pending(T, order)
             ELSE IF Over(after[i - 1]) THEN after[i - 1] ELSE Step(T, after[i - 1])]

LEMMA WalksExist ==
  ASSUME NEW T, NEW order
  PROVE  \A n \in Nat : \E after : Walks(T, order, after, n)
<1> DEFINE Good == {n \in Nat : \E after : Walks(T, order, after, n)}
           Follow(s) == IF Over(s) THEN s ELSE Step(T, s)
<1>1. 0 \in Good
  <2> DEFINE after == [i \in 0..0 |-> Pending(T, order)]
  <2>1. Walks(T, order, after, 0)
    BY DEF Walks
  <2> QED BY <2>1
<1>2. ASSUME NEW n \in Nat, n \in Good PROVE n + 1 \in Good
  <2>1. PICK f : Walks(T, order, f, n)
    BY <1>2
  <2> DEFINE g == [i \in 0..(n + 1) |-> IF i = n + 1 THEN Follow(f[n]) ELSE f[i]]
             h(i) == IF i = 0 THEN Pending(T, order) ELSE Follow(g[i - 1])
  <2> HIDE DEF Follow
  <2>2. f = [i \in 0..n |-> IF i = 0 THEN Pending(T, order) ELSE Follow(f[i - 1])]
    BY <2>1 DEF Walks, Follow
  <2>3. ASSUME NEW i \in 0..(n + 1) PROVE g[i] = h(i)
    <3>1. CASE i = n + 1
      BY <3>1
    <3>2. CASE i \in 0..n
      <4>1. g[i] = f[i] /\ (i # 0 => g[i - 1] = f[i - 1])
        BY <3>2
      <4>2. f[i] = IF i = 0 THEN Pending(T, order) ELSE Follow(f[i - 1])
        BY <2>2, <3>2
      <4> QED BY <4>1, <4>2
    <3> QED BY <3>1, <3>2
  <2>4. g = [i \in 0..(n + 1) |-> h(i)]
    BY <2>3
  <2>5. PICK after : after = [i \in 0..(n + 1) |->
                                IF i = 0 THEN Pending(T, order) ELSE Follow(after[i - 1])]
    BY <2>4
  <2>6. Walks(T, order, after, n + 1)
    BY <2>5 DEF Walks, Follow
  <2> QED BY <2>6
<1> HIDE DEF Good
<1>3. \A n \in Nat : n \in Good
  BY <1>1, <1>2, Induction
<1> QED BY <1>3 DEF Good

LEMMA Longer ==
  ASSUME NEW T, NEW s, NEW n \in Nat, WalkInv(T, s, n)
  PROVE  WalkInv(T, s, n + 1)
<1>1. PICK rank \in [DOMAIN T -> Nat] :
        \A t \in DOMAIN T : s.states[t] = "DONE" =>
          rank[t] < n /\ \A p \in PartsIn(T, t) : rank[p] < rank[t]
  BY DEF WalkInv, Ranked
<1>2. \A t \in DOMAIN T : rank[t] \in Nat /\ (rank[t] < n => rank[t] < n + 1)
  OBVIOUS
<1>3. Ranked(T, s, n + 1)
  BY <1>1, <1>2 DEF Ranked
<1> QED BY <1>3 DEF WalkInv

\* The walk is over after the steps it is given, and its invariant holds.
LEMMA WalkEnds ==
  ASSUME NEW T, IsTable(T), NEW order, IsOrder(T, order)
  PROVE  LET s == Walk(T, order) IN Over(s) /\ \E n \in Nat : WalkInv(T, s, n)
<1>1. PICK most \in Nat : most = MostSteps(T, order)
  BY Started
<1>2. PICK after : Walks(T, order, after, most) /\ Walk(T, order) = after[most]
  <2> DEFINE f == CHOOSE f : f = [n \in 0..MostSteps(T, order) |->
                    IF n = 0 THEN Pending(T, order)
                    ELSE IF Over(f[n - 1]) THEN f[n - 1] ELSE Step(T, f[n - 1])]
  <2>1. \E g : g = [n \in 0..MostSteps(T, order) |->
                    IF n = 0 THEN Pending(T, order)
                    ELSE IF Over(g[n - 1]) THEN g[n - 1] ELSE Step(T, g[n - 1])]
    <3>1. \E g : Walks(T, order, g, most)
      BY WalksExist
    <3> QED BY <1>1, <3>1 DEF Walks
  <2>2. Walks(T, order, f, most)
    BY <1>1, <2>1 DEF Walks
  <2>3. Walk(T, order) = f[most]
    BY <1>1 DEF Walk
  <2> QED BY <2>2, <2>3
<1> DEFINE Good == {i \in Nat : i <= most =>
                      /\ WalkInv(T, after[i], i)
                      /\ Over(after[i]) \/ Budget(T, after[i]) + i <= most}
<1>3. 0 \in Good
  <2>1. after[0] = Pending(T, order)
    BY <1>2 DEF Walks
  <2>2. WalkInv(T, after[0], 0) /\ Budget(T, after[0]) + 0 <= most
    BY <1>1, <2>1, Started
  <2> QED BY <2>2
<1>4. ASSUME NEW i \in Nat, i \in Good PROVE i + 1 \in Good
  <2>1. SUFFICES ASSUME i + 1 <= most
                 PROVE  /\ WalkInv(T, after[i + 1], i + 1)
                        /\ \/ Over(after[i + 1])
                           \/ Budget(T, after[i + 1]) + (i + 1) <= most
    OBVIOUS
  <2>2. PICK s, s2 : s = after[i] /\ s2 = after[i + 1]
    OBVIOUS
  <2>3. WalkInv(T, s, i) /\ (Over(s) \/ Budget(T, s) + i <= most)
    BY <1>4, <2>1, <2>2
  <2>4. s2 = IF Over(s) THEN s ELSE Step(T, s)
    <3>1. i + 1 \in 0..most /\ i + 1 # 0 /\ (i + 1) - 1 = i
      BY <2>1
    <3> QED BY <1>2, <2>2, <3>1 DEF Walks
  <2>5. CASE Over(s)
    <3>1. WalkInv(T, s, i + 1)
      BY <2>3, Longer
    <3> QED BY <2>2, <2>4, <2>5, <3>1
  <2>6. CASE ~Over(s)
    <3>1. s2 = Step(T, s)
      BY <2>4, <2>6
    <3>2. WalkType(T, s2) /\ (Drops(T, s, s2) \/ Begins(T, s, s2) \/ Refuses(T, s, s2))
      BY <2>3, <2>6, <3>1, Steps
    <3>3. CASE Refuses(T, s, s2)
      <4>1. WalkInv(T, s2, i + 1) /\ ~s2.ok
        BY <2>3, <2>6, <3>2, <3>3, RefusedWrong
      <4> QED BY <2>2, <4>1 DEF Over
    <3>4. CASE Drops(T, s, s2) \/ Begins(T, s, s2)
      <4>1. WalkInv(T, s2, i + 1)
        BY <2>3, <2>6, <3>2, <3>4, Dropped, Entered
      <4>2. PICK a, b : a = Budget(T, s2) /\ b = Budget(T, s)
        OBVIOUS
      <4>3. a \in Nat /\ b \in Nat /\ a < b
        BY <2>3, <2>6, <3>2, <3>4, <4>2, StepCosts
      <4>4. b + i <= most
        BY <2>3, <2>6, <4>2
      <4>5. a + (i + 1) <= most
        BY <4>3, <4>4
      <4> QED BY <2>2, <4>1, <4>2, <4>5
    <3> QED BY <3>2, <3>3, <3>4
  <2> QED BY <2>5, <2>6
<1> HIDE DEF Good
<1>5. most \in Good
  BY <1>3, <1>4, Induction
<1>6. PICK s : s = after[most]
  OBVIOUS
<1>7. WalkInv(T, s, most) /\ (Over(s) \/ Budget(T, s) + most <= most)
  BY <1>5, <1>6 DEF Good
<1>8. Over(s)
  <2> SUFFICES ASSUME ~Over(s) PROVE FALSE
    OBVIOUS
  <2>1. PICK m, a : /\ m = Len(s.todo) /\ m \in Nat /\ m >= 1
                    /\ a = (MostParts(T) + 2) * Cardinality(Waiting(T, s)) /\ a \in Nat
    <3>1. Len(s.todo) \in Nat /\ Len(s.todo) >= 1
      BY <1>7, Heads DEF WalkInv
    <3>2. (MostParts(T) + 2) * Cardinality(Waiting(T, s)) \in Nat
      BY PartsBounded, WaitingCounted
    <3> QED BY <3>1, <3>2
  <2>2. (a + m) + most <= most
    BY <1>7, <2>1 DEF Budget
  <2> QED BY <2>1, <2>2
<1> QED BY <1>2, <1>6, <1>7, <1>8

\* A table is refused only if it is wrong; otherwise every type of it is laid out.
LEMMA AllDone ==
  ASSUME NEW T, IsTable(T)
  PROVE  LET s == type_layout_all(T, [i \in DOMAIN T |-> i])
         IN  /\ WalkType(T, s) /\ LaidOut(T, s) /\ (\E n \in Nat : Ranked(T, s, n))
             /\ s.ok => \A t \in DOMAIN T : s.states[t] = "DONE"
             /\ ~s.ok => Wrong(T)
<1>1. PICK order : order = [i \in DOMAIN T |-> i]
  OBVIOUS
<1>2. IsOrder(T, order)
  <2>1. DOMAIN T = 1..Len(T) /\ Len(T) \in Nat
    BY TableFacts
  <2>2. order \in Seq(DOMAIN T)
    BY <1>1, <2>1
  <2>3. \A i \in DOMAIN T : i = order[i] /\ i \in DOMAIN order
    BY <1>1
  <2> QED BY <2>2, <2>3 DEF IsOrder, Range
<1>3. PICK s : s = Walk(T, order)
  OBVIOUS
<1>4. type_layout_all(T, order) = s
  <2>1. DOMAIN T = 1..Len(T) /\ Len(T) \in Nat /\ Len(T) >= 2
    BY BoundsAssumption DEF IsTable
  <2>2. Len(order) = Len(T) /\ order[1] = 1 /\ order[2] = 2
    BY <1>1, <2>1
  <2> QED BY <1>3, <2>1, <2>2 DEF type_layout_all, IsTable
<1>5. PICK n \in Nat : WalkInv(T, s, n) /\ Over(s)
  BY <1>2, <1>3, WalkEnds
<1>6. ASSUME s.ok PROVE \A t \in DOMAIN T : s.states[t] = "DONE"
  <2>1. s.todo = <<>>
    BY <1>5, <1>6 DEF Over
  <2>2. Positions(s) = {}
    BY <2>1 DEF Positions
  <2> QED BY <1>5, <2>2 DEF WalkInv, Left
<1>7. /\ WalkType(T, s) /\ LaidOut(T, s) /\ Ranked(T, s, n)
      /\ ~s.ok => Wrong(T)
  BY <1>5 DEF WalkInv
<1> QED BY <1>1, <1>4, <1>6, <1>7

-----------------------------------------------------------------------------
(* Type tables.                                                            *)

TableInv == IsTable(table)

LEMMA TablesGrow == Spec => []TableInv
<1>1. Init => TableInv
  <2> SUFFICES ASSUME Init PROVE TableInv
    OBVIOUS
  <2>1. [kind |-> "INT"] \in AllTypes /\ [kind |-> "BYTE"] \in AllTypes
    BY DEF AllTypes
  <2>2. table \in Seq(AllTypes) /\ Len(table) = 2 /\ table[1].kind = "INT"
        /\ table[2].kind = "BYTE"
    BY <2>1 DEF Init
  <2> QED BY <2>2, BoundsAssumption DEF TableInv, IsTable
<1>2. TableInv /\ [Next]_table => TableInv'
  <2> SUFFICES ASSUME TableInv, [Next]_table PROVE TableInv'
    OBVIOUS
  <2>1. CASE UNCHANGED table
    BY <2>1 DEF TableInv
  <2>2. CASE AddType
    <3>1. PICK type \in UserTypes : table' = Append(table, type)
      BY <2>2 DEF AddType
    <3>2. type \in AllTypes
      BY DEF AllTypes
    <3>3. table \in Seq(AllTypes) /\ Len(table) \in 2..MaxTypes /\ Len(table) < MaxTypes
      BY <2>2 DEF TableInv, IsTable, AddType
    <3>4. /\ table' \in Seq(AllTypes) /\ Len(table') = Len(table) + 1
          /\ \A i \in 1..Len(table) : table'[i] = table[i]
      BY <3>1, <3>2, <3>3, AppendProperties
    <3>5. Len(table') \in 2..MaxTypes /\ 1 \in 1..Len(table) /\ 2 \in 1..Len(table)
      BY <3>3, <3>4, BoundsAssumption
    <3> QED BY <3>4, <3>5 DEF TableInv, IsTable
  <2> QED BY <2>1, <2>2 DEF Next
<1> QED BY <1>1, <1>2, PTL DEF Spec

LEMMA LaidFacts ==
  ASSUME TableInv
  PROVE  /\ DOMAIN table \subseteq Index
         /\ \A t \in DOMAIN table : table[t] \in AllTypes /\ Parts(t) = PartsIn(table, t)
         /\ WalkType(table, Laid) /\ (\E n \in Nat : Ranked(table, Laid, n))
         /\ ~Laid.ok => Wrong(table)
         /\ Laid.ok => \A t \in DOMAIN table :
              /\ Laid.states[t] = "DONE" /\ Named(table, table[t])
              /\ Parts(t) \subseteq DOMAIN table
              /\ Layout(t) \in Layouts /\ Layout(t) = LayoutOf(table[t], Laid.types)
<1>1. IsTable(table)
  BY DEF TableInv
<1>2. /\ WalkType(table, Laid) /\ LaidOut(table, Laid)
      /\ (\E n \in Nat : Ranked(table, Laid, n))
      /\ Laid.ok => \A t \in DOMAIN table : Laid.states[t] = "DONE"
      /\ ~Laid.ok => Wrong(table)
  BY <1>1, AllDone DEF Laid
<1>3. /\ DOMAIN table \subseteq Index
      /\ \A t \in DOMAIN table : table[t] \in AllTypes
  BY <1>1, TableFacts
<1>4. \A t : Parts(t) = PartsIn(table, t)
  BY DEF Parts, PartsIn
<1>5. \A t \in DOMAIN table : Layout(t) \in Layouts
  BY <1>2 DEF WalkType, Layout
<1>6. ASSUME Laid.ok, NEW t \in DOMAIN table
      PROVE  /\ Laid.states[t] = "DONE" /\ Named(table, table[t])
             /\ Parts(t) \subseteq DOMAIN table
             /\ Layout(t) = LayoutOf(table[t], Laid.types)
  <2>1. Laid.states[t] = "DONE"
    BY <1>2, <1>6
  <2>2. Laid.states[t] # "PENDING"
    BY <2>1
  <2> QED BY <1>2, <1>4, <2>1, <2>2 DEF LaidOut, Layout
<1> QED BY <1>2, <1>3, <1>4, <1>5, <1>6

\* Whatever table is built, the walk refuses it exactly if a type needs its own layout or
\* names an index that is none (ir.c:38, 40).
THEOREM RecursionRefused == Spec => []RefusesRecursion
<1>1. ASSUME TableInv PROVE RefusesRecursion
  <2>1. \A t \in DOMAIN table : t \in AllParts(t) <=> InItself(table, t)
    BY <1>1, LaidFacts DEF AllParts, InItself, Closed, ClosedIn
  <2>2. \A t \in DOMAIN table :
          Names(t) \subseteq DOMAIN table <=>
            Named(table, table[t]) /\ Parts(t) \subseteq DOMAIN table
    <3>1. SUFFICES ASSUME NEW t \in DOMAIN table
                   PROVE  Names(t) \subseteq DOMAIN table <=>
                            Named(table, table[t]) /\ Parts(t) \subseteq DOMAIN table
      OBVIOUS
    <3>2. table[t] \in AllTypes
      BY <1>1, LaidFacts
    <3>3. CASE table[t].kind = "NATIVE_FUNC_POINTER"
      <4>1. Parts(t) = {} /\ Range(table[t].outs) = {}
        BY <3>2, <3>3, TypeFacts DEF Parts, Range
      <4>2. Names(t) = Range(table[t].ins)
        BY <3>3 DEF Names, ToSet, Range
      <4> QED BY <3>3, <4>1, <4>2 DEF Named
    <3>4. CASE table[t].kind # "NATIVE_FUNC_POINTER"
      BY <3>4 DEF Names, Named
    <3> QED BY <3>3, <3>4
  <2>3. ASSUME ~Laid.ok
        PROVE  \E t \in DOMAIN table : ~(Names(t) \subseteq DOMAIN table) \/ t \in AllParts(t)
    <3>1. \A t \in DOMAIN table : Parts(t) = PartsIn(table, t)
      BY <1>1, LaidFacts
    <3> QED BY <1>1, <2>1, <2>2, <2>3, <3>1, LaidFacts DEF Wrong
  <2>4. ASSUME Laid.ok, NEW t \in DOMAIN table
        PROVE  Names(t) \subseteq DOMAIN table /\ t \notin AllParts(t)
    <3>1. Named(table, table[t]) /\ \A u \in DOMAIN table : Parts(u) \subseteq DOMAIN table
      BY <1>1, <2>4, LaidFacts
    <3>2. PICK n \in Nat, rank \in [DOMAIN table -> Nat] :
            \A u \in DOMAIN table : Laid.states[u] = "DONE" =>
              rank[u] < n /\ \A p \in PartsIn(table, u) : rank[p] < rank[u]
      BY <1>1, LaidFacts DEF Ranked
    <3>3. \A u \in DOMAIN table : \A p \in Parts(u) : p \in DOMAIN table /\ rank[p] < rank[u]
      BY <1>1, <2>4, <3>1, <3>2, LaidFacts
    <3>4. PICK lower : lower = {p \in DOMAIN table : rank[p] < rank[t]}
      OBVIOUS
    <3>5. lower \in SUBSET Index /\ Parts(t) \subseteq lower /\ t \notin lower
      BY <1>1, <3>3, <3>4, LaidFacts
    <3>6. Closed(lower)
      <4>1. ASSUME NEW u \in lower \cap DOMAIN table, NEW p \in Parts(u) PROVE p \in lower
        <5>1. p \in DOMAIN table /\ rank[p] < rank[u] /\ rank[u] < rank[t]
          BY <3>3, <3>4, <4>1
        <5>2. rank[p] \in Nat /\ rank[u] \in Nat /\ rank[t] \in Nat
          BY <5>1, <4>1
        <5> QED BY <3>4, <5>1, <5>2
      <4> QED BY <4>1 DEF Closed
    <3>7. t \notin AllParts(t)
      BY <3>5, <3>6 DEF AllParts
    <3> QED BY <2>2, <3>1, <3>7
  <2> QED BY <2>3, <2>4 DEF RefusesRecursion
<1> QED BY <1>1, TablesGrow, PTL

\* In a table that is laid out fields are aligned, apart and inside their struct, and
\* elements are behind the length and inside their array (ir.c:63, 90).
THEOREM LayoutsKeepParts == Spec => []PartsFit
<1>1. ASSUME TableInv, Laid.ok, NEW t \in DOMAIN table, table[t].kind = "STRUCT"
      PROVE  FieldsIn(t)
  <2>1. PICK fields, f, n, types, layout :
          /\ f = table[t].fields /\ n = Len(f) /\ types = Laid.types /\ layout = Layout(t)
          /\ fields = [i \in DOMAIN f |-> types[f[i]]]
    OBVIOUS
  <2>2. table[t] \in AllTypes
    BY <1>1, LaidFacts
  <2>3. f \in Seq(Index) /\ n \in Nat /\ DOMAIN f = 1..n /\ Range(f) = Parts(t)
    BY <1>1, <2>1, <2>2, TypeFacts, LenProperties DEF Parts
  <2>4. \A i \in 1..n : fields[i] = Layout(f[i]) /\ Fits(fields[i])
    <3>1. \A i \in 1..n : f[i] \in DOMAIN table
      BY <1>1, <2>3, LaidFacts DEF Range
    <3>2. \A i \in 1..n : fields[i] = Layout(f[i])
      BY <2>1, <2>3 DEF Layout
    <3>3. \A i \in 1..n : Layout(f[i]) \in Layouts
      BY <1>1, <3>1, LaidFacts
    <3> QED BY <3>2, <3>3, LayoutsFit
  <2>5. Placed(fields, layout, n)
    <3>1. layout = LayoutOf(table[t], types)
      BY <1>1, <2>1, LaidFacts
    <3>2. layout = StructOf(fields)
      BY <1>1, <2>1, <3>1 DEF LayoutOf
    <3>3. Len(fields) = n
      BY <2>1, <2>3
    <3> QED BY <2>4, <3>2, <3>3, StructsFit
  <2>6. \A i \in 1..n :
          /\ layout.offsets[i] % fields[i].align = 0
          /\ fields[i].align <= layout.align
          /\ layout.offsets[i] + fields[i].payload_size <= layout.payload_size
          /\ \A k \in 1..n :
               i < k => layout.offsets[i] + fields[i].payload_size <= layout.offsets[k]
    BY <2>5 DEF Placed
  <2>7. \A i \in 1..n : layout.align % fields[i].align = 0
    <3>1. layout.align \in Aligns /\ \A i \in 1..n : fields[i].align \in Aligns
      BY <2>4, <2>5 DEF Placed, Fits
    <3> QED BY <2>6, <3>1, AlignsDivide
  <2> QED BY <2>1, <2>3, <2>4, <2>6, <2>7 DEF FieldsIn
<1>2. ASSUME TableInv, Laid.ok, NEW t \in DOMAIN table, table[t].kind = "ARRAY"
      PROVE  ElementsIn(t)
  <2>1. PICK elem, capacity, layout :
          /\ elem = Layout(table[t].elem) /\ capacity = table[t].capacity /\ layout = Layout(t)
    OBVIOUS
  <2>2. table[t] \in AllTypes
    BY <1>2, LaidFacts
  <2>3. capacity \in Nat /\ Parts(t) = {table[t].elem}
    BY <1>2, <2>1, <2>2, TypeFacts DEF Parts, Range
  <2>4. Fits(elem)
    BY <1>2, <2>1, <2>3, LaidFacts, LayoutsFit
  <2>5. layout = ArrayOf(elem, capacity)
    BY <1>2, <2>1, LaidFacts DEF LayoutOf, Layout
  <2>6. /\ layout.data_offset >= CountSize
        /\ layout.data_offset + capacity * elem.payload_size <= layout.payload_size
    BY <2>3, <2>4, <2>5, ArraysFit
  <2> QED BY <2>1, <2>6 DEF ElementsIn
<1>3. TableInv => PartsFit
  BY <1>1, <1>2 DEF PartsFit
<1> QED BY <1>3, TablesGrow, PTL

\* In a table that is laid out a type is a portal exactly if a slice or a view is inside
\* of it (ir.c:61, 73, 89).
THEOREM PortalsFound == Spec => []PortalsMarked
<1>1. ASSUME TableInv, Laid.ok, NEW t \in DOMAIN table
      PROVE  /\ Direct(t) \subseteq DOMAIN table
             /\ t \in Inside(t)
             /\ \A p \in Direct(t) : Inside(p) \subseteq Inside(t)
             /\ table[t].kind \in {"SLICE", "VIEW"} => Layout(t).portal
             /\ table[t].kind \notin {"SLICE", "VIEW"} =>
                  (Layout(t).portal <=> \E p \in Direct(t) : Layout(p).portal)
  <2>1. Parts(t) \subseteq DOMAIN table /\ t \in Index /\ table[t] \in AllTypes
    BY <1>1, LaidFacts
  <2>2. Direct(t) \subseteq Parts(t)
    BY DEF Direct
  <2>3. t \in Inside(t)
    BY <2>1 DEF Inside
  <2>4. \A p \in Direct(t) : Inside(p) \subseteq Inside(t)
    <3>1. ASSUME NEW p \in Direct(t), NEW q \in Inside(p), NEW types \in SUBSET Index,
                 t \in types, DirectlyClosed(types)
          PROVE  q \in types
      <4>1. p \in types
        BY <1>1, <3>1 DEF DirectlyClosed
      <4> QED BY <3>1, <4>1 DEF Inside
    <3>2. \A p : Inside(p) \subseteq Index
      BY DEF Inside
    <3> QED BY <3>1, <3>2 DEF Inside
  <2>5. \A p \in Range(PartsOf(table[t])) : Laid.types[p] \in Layouts
    BY <1>1, <2>1, LaidFacts DEF Parts, Layout
  <2>6. Layout(t) = LayoutOf(table[t], Laid.types)
    BY <1>1, LaidFacts
  <2>7. table[t].kind \in {"SLICE", "VIEW"} => Layout(t).portal
    BY <2>1, <2>5, <2>6, LayoutFits
  <2>8. table[t].kind \notin {"SLICE", "VIEW"} =>
          (Layout(t).portal <=> \E p \in Direct(t) : Layout(p).portal)
    BY <2>1, <2>5, <2>6, LayoutFits DEF Direct, Parts, Layout
  <2> QED BY <2>1, <2>2, <2>3, <2>4, <2>7, <2>8
<1>2. ASSUME TableInv, Laid.ok, NEW t \in DOMAIN table, Layout(t).portal
      PROVE  \E p \in Inside(t) : table[p].kind \in {"SLICE", "VIEW"}
  <2>1. PICK n \in Nat, rank \in [DOMAIN table -> Nat] :
          \A u \in DOMAIN table : Laid.states[u] = "DONE" =>
            rank[u] < n /\ \A p \in PartsIn(table, u) : rank[p] < rank[u]
    BY <1>2, LaidFacts DEF Ranked
  <2>2. \A u \in DOMAIN table : \A p \in Direct(u) : p \in DOMAIN table /\ rank[p] < rank[u]
    BY <1>1, <1>2, <2>1, LaidFacts DEF Direct
  <2> DEFINE Bare(u) == /\ Layout(u).portal
                        /\ \A p \in Inside(u) : table[p].kind \notin {"SLICE", "VIEW"}
             Ranks == {rank[u] : u \in {v \in DOMAIN table : Bare(v)}}
  <2>3. SUFFICES ASSUME Ranks # {} PROVE FALSE
    BY <1>2
  <2>4. PICK least \in Ranks : \A x \in Ranks : least <= x
    <3>1. Ranks \subseteq Nat
      OBVIOUS
    <3> HIDE DEF Ranks
    <3> QED BY <2>3, <3>1, LeastNumber
  <2>5. PICK u \in DOMAIN table : rank[u] = least /\ Bare(u)
    BY <2>4
  <2>6. table[u].kind \notin {"SLICE", "VIEW"}
    BY <1>1, <1>2, <2>5
  <2>7. PICK p \in Direct(u) : Layout(p).portal
    BY <1>1, <1>2, <2>5, <2>6
  <2>8. p \in DOMAIN table /\ rank[p] < rank[u] /\ Inside(p) \subseteq Inside(u)
    BY <1>1, <1>2, <2>2
  <2>9. Bare(p)
    BY <2>5, <2>7, <2>8
  <2>10. least <= rank[p] /\ rank[p] \in Nat /\ rank[u] \in Nat
    BY <2>4, <2>8, <2>9
  <2> QED BY <2>5, <2>8, <2>10
<1>3. ASSUME TableInv, Laid.ok, NEW t \in DOMAIN table, ~Layout(t).portal
      PROVE  ~ \E p \in Inside(t) : table[p].kind \in {"SLICE", "VIEW"}
  <2>1. PICK plain : plain = {u \in DOMAIN table : ~Layout(u).portal}
    OBVIOUS
  <2>2. plain \in SUBSET Index /\ t \in plain
    BY <1>3, <2>1, LaidFacts
  <2>3. \A u \in plain : u \in DOMAIN table /\ table[u].kind \notin {"SLICE", "VIEW"}
    BY <1>1, <1>3, <2>1
  <2>4. DirectlyClosed(plain)
    <3>1. \A u \in plain : Direct(u) \subseteq plain
      BY <1>1, <1>3, <2>1, <2>3
    <3> QED BY <3>1 DEF DirectlyClosed
  <2>5. Inside(t) \subseteq plain
    BY <2>2, <2>4 DEF Inside
  <2> QED BY <2>3, <2>5
<1>4. TableInv => PortalsMarked
  BY <1>2, <1>3 DEF PortalsMarked
<1> QED BY <1>4, TablesGrow, PTL
=============================================================================
