------------------------------- MODULE Layout -------------------------------
(***************************************************************************)
(* type_layout_all (src/ir.c): sizes, alignments and offsets of the types  *)
(* of a type table, and which of them are portals.                         *)
(*                                                                         *)
(* A table T maps type indices to [kind, elem, capacity, fields, outs,     *)
(* ins], the last five where the kind has them; fields is the sequence of  *)
(* the fields' types.  An index outside DOMAIN T is one type_idx_valid     *)
(* refuses.  order is the indices in the order of the array.               *)
(*                                                                         *)
(* The recursion of type_layout_one is a walk in steps.  Its state is      *)
(* whether nothing was refused (ok), the mark of every type (states), the  *)
(* layouts and sizes of those that are done, and what is still to do, the  *)
(* next first: to enter a type, or to end one that was entered, which is   *)
(* the rest of the calls of type_layout_one that have not returned.        *)
(* DoneUnmarked, AddUnaligned and AddLastPortal are wrong versions of the  *)
(* definitions that follow them.                                           *)
(***************************************************************************)
EXTENDS Integers, Sequences, FiniteSets, SequencesExt

CONSTANTS
  NumSize,    \* sizeof and alignof num_t
  CountSize,  \* of count_t
  PtrSize,    \* of a pointer
  CellAlign   \* CELL_ALIGN

ASSUME SizesAssumption ==
  {NumSize, CountSize, PtrSize, CellAlign} \subseteq Nat \ {0}

\* Alignments are powers of two (C11 6.2.8): of two of them one divides the other.
ASSUME AlignsAssumption ==
  \A a, b \in {NumSize, CountSize, PtrSize} : a % b = 0 \/ b % a = 0

Larger(a, b) == IF a > b THEN a ELSE b

align_up(n, align) == ((n + align - 1) \div align) * align

type_slice_len_offset == align_up(PtrSize, CountSize)
type_slice_payload_size == type_slice_len_offset + CountSize

Scalar(bytes) == [portal |-> FALSE, payload_size |-> bytes, align |-> bytes]

Portal ==
  [portal |-> TRUE, payload_size |-> type_slice_payload_size,
   align |-> Larger(PtrSize, CountSize)]

ArrayOf(elem, capacity) ==
  LET align == Larger(elem.align, CountSize)
      data_offset == align_up(CountSize, elem.align)
  IN [portal |-> elem.portal, align |-> align, data_offset |-> data_offset,
      payload_size |-> align_up(data_offset + elem.payload_size * capacity, align)]

AddUnaligned(layout, field) ==
  [portal |-> layout.portal \/ field.portal,
   align |-> Larger(layout.align, field.align),
   offsets |-> Append(layout.offsets, layout.payload_size),
   payload_size |-> layout.payload_size + field.payload_size]

AddLastPortal(layout, field) ==
  [AddUnaligned(layout, field) EXCEPT !.portal = field.portal]

\* A field is placed after those before it.
AddField(layout, field) ==
  LET offset == align_up(layout.payload_size, field.align)
  IN [portal |-> layout.portal \/ field.portal,
      align |-> Larger(layout.align, field.align),
      offsets |-> Append(layout.offsets, offset),
      payload_size |-> offset + field.payload_size]

NoFields == [portal |-> FALSE, align |-> 1, offsets |-> <<>>, payload_size |-> 0]

\* The loop over the fields.
StructOf(fields) ==
  LET placed[i \in 0..Len(fields)] ==
        IF i = 0 THEN NoFields ELSE AddField(placed[i - 1], fields[i])
      all == placed[Len(fields)]
  IN [all EXCEPT !.payload_size = align_up(@, all.align)]

\* The layout of a type from those of its parts.
LayoutOf(type, types) ==
  CASE type.kind = "INT" -> Scalar(NumSize)
    [] type.kind = "BYTE" -> Scalar(1)
    [] type.kind = "ARRAY" -> ArrayOf(types[type.elem], type.capacity)
    [] type.kind \in {"SLICE", "VIEW"} -> Portal
    [] type.kind = "STRUCT" ->
         StructOf([i \in DOMAIN type.fields |-> types[type.fields[i]]])
    [] type.kind = "NATIVE_FUNC_POINTER" -> Scalar(PtrSize)

-----------------------------------------------------------------------------
(* The walk.                                                               *)

Enter(t) == [do |-> "ENTER", type |-> t]
End(t) == [do |-> "END", type |-> t]
Entering(ts) == [i \in DOMAIN ts |-> Enter(ts[i])]

Pending(T, order) ==
  [ok |-> TRUE, todo |-> Entering(order),
   states |-> [t \in DOMAIN T |-> "PENDING"],
   types |-> [t \in DOMAIN T |-> NoFields],
   sizes |-> [t \in DOMAIN T |-> 0]]

Refused(s) == [s EXCEPT !.ok = FALSE]

\* The types that are laid out before a type is.
PartsOf(type) ==
  CASE type.kind \in {"ARRAY", "SLICE", "VIEW"} -> <<type.elem>>
    [] type.kind = "STRUCT" -> type.fields
    [] OTHER -> <<>>

\* Of the types of its arguments a function pointer only needs that they are types.
Named(T, type) ==
  type.kind = "NATIVE_FUNC_POINTER" =>
    Range(type.outs) \cup Range(type.ins) \subseteq DOMAIN T

\* The head of type_layout_one: a type that is met again while it is being laid out
\* contains itself.
EnterType(T, s, t) ==
  IF t \notin DOMAIN T THEN Refused(s)
  ELSE IF s.states[t] = "DONE" THEN [s EXCEPT !.todo = Tail(@)]
  ELSE IF s.states[t] = "ACTIVE" \/ ~Named(T, T[t]) THEN Refused(s)
  ELSE [s EXCEPT !.todo = Entering(PartsOf(T[t])) \o <<End(t)>> \o Tail(@),
                 !.states[t] = "ACTIVE"]

DoneUnmarked(s, t, layout) == [s EXCEPT !.todo = Tail(@), !.types[t] = layout]

\* The end of type_layout_one; size is rounded up here.
Done(s, t, layout) ==
  [s EXCEPT !.todo = Tail(@), !.states[t] = "DONE", !.types[t] = layout,
            !.sizes[t] = align_up(layout.payload_size, CellAlign)]

Step(T, s) ==
  LET t == Head(s.todo).type
  IN IF Head(s.todo).do = "ENTER" THEN EnterType(T, s, t)
     ELSE Done(s, t, LayoutOf(T[t], s.types))

Over(s) == ~s.ok \/ s.todo = <<>>

\* The most parts a type has.
MostParts(T) == Cardinality(UNION {DOMAIN PartsOf(T[t]) : t \in DOMAIN T})

\* The walk is over after this many steps: every type is entered once.
MostSteps(T, order) == Len(order) + Cardinality(DOMAIN T) * (MostParts(T) + 2)

Walk(T, order) ==
  LET after[n \in 0..MostSteps(T, order)] ==
        IF n = 0 THEN Pending(T, order)
        ELSE LET s == after[n - 1] IN IF Over(s) THEN s ELSE Step(T, s)
  IN after[MostSteps(T, order)]

type_layout_all(T, order) ==
  IF \/ Len(order) < 2
     \/ T[order[1]].kind # "INT" \/ T[order[2]].kind # "BYTE"
  THEN Refused(Pending(T, order))
  ELSE Walk(T, order)
=============================================================================
