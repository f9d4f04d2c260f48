----------------------------- MODULE TypeTables -----------------------------
(***************************************************************************)
(* Type tables being built, as a frontend or a test builds them, one type  *)
(* after the other and each naming any types, those to come included; and  *)
(* what the layout of such a table must satisfy.                           *)
(***************************************************************************)
EXTENDS Layout

CONSTANTS
  MaxTypes,   \* bound: the length of a table
  MaxFields,  \* bound: the fields of a struct
  Capacities  \* bound: the capacities of arrays

ASSUME BoundsAssumption ==
  MaxTypes \in Nat /\ MaxTypes >= 2 /\ MaxFields \in Nat /\ Capacities \subseteq Nat

VARIABLE table   \* TypeS, the first type at index 1

Index == 1..MaxTypes

UserTypes ==
       [kind : {"ARRAY"}, elem : Index, capacity : Capacities]
  \cup [kind : {"SLICE", "VIEW"}, elem : Index]
  \cup [kind : {"STRUCT"}, fields : UNION {[1..n -> Index] : n \in 0..MaxFields}]
  \cup [kind : {"NATIVE_FUNC_POINTER"}, outs : {<<>>}, ins : {<<i>> : i \in Index}]

Init == table = <<[kind |-> "INT"], [kind |-> "BYTE"]>>

AddType ==
  /\ Len(table) < MaxTypes
  /\ \E type \in UserTypes : table' = Append(table, type)

Next == AddType
Spec == Init /\ [][Next]_table

-----------------------------------------------------------------------------
Laid == type_layout_all(table, [i \in DOMAIN table |-> i])
Layout(t) == Laid.types[t]

\* The types whose layout that of t needs, and the least set of types that contains them
\* and with every type those it needs.
Parts(t) == Range(PartsOf(table[t]))
Closed(types) == \A t \in types \cap DOMAIN table : Parts(t) \subseteq types
AllParts(t) ==
  {p \in Index : \A types \in SUBSET Index :
     Parts(t) \subseteq types /\ Closed(types) => p \in types}

Names(t) == IF table[t].kind = "NATIVE_FUNC_POINTER" THEN ToSet(table[t].ins) ELSE Parts(t)

\* The walk with marks (ir.c:40) refuses exactly the tables with a type that needs
\* its own layout, or with an index that is none: no order of the types lets a
\* recursive type through or takes a type met twice for a recursive one.
RefusesRecursion ==
  Laid.ok <=> \A t \in DOMAIN table : Names(t) \subseteq DOMAIN table /\ t \notin AllParts(t)

\* Fields are aligned, do not overlap and lie inside their struct (ir.c:90); elements lie
\* behind the length and inside their array (ir.c:63).
FieldsIn(t) ==
  LET f == table[t].fields
      From(i) == Layout(t).offsets[i]
      To(i) == From(i) + Layout(f[i]).payload_size
  IN \A i \in DOMAIN f :
       /\ From(i) % Layout(f[i]).align = 0
       /\ Layout(t).align % Layout(f[i]).align = 0
       /\ To(i) <= Layout(t).payload_size
       /\ \A k \in DOMAIN f : i < k => To(i) <= From(k)
ElementsIn(t) ==
  /\ Layout(t).data_offset >= CountSize
  /\ Layout(t).data_offset + table[t].capacity * Layout(table[t].elem).payload_size
       <= Layout(t).payload_size
PartsFit ==
  Laid.ok =>
    \A t \in DOMAIN table :
      /\ table[t].kind = "STRUCT" => FieldsIn(t)
      /\ table[t].kind = "ARRAY" => ElementsIn(t)

\* What can hold a slice or a view without going through a pointer is a portal, and
\* nothing else (ir.c:61, 73, 89).
Direct(t) == IF table[t].kind \in {"SLICE", "VIEW"} THEN {} ELSE Parts(t)
DirectlyClosed(types) == \A t \in types \cap DOMAIN table : Direct(t) \subseteq types
Inside(t) ==
  {p \in Index : \A types \in SUBSET Index :
     t \in types /\ DirectlyClosed(types) => p \in types}
PortalsMarked ==
  Laid.ok =>
    \A t \in DOMAIN table :
      Layout(t).portal <=>
        \E p \in Inside(t) : table[p].kind \in {"SLICE", "VIEW"}

\* Every element of an array has the natural alignment its type records: elements are
\* payload_size apart (vm.c:1080).
ElementsAligned ==
  Laid.ok =>
    \A t \in DOMAIN table :
      table[t].kind = "ARRAY" =>
        LET elem == Layout(table[t].elem)
        IN \A i \in 0..(table[t].capacity - 1) :
             (Layout(t).data_offset + i * elem.payload_size) % elem.align = 0
=============================================================================
