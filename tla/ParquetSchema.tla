--------------------------- MODULE ParquetSchema ---------------------------
(***************************************************************************)
(* The schema tree of a parquet Schema (schema.go) and the plan that       *)
(* newSchema compiles from it once: which closure traverseFuncOf builds    *)
(* for every node and which column index every leaf closure captures.     *)
(*                                                                         *)
(* A node is a record in Schema[n]:                                        *)
(*   kind     "leaf", "group" (a structNode) or "list" (LIST logical type) *)
(*   card     "required", "optional" or "repeated": the cardinality the    *)
(*            Optional/Repeated wrappers give it                           *)
(*   ptr      for an optional node, whether the Go field is a pointer     *)
(*            (nodeOf of reflect.Ptr) or a value tagged `optional`         *)
(*   children a group's children in ChildNames order (sorted names)       *)
(*   elem     a list's list.element node                                   *)
(*   vals     the Go values a leaf field takes in the checked records;    *)
(*            0 is the zero value                                          *)
(* Go values of a node are abstracted as: a leaf value in vals; a struct  *)
(* as the tuple of its exported fields; a slice as [isNil, elems]; a      *)
(* pointer as <<>> (nil) or <<v>>.                                         *)
(***************************************************************************)
EXTENDS Integers, Sequences, SequencesExt

CONSTANTS
  Nodes,      \* the node ids (field names) of the schema tree
  Root,       \* the root node: structNodeOf of the model type
  Schema,     \* Schema[n]: the node record described above
  MaxLen,     \* the longest slice in a checked record
  MapRecords  \* whether Traverse is also given map[string]V records

Kinds == {"leaf", "group", "list"}
Cards == {"required", "optional", "repeated"}

ASSUME /\ Root \in Nodes
       /\ Schema[Root].kind = "group" /\ Schema[Root].card = "required"
       /\ MaxLen \in Nat

(* reflect.Value{}: the placeholder carried by an absent (invalid) value. *)
NoValue == <<>>

(***************************************************************************)
(* The Go value domain (reflect), bounded by MaxLen and vals.             *)
(***************************************************************************)
SliceValues(S) ==
  {[isNil |-> TRUE, elems |-> <<>>]}
    \cup {[isNil |-> FALSE, elems |-> e] : e \in BoundedSeq(S, MaxLen)}

RECURSIVE GoValues(_, _), FieldValues(_)
GoValues(n, c) ==
  CASE c = "optional" /\ Schema[n].ptr ->
         {<<>>} \cup {<<x>> : x \in GoValues(n, "required")}
    [] c = "optional"          -> GoValues(n, "required")
    [] Schema[n].kind = "list" -> SliceValues(GoValues(Schema[n].elem, "required"))
    [] c = "repeated"          -> SliceValues(GoValues(n, "required"))
    [] Schema[n].kind = "leaf" -> Schema[n].vals
    [] OTHER                   -> FieldValues(Schema[n].children)
FieldValues(chs) ==
  IF chs = <<>> THEN {<<>>}
  ELSE {<<x>> \o t : x \in GoValues(Head(chs), Schema[Head(chs)].card),
                     t \in FieldValues(Tail(chs))}

(* reflect.Value.IsZero: nil pointer or slice, zero scalar, struct whose  *)
(* fields are all zero.                                                    *)
RECURSIVE IsZero(_, _, _)
IsZero(n, c, v) ==
  CASE c = "optional" /\ Schema[n].ptr          -> v = <<>>
    [] c = "optional"                           -> IsZero(n, "required", v)
    [] Schema[n].kind = "list" \/ c = "repeated" -> v.isNil
    [] Schema[n].kind = "leaf"                  -> v = 0
    [] OTHER -> \A i \in DOMAIN Schema[n].children :
                  IsZero(Schema[n].children[i], Schema[Schema[n].children[i]].card, v[i])

(* Traverse also takes a map[string]V for the root struct when V is the   *)
(* type of every field: structNode.ValueByIndex then looks a field up by  *)
(* its name with MapIndex.  Fields of one node shape stand for fields of  *)
(* one Go type.                                                            *)
MapValued == \A a, b \in ToSet(Schema[Root].children) : Schema[a] = Schema[b]

ASSUME MapRecords \in BOOLEAN /\ (MapRecords => MapValued /\ Schema[Root].children # <<>>)

(* A map record: the function from the positions of the keys it holds to *)
(* their values.  A nil map holds no key, as an empty one.                *)
MapValues ==
  LET chs == Schema[Root].children IN
  UNION {[K -> GoValues(chs[1], Schema[chs[1]].card)] : K \in SUBSET DOMAIN chs}

(* The records Schema.Traverse is called with: the struct, a pointer to  *)
(* it, a nil pointer, or a map; p is <<>> for nil and <<v>> otherwise.    *)
RootValues == GoValues(Root, "required")
Inputs ==
  {[isPtr |-> FALSE, isMap |-> FALSE, p |-> <<v>>] : v \in RootValues}
    \cup {[isPtr |-> TRUE, isMap |-> FALSE, p |-> <<v>>] : v \in RootValues}
    \cup {[isPtr |-> TRUE, isMap |-> FALSE, p |-> <<>>]}
    \cup (IF MapRecords THEN {[isPtr |-> FALSE, isMap |-> TRUE, p |-> <<m>>] : m \in MapValues}
                        ELSE {})

(***************************************************************************)
(* The compiled plan.                                                      *)
(***************************************************************************)
(* structNode.ChildNames: the children in sorted-name order. *)
ChildNames(n) == Schema[n].children

(* traverseFuncOfRequired: a leaf closure or a group closure. *)
TraverseFuncOfRequired(n) ==
  [fn |-> IF Schema[n].kind = "leaf" THEN "leaf" ELSE "group", node |-> n]

(* traverseFuncOf: the closure built for node n seen with cardinality c;  *)
(* optional first, then the LIST rewrite to Repeated(list.element), then  *)
(* repeated, then required.                                                *)
RECURSIVE TraverseFuncOf(_, _)
TraverseFuncOf(n, c) ==
  IF c = "optional" THEN [fn |-> "optional", node |-> n]
  ELSE IF Schema[n].kind = "list" THEN TraverseFuncOf(Schema[n].elem, "repeated")
  ELSE IF c = "repeated" THEN [fn |-> "repeated", node |-> n]
  ELSE TraverseFuncOfRequired(n)

(* The closure a child of a group is traversed with. *)
ChildFunc(n) == TraverseFuncOf(n, Schema[n].card)

(* makeTraverseFunc: the root's closure.  A schema with no children gets  *)
(* a no-op closure returning nil, which is what the group closure of a    *)
(* group without children does, so both are the group closure here.      *)
MakeTraverseFunc == TraverseFuncOf(Root, "required")

(* The leaves in the order traverseFuncOfGroup threads columnIndex        *)
(* through its children: depth first, in ChildNames order.               *)
RECURSIVE LeavesOf(_)
LeavesOf(n) ==
  CASE Schema[n].kind = "leaf" -> <<n>>
    [] Schema[n].kind = "list" -> LeavesOf(Schema[n].elem)
    [] OTHER -> LET subs == [i \in DOMAIN ChildNames(n) |-> LeavesOf(ChildNames(n)[i])]
                IN FlattenSeq(subs)

Columns == LeavesOf(Root)
NumColumns == Len(Columns)

(* traverseFuncOfLeaf: the column index captured by a leaf's closure. *)
(* Mutant: the closure captures the index traverseFuncOfLeaf returns. *)
ColumnIndexAfterIncrement(n) ==
  (CHOOSE i \in DOMAIN Columns : Columns[i] = n) - 1 + 1

ColumnIndexOf == [n \in ToSet(Columns) |-> (CHOOSE i \in DOMAIN Columns : Columns[i] = n) - 1]
ColumnIndex(n) == ColumnIndexOf[n]

(* The levels struct threaded through the closures: three int8 fields,  *)
(* whose increments wrap around at 127 as Go's int8 arithmetic does.     *)
ZeroLevels == [repetitionDepth |-> 0, repetitionLevel |-> 0, definitionLevel |-> 0]
Int8(x) == ((x + 128) % 256) - 128

(***************************************************************************)
(* The levels a leaf can reach, from the spec's definition: the optional  *)
(* or repeated nodes (a LIST counting as repeated) on its path.           *)
(***************************************************************************)
(* For each leaf below n, in LeavesOf order: how many optional or        *)
(* repeated nodes (a LIST counting as one more repeated node) and how     *)
(* many repeated ones lie on the path from n down to it.                 *)
RECURSIVE LevelCounts(_)
LevelCounts(n) ==
  LET s == Schema[n]
      here == [def |-> (IF s.card # "required" THEN 1 ELSE 0) + (IF s.kind = "list" THEN 1 ELSE 0),
               rep |-> IF s.card = "repeated" \/ s.kind = "list" THEN 1 ELSE 0]
      below == CASE s.kind = "leaf" -> <<[def |-> 0, rep |-> 0]>>
                 [] s.kind = "list" -> LevelCounts(s.elem)
                 [] OTHER -> FlattenSeq([i \in DOMAIN s.children |-> LevelCounts(s.children[i])])
  IN [k \in DOMAIN below |-> [def |-> below[k].def + here.def, rep |-> below[k].rep + here.rep]]

RootLevelCounts == LevelCounts(Root)
MaxDefinitionLevel(col) == RootLevelCounts[col + 1].def
MaxRepetitionLevel(col) == RootLevelCounts[col + 1].rep
=============================================================================
