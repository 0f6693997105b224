--------------------------- MODULE SchemaBuilder ---------------------------
(***************************************************************************)
(* The schema builder of schema.go, from a Go type to the compiled plan:  *)
(* SchemaOf/namedSchemaOf take a struct or pointer-to-struct model;       *)
(* structNodeOf flattens embedded structs depth first (appendStructFields),*)
(* renames the fields by the name part of their tag and sorts them by     *)
(* name with sort.Slice (structFieldsOf); makeStructField gives every     *)
(* field the node nodeOf derives from its type, recursing into pointer,   *)
(* slice and struct types; newSchema compiles the plan, whose group       *)
(* closures number the leaf columns depth first in ChildNames order.      *)
(* ChildByName finds a child by the binary search of indexOf.             *)
(*                                                                         *)
(* A reflect.Type is a record [name, kind, elem, len, fields]: elem is    *)
(* the id of the element type (pointers, slices, arrays), fields the      *)
(* struct fields [name, tag, embed, type], where tag is the name part of  *)
(* the `parquet` tag ("" when none), embed whether the field is           *)
(* anonymous and type the id of its type.  Tag options are the part of    *)
(* StructTags: every field here gets nodeOf of its type.                  *)
(***************************************************************************)
EXTENDS Integers, Sequences, SequencesExt, FiniteSets

CONSTANTS
  Types,        \* Types[id]: the named Go types the models refer to
  Models,       \* the reflect.Types SchemaOf is called with
  ByteOrder,    \* every name, in the byte order Go compares strings in
  Exported      \* the names that start with an upper-case letter

TypeIds == DOMAIN Types
LeafKinds == {"bool", "int32", "int64", "uint8", "string"}

(* String comparison: the order of the names in ByteOrder. *)
Rank(s) == CHOOSE i \in DOMAIN ByteOrder : ByteOrder[i] = s
Less(a, b) == Rank(a) < Rank(b)
GreaterEq(a, b) == ~Less(a, b)

(***************************************************************************)
(* Nodes.  The constructors live in node.go, outside the analysed source; *)
(* they are written from spec section 4.1: Optional and Repeated wrap     *)
(* their node, and the same one applied twice directly fails.  A node is  *)
(* [wraps, base, names, children, index]: base "leaf", "uuid" or "group"; *)
(* a group's names, child nodes and field index paths in child order.     *)
(* A build that does not return is Fail(why): "panic" for a panic naming  *)
(* the type or field, "reflect" for a panic inside reflect, "runtime"    *)
(* for an index out of range, "overflow" for a recursion that never ends. *)
(***************************************************************************)
Fail(why) == [fail |-> why]
Failed(n) == "fail" \in DOMAIN n

LeafNode(base) == [wraps |-> <<>>, base |-> base, names |-> <<>>, children |-> <<>>, index |-> <<>>]
Wrapped(w, n) ==
  CASE Failed(n) -> n
    [] n.wraps # <<>> /\ n.wraps[1] = w -> Fail("panic")
    [] OTHER -> [n EXCEPT !.wraps = <<w>> \o @]
Optional(n) == Wrapped("optional", n)
Repeated(n) == Wrapped("repeated", n)

(***************************************************************************)
(* structFieldsOf                                                           *)
(***************************************************************************)
(* appendStructFields calls NumField on every embedded type: a panic of   *)
(* reflect when that type is not a struct (an embedded pointer).          *)
RECURSIVE NumFieldPanics(_)
NumFieldPanics(fs) ==
  \E i \in DOMAIN fs :
    fs[i].embed /\ (Types[fs[i].type].kind # "struct" \/ NumFieldPanics(Types[fs[i].type].fields))

(* Mutant: the field's own position is not appended to its index path. *)
RECURSIVE AppendStructFieldsNoAppend(_, _, _)
AppendStructFieldsNoAppend(fs, fields, index) ==
  LET Field(i) ==
        LET f == fs[i] IN
        IF f.embed THEN AppendStructFieldsNoAppend(Types[f.type].fields, <<>>, index)
        ELSE IF f.name \in Exported
             THEN <<[name |-> f.name, tag |-> f.tag, type |-> f.type, index |-> index]>>
        ELSE <<>>
  IN fields \o FlattenSeq([i \in DOMAIN fs |-> Field(i)])

(* appendStructFields: an embedded field contributes the fields of its    *)
(* type, an exported one itself; each with its index path.                 *)
RECURSIVE AppendStructFields(_, _, _)
AppendStructFields(fs, fields, index) ==
  LET Field(i) ==
        LET f == fs[i]
            fieldIndex == Append(index, i)
        IN IF f.embed THEN AppendStructFields(Types[f.type].fields, <<>>, fieldIndex)
           ELSE IF f.name \in Exported
                THEN <<[name |-> f.name, tag |-> f.tag, type |-> f.type, index |-> fieldIndex]>>
           ELSE <<>>
  IN fields \o FlattenSeq([i \in DOMAIN fs |-> Field(i)])

(* The tag name, when there is one, overrides the field name. *)
Renamed(fs) ==
  [i \in DOMAIN fs |-> [fs[i] EXCEPT !.name = IF fs[i].tag # "" THEN fs[i].tag ELSE @]]

StructFieldsOf(fs) == Renamed(AppendStructFields(fs, <<>>, <<>>))

(* sort.Slice by name: not stable, so any order of fields with equal     *)
(* names is a result the build can produce.                                *)
SortedOrders(fs) ==
  {p \in Permutations(DOMAIN fs) :
     \A i, j \in DOMAIN fs : i < j => ~Less(fs[p[j]].name, fs[p[i]].name)}

(***************************************************************************)
(* indexOf                                                                  *)
(***************************************************************************)
(* sort.Search(len(ns), func(i) { ns[i] >= name }): the binary search for *)
(* the least i in i0..j0-1 with ns[i] >= name (0-based), j0 when there is  *)
(* none; it assumes ns sorted.                                             *)
RECURSIVE SearchBetween(_, _, _, _)
SearchBetween(ns, name, i, j) ==
  IF i >= j THEN i
  ELSE LET h == (i + j) \div 2 IN
       IF ~GreaterEq(ns[h + 1], name) THEN SearchBetween(ns, name, h + 1, j)
       ELSE SearchBetween(ns, name, i, h)

(* Mutant: a miss is recognised only past the last name. *)
IndexOfMissAtEnd(ns, name) ==
  LET i == SearchBetween(ns, name, 0, Len(ns)) IN
  IF i = Len(ns) THEN -1 ELSE i

(* indexOf: -1 when no child has the name. *)
IndexOf(ns, name) ==
  LET i == SearchBetween(ns, name, 0, Len(ns)) IN
  IF i = Len(ns) \/ ns[i + 1] # name THEN -1 ELSE i

(***************************************************************************)
(* nodeOf and structNodeOf                                                  *)
(***************************************************************************)
(* deprecated.Int96, the one named type nodeOf tests for by identity. *)
Int96 == [name |-> "deprecated.Int96", kind |-> "array", elem |-> "uint32", len |-> 3, fields |-> <<>>]

(* Mutant: any byte array is taken for a UUID, whatever its length. *)
IsUUIDAnyLength(d) == Types[d.elem].kind = "uint8"

(* The case of nodeOf for [16]byte. *)
IsUUIDArray(d) == Types[d.elem].kind = "uint8" /\ d.len = 16

(* The order sort.Slice gives the fields of a nested struct.  The nested *)
(* types checked have distinct names, for which that order is unique.    *)
NestedOrder(d) == CHOOSE p \in SortedOrders(StructFieldsOf(d.fields)) : TRUE

(* nodeOf(t); building holds the struct types whose structNodeOf is under *)
(* way.  nodeOf keeps no memo, so reaching one of them again repeats the  *)
(* same calls without end: Go's stack overflow, a fatal error.            *)
RECURSIVE NodeOf(_, _), StructNodeOfType(_, _), StructNodeOf(_, _, _)
NodeOf(d, building) ==
  CASE d = Int96                 -> LeafNode("int96")
    [] d.kind \in LeafKinds      -> LeafNode(d.kind)
    [] d.kind = "ptr"            -> Optional(NodeOf(Types[d.elem], building))
    [] d.kind = "struct"         -> StructNodeOfType(d, building)
    [] d.kind = "slice"          -> Repeated(NodeOf(Types[d.elem], building))
    [] d.kind = "array" /\ IsUUIDArray(d) -> LeafNode("uuid")
    [] OTHER                     -> Fail("panic")

StructNodeOfType(d, building) ==
  CASE d \in building         -> Fail("overflow")
    [] NumFieldPanics(d.fields) -> Fail("reflect")
    [] OTHER                  -> StructNodeOf(d, NestedOrder(d), building)

(* structNodeOf(t) with the fields of structFieldsOf in the order p:      *)
(* makeStructField of each field in that order, the first panic ending    *)
(* the build; then the names and index paths of the node.                 *)
StructNodeOf(d, p, building) ==
  LET fs == StructFieldsOf(d.fields)
      sorted == [i \in DOMAIN fs |-> fs[p[i]]]
      kids == [i \in DOMAIN sorted |-> NodeOf(Types[sorted[i].type], building \cup {d})]
      failed == SelectInSeq(kids, Failed)
  IN IF failed > 0 THEN kids[failed]
     ELSE [wraps |-> <<>>, base |-> "group", children |-> kids,
           names |-> [i \in DOMAIN sorted |-> sorted[i].name],
           index |-> [i \in DOMAIN sorted |-> sorted[i].index]]

(* namedSchemaOf: the struct type of the model, NoStruct when the model  *)
(* is neither a struct nor a pointer to one.                               *)
NoStruct == [name |-> "", kind |-> "none", elem |-> "", len |-> 0, fields |-> <<>>]
ModelStruct(m) ==
  CASE m.kind = "struct"                             -> m
    [] m.kind = "ptr" /\ Types[m.elem].kind = "struct" -> Types[m.elem]
    [] OTHER                                         -> NoStruct

(***************************************************************************)
(* The plan newSchema compiles, composed from ParquetSchema: the built     *)
(* node, seen as that module's Schema, with the node ids the paths of     *)
(* child positions from the root.  traverseFuncOfGroup pairs, for i in   *)
(* ChildNames order, the closure of ChildByName(names[i]) with            *)
(* ValueByIndex(base, i), the field at fields[i].index.  The models'     *)
(* fields carry one Optional or Repeated wrapper at most.                 *)
(***************************************************************************)
(* The node whose closure traverseFuncOfGroup builds for names[i]. *)
PlanChild(n, i) == n.children[IndexOf(n.names, n.names[i]) + 1]

RECURSIVE PlanIds(_)
PlanIds(n) ==
  {<<>>} \cup UNION {{<<i>> \o q : q \in PlanIds(PlanChild(n, i))} : i \in DOMAIN n.names}

(* The groups on the way to id p, p[k] the child position taken at the  *)
(* k-th one.                                                               *)
RECURSIVE PlanPath(_, _)
PlanPath(n, p) == IF p = <<>> THEN <<n>> ELSE <<n>> \o PlanPath(PlanChild(n, Head(p)), Tail(p))

(* The built tree as a ParquetSchema Schema. *)
PlanSchema(n) ==
  [p \in PlanIds(n) |->
     LET m == Last(PlanPath(n, p)) IN
     [kind |-> IF m.base = "group" THEN "group" ELSE "leaf",
      card |-> IF m.wraps = <<>> THEN "required" ELSE m.wraps[1],
      ptr |-> TRUE, elem |-> <<>>, vals |-> {0},
      children |-> [i \in DOMAIN m.names |-> Append(p, i)]]]

Plan(n) == INSTANCE ParquetSchema
  WITH Nodes <- PlanIds(n), Root <- <<>>, Schema <- PlanSchema(n), MaxLen <- 0, MapRecords <- FALSE

(* Mutant: the i-th field of the struct value is read, not the field at *)
(* fields[i].index.                                                        *)
ValueByIndexByPosition(g, i) == <<i>>

(* structNode.ValueByIndex on a struct value: FieldByIndex(fields[i].index). *)
ValueByIndex(g, i) == g.index[i]

(* A leaf column of the plan: the names leading to it and the index paths *)
(* its value is read through, in column-index order.                       *)
LeafColumns(n) ==
  LET cols == Plan(n)!Columns
      Via(p) == LET g == PlanPath(n, p) IN
        [names |-> [k \in DOMAIN p |-> g[k].names[p[k]]],
         reads |-> [k \in DOMAIN p |-> ValueByIndex(g[k], p[k])]]
  IN [c \in DOMAIN cols |-> Via(cols[c])]

(* traverseFuncOfGroup calls ChildByName(names[i]): were indexOf to miss, *)
(* ChildByIndex would read s.fields[-1], a runtime panic of newSchema.    *)
RECURSIVE PlanPanics(_)
PlanPanics(n) ==
  /\ n.base = "group"
  /\ \E i \in DOMAIN n.names :
       LET k == IndexOf(n.names, n.names[i]) IN k = -1 \/ PlanPanics(n.children[k + 1])

(* newSchema: the root node, with the plan compiled from it. *)
NewSchema(n) == IF ~Failed(n) /\ PlanPanics(n) THEN Fail("runtime") ELSE n

(***************************************************************************)
(* The schema built, and the lookups made on it.                           *)
(***************************************************************************)
VARIABLES
  model,    \* the reflect.Type SchemaOf was called with
  schema,   \* the root node built, or Fail(why)
  looked    \* the last ChildByName: the name and the index indexOf gave

vars == <<model, schema, looked>>

NotBuilt == Fail("none")
NoLookup == [name |-> "", index |-> -2]

Init ==
  /\ model = NoStruct /\ schema = NotBuilt
  /\ looked = NoLookup

(* Mutant: structFieldsOf sorts the root's fields before it renames them. *)
SchemaOfSortBeforeRename(m) ==
  LET t == ModelStruct(m) IN
  /\ schema = NotBuilt
  /\ model' = m
  /\ looked' = NoLookup
  /\ CASE t = NoStruct           -> schema' = Fail("panic")
       [] NumFieldPanics(t.fields) -> schema' = Fail("reflect")
       [] OTHER -> \E p \in SortedOrders(AppendStructFields(t.fields, <<>>, <<>>)) :
                     schema' = NewSchema(StructNodeOf(t, p, {}))

(* SchemaOf(model): namedSchemaOf, then newSchema(structNodeOf(t)).  The  *)
(* root's fields may come out of sort.Slice in any sorted order.  Schemas *)
(* built one after the other share nothing, so a behaviour builds one.   *)
SchemaOf(m) ==
  LET t == ModelStruct(m) IN
  /\ schema = NotBuilt
  /\ model' = m
  /\ looked' = NoLookup
  /\ CASE t = NoStruct           -> schema' = Fail("panic")
       [] NumFieldPanics(t.fields) -> schema' = Fail("reflect")
       [] OTHER -> \E p \in SortedOrders(StructFieldsOf(t.fields)) :
                     schema' = NewSchema(StructNodeOf(t, p, {}))

(* Schema.ChildByName: the root's child at indexOf(name). *)
ChildByName(name) ==
  /\ ~Failed(schema)
  /\ looked' = [name |-> name, index |-> IndexOf(schema.names, name)]
  /\ UNCHANGED <<model, schema>>

Next ==
  \/ \E m \in Models : SchemaOf(m)
  \/ \E name \in ToSet(ByteOrder) : ChildByName(name)

Spec == Init /\ [][Next]_vars

(***************************************************************************)
(* What spec sections 3, 4.2 and 7 say the schema of a type is.           *)
(***************************************************************************)
(* The struct an embedded field contributes its fields from (section 4.2  *)
(* step 1 does not tell an embedded pointer apart).                        *)
EmbeddedStruct(f) ==
  IF Types[f.type].kind = "ptr" THEN Types[Types[f.type].elem] ELSE Types[f.type]

(* The index paths of the children: every exported field, reached        *)
(* through embedded structs.                                               *)
RECURSIVE SpecFieldPaths(_)
SpecFieldPaths(fs) ==
  UNION {IF fs[i].embed THEN {<<i>> \o q : q \in SpecFieldPaths(EmbeddedStruct(fs[i]).fields)}
         ELSE IF fs[i].name \in Exported THEN {<<i>>} ELSE {} : i \in DOMAIN fs}

RECURSIVE FieldAt(_, _)
FieldAt(fs, path) ==
  IF Len(path) = 1 THEN fs[path[1]] ELSE FieldAt(EmbeddedStruct(fs[path[1]]).fields, Tail(path))

ResolvedName(fs, path) ==
  LET f == FieldAt(fs, path) IN IF f.tag # "" THEN f.tag ELSE f.name

UniqueNames(fs) ==
  \A p, q \in SpecFieldPaths(fs) : p # q => ResolvedName(fs, p) # ResolvedName(fs, q)

(* The type graph: a struct refers to the types of its embedded and       *)
(* exported fields, a pointer, slice or array to its element.             *)
Refs(d) ==
  IF d.kind = "struct"
  THEN {d.fields[i].type : i \in {j \in DOMAIN d.fields : d.fields[j].embed \/ d.fields[j].name \in Exported}}
  ELSE {d.elem} \cap TypeIds
RECURSIVE ReachedFrom(_, _)
ReachedFrom(ids, seen) ==
  LET next == UNION {Refs(Types[x]) : x \in ids} \ seen IN
  IF next = {} THEN seen ELSE ReachedFrom(next, seen \cup next)
(* The types a type leads to, in one step or more. *)
UsedTypes(t) == ReachedFrom(Refs(t), Refs(t))
Reaches == [x \in TypeIds |-> UsedTypes(Types[x])]

(* Section 4.2 step 4: the types a node is derived for. *)
SpecSupported(d) ==
  \/ d.kind \in LeafKinds \cup {"ptr", "slice", "struct"}
  \/ d.kind = "array" /\ Types[d.elem].kind = "uint8" /\ d.len = 16

(* Sections 6 and 7: the build fails for a model that is not a struct,    *)
(* for duplicate resolved names, for an unsupported field type, and for a *)
(* type whose node tree has no end (a type that reaches itself).          *)
SpecRejects(m) ==
  LET t == ModelStruct(m) IN
  \/ t = NoStruct
  \/ ~UniqueNames(t.fields)
  \/ \E y \in UsedTypes(t) :
       \/ ~SpecSupported(Types[y])
       \/ y \in Reaches[y]
       \/ Types[y].kind = "struct" /\ ~UniqueNames(Types[y].fields)

(* Sections 4.2 and 4.3: the leaf columns of a type, each named by the    *)
(* resolved names on its path and read through the index paths of the    *)
(* fields on it.                                                           *)
RECURSIVE SpecLeaves(_)
SpecLeaves(d) ==
  CASE d.kind \in {"ptr", "slice"} -> SpecLeaves(Types[d.elem])
    [] d.kind = "struct" ->
         UNION {{[names |-> <<ResolvedName(d.fields, p)>> \o l.names, reads |-> <<p>> \o l.reads] :
                   l \in SpecLeaves(Types[FieldAt(d.fields, p).type])} : p \in SpecFieldPaths(d.fields)}
    [] OTHER -> {[names |-> <<>>, reads |-> <<>>]}

(* Lexicographic order of name paths, each name in byte order. *)
RECURSIVE NamesBefore(_, _)
NamesBefore(a, b) ==
  /\ b # <<>>
  /\ \/ a = <<>>
     \/ Less(a[1], b[1])
     \/ a[1] = b[1] /\ NamesBefore(Tail(a), Tail(b))

(***************************************************************************)
(* Properties.                                                             *)
(***************************************************************************)
TypeOK ==
  /\ model \in Models \cup {NoStruct}
  /\ Failed(schema) => schema.fail \in {"none", "panic", "reflect", "overflow", "runtime"}
  /\ ~Failed(schema) => /\ schema.names \in Seq(ToSet(ByteOrder))
                        /\ schema.index \in Seq(Seq(Nat) \ {<<>>})
  /\ looked.index \in -2..(IF Failed(schema) THEN -2 ELSE Len(schema.names) - 1)

(* indexOf, for any name asked, is the position of the first child with   *)
(* that name, and -1 for a name no child has: the binary search of        *)
(* sort.Search over the names sorted by structFieldsOf finds what a scan  *)
(* would.                                                                  *)
IndexOfIsFirstMatch ==
  looked # NoLookup =>
    looked.index = SelectInSeq(schema.names, LAMBDA n : n = looked.name) - 1

(* Unless SchemaOf failed on a model the spec rejects, it returned a     *)
(* schema, and every exported field of the model, embedded ones included, *)
(* is the child Schema.ChildByName finds under its resolved name, with   *)
(* the index path that reads it (spec section 8: ChildByName of every     *)
(* declared name is that child; section 3: names are unique).             *)
FieldsReachableByName ==
  schema # NotBuilt /\ ~(Failed(schema) /\ SpecRejects(model)) =>
    /\ ~Failed(schema)
    /\ LET fs == ModelStruct(model).fields IN
       \A path \in SpecFieldPaths(fs) :
         LET k == IndexOf(schema.names, ResolvedName(fs, path)) IN
         k >= 0 /\ schema.index[k + 1] = path

(* The columns of the compiled plan are the leaf fields of the model      *)
(* type, through nested, pointer, slice and embedded structs, one column  *)
(* each, numbered in the order of their resolved-name paths, and each     *)
(* column's closure reads its value through that field's index paths     *)
(* (spec 4.3: column indexes follow ChildNames depth first).  About       *)
(* structFieldsOf's rename and sort at every level, nodeOf's recursion,   *)
(* and traverseFuncOfGroup pairing ChildByName(names[i]) with             *)
(* ValueByIndex(i); the column numbering is ParquetSchema's, the one the  *)
(* traversal runs use, applied to the tree the builder built.             *)
ColumnsFollowFieldNames ==
  ~Failed(schema) =>
    LET cols == LeafColumns(schema) IN
    /\ ToSet(cols) = SpecLeaves(ModelStruct(model))
    /\ \A i \in 1..(Len(cols) - 1) : NamesBefore(cols[i].names, cols[i + 1].names)

(* SchemaOf ends in one of two ways: with a schema, exactly for the types *)
(* the spec accepts, or with a construction error naming the type or      *)
(* field (spec section 7); never with a crash of reflect, an index out   *)
(* of range or a stack overflow.  About namedSchemaOf, nodeOf's cases and its recursion, and  *)
(* appendStructFields.                                                     *)
SchemaOfFailsOnlyAsSpecified ==
  schema # NotBuilt =>
    /\ schema \notin {Fail("reflect"), Fail("overflow"), Fail("runtime")}
    /\ Failed(schema) <=> SpecRejects(model)

(* SchemaOf fails exactly for the models spec sections 4.2, 6 and 7     *)
(* reject: a non-struct, duplicate resolved names, an unsupported field *)
(* type at any depth (namedSchemaOf's switch, nodeOf's cases).  It says  *)
(* nothing about how the build fails.                                     *)
FailsExactlyOnRejectedTypes ==
  schema # NotBuilt => (Failed(schema) <=> SpecRejects(model))

=============================================================================
