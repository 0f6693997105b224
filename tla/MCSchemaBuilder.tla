--------------------------- MODULE MCSchemaBuilder ---------------------------
(***************************************************************************)
(* SchemaBuilder instantiated with small Go types.                        *)
(***************************************************************************)
EXTENDS SchemaBuilder

T(name, kind, elem, len, fields) ==
  [name |-> name, kind |-> kind, elem |-> elem, len |-> len, fields |-> fields]
F(name, tag, embed, type) == [name |-> name, tag |-> tag, embed |-> embed, type |-> type]
Struct(name, fields) == T(name, "struct", "", 0, fields)
Ptr(elem) == T("", "ptr", elem, 0, <<>>)
Slice(elem) == T("", "slice", elem, 0, <<>>)

(* type E struct { C int64; d string; D string `parquet:"x"` }            *)
(* type Inner struct { C int64 `parquet:"z"`; D [16]byte }                *)
(* type Record struct { A int64; B *Inner `parquet:"a"` }                 *)
(* type Tree struct { K []Tree; V int64 }                                  *)
GoTypes ==
  [id \in {"bool", "int64", "string", "uint8", "[16]byte", "[8]byte", "map",
           "*int64", "[]string", "E", "*E", "Inner", "*Inner", "[]Inner",
           "Record", "*Record", "Tree", "[]Tree"} |->
     CASE id \in LeafKinds -> T(id, id, "", 0, <<>>)
       [] id = "[16]byte" -> T("", "array", "uint8", 16, <<>>)
       [] id = "[8]byte"  -> T("", "array", "uint8", 8, <<>>)
       [] id = "map"      -> T("", "map", "", 0, <<>>)
       [] id = "*int64"   -> Ptr("int64")
       [] id = "[]string" -> Slice("string")
       [] id = "E"        -> Struct("E", <<F("C", "", FALSE, "int64"), F("d", "", FALSE, "string"),
                                          F("D", "x", FALSE, "string")>>)
       [] id = "*E"       -> Ptr("E")
       [] id = "Inner"    -> Struct("Inner", <<F("C", "z", FALSE, "int64"), F("D", "", FALSE, "[16]byte")>>)
       [] id = "*Inner"   -> Ptr("Inner")
       [] id = "[]Inner"  -> Slice("Inner")
       [] id = "Record"   -> Struct("Record", <<F("A", "", FALSE, "int64"), F("B", "a", FALSE, "*Inner")>>)
       [] id = "*Record"  -> Ptr("Record")
       [] id = "Tree"     -> Struct("Tree", <<F("K", "", FALSE, "[]Tree"), F("V", "", FALSE, "int64")>>)
       [] id = "[]Tree"   -> Slice("Tree")]

(* Anonymous struct types of up to n fields from descs, with distinct Go *)
(* field names as the compiler demands.                                    *)
StructsOf(descs, n) ==
  {Struct("", fs) : fs \in {s \in BoundedSeq(descs, n) :
                              \A i, j \in DOMAIN s : i # j => s[i].name # s[j].name}}

(* Fields: A int64, A []Inner `parquet:"c"`, B *Inner `parquet:"a"`, an   *)
(* unexported map b, an embedded E, an unsupported map M and [8]byte U,  *)
(* and a nested Inner I.                                                  *)
UniqueFieldDescs ==
  {F("A", "", FALSE, "int64"), F("A", "c", FALSE, "[]Inner"), F("B", "a", FALSE, "*Inner"),
   F("b", "", FALSE, "map"), F("E", "", TRUE, "E"), F("M", "", FALSE, "map"),
   F("U", "", FALSE, "[8]byte"), F("I", "", FALSE, "Inner")}

(* The models: the anonymous structs, a *Record, and non-struct models. *)
UniqueModels ==
  StructsOf(UniqueFieldDescs, 3)
    \cup {GoTypes["Record"], GoTypes["*Record"], GoTypes["int64"], GoTypes["*int64"]}

(* Also C beside the embedded E (Go lets it shadow E.C) and a tag naming *)
(* B "C": both give two children named C.                                  *)
ClashingModels ==
  StructsOf(UniqueFieldDescs \cup {F("C", "", FALSE, "int64"), F("B", "C", FALSE, "int64")}, 2)

(* A record holding a tree: struct { T Tree; V int64 }. *)
RecursiveModels ==
  {Struct("", <<F("T", "", FALSE, "Tree"), F("V", "", FALSE, "int64")>>)}

(* A record embedding a pointer: struct { *E; V int64 }. *)
EmbeddedPtrModels ==
  {Struct("", <<F("E", "", TRUE, "*E"), F("V", "", FALSE, "int64")>>)}

CrashModels == RecursiveModels \cup EmbeddedPtrModels

Names == <<"A", "B", "C", "D", "E", "I", "K", "M", "T", "U", "V",
           "a", "b", "c", "d", "x", "z">>
UpperCase == {"A", "B", "C", "D", "E", "I", "K", "M", "T", "U", "V"}

=============================================================================
