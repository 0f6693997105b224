----------------------------- MODULE MCSchemas -----------------------------
(***************************************************************************)
(* The schemas the runs check: the node trees (ParquetSchema) that         *)
(* SchemaOf builds for small Go record types, each shown as its type.     *)
(***************************************************************************)

Leaf(card, ptr, vals) ==
  [kind |-> "leaf", card |-> card, ptr |-> ptr, children |-> <<>>, elem |-> "", vals |-> vals]
Group(card, ptr, children) ==
  [kind |-> "group", card |-> card, ptr |-> ptr, children |-> children, elem |-> "", vals |-> {}]
List(card, elem) ==
  [kind |-> "list", card |-> card, ptr |-> FALSE, children |-> <<>>, elem |-> elem, vals |-> {}]

(* type Record struct {                                                    *)
(*   D []struct { E []int64 `parquet:"e"`; H int64 `parquet:"h"` } `parquet:"d"` *)
(* }                                                                       *)
NestedNodes == {"root", "d", "e", "h"}
NestedSchema ==
  [n \in NestedNodes |->
     CASE n = "root" -> Group("required", FALSE, <<"d">>)
       [] n = "d"    -> Group("repeated", FALSE, <<"e", "h">>)
       [] n = "e"    -> Leaf("repeated", FALSE, {1})
       [] n = "h"    -> Leaf("required", FALSE, {0, 1})]

(* type Record struct {                                                    *)
(*   A *struct { C int64 `parquet:"c"` } `parquet:"a"`                     *)
(*   F int64   `parquet:"f,optional"`                                      *)
(*   G []int64 `parquet:"g,list,optional"`                                 *)
(* }                                                                       *)
OptionalNodes == {"root", "a", "c", "f", "g", "element"}
OptionalSchema ==
  [n \in OptionalNodes |->
     CASE n = "root"    -> Group("required", FALSE, <<"a", "f", "g">>)
       [] n = "a"       -> Group("optional", TRUE, <<"c">>)
       [] n = "c"       -> Leaf("required", FALSE, {0, 1})
       [] n = "f"       -> Leaf("optional", FALSE, {0, 1})
       [] n = "g"       -> List("optional", "element")
       [] n = "element" -> Leaf("required", FALSE, {0, 1})]

(* type Record struct {                                                    *)
(*   Items []struct { P *int64 `parquet:"p"` } `parquet:"items"`          *)
(* }                                                                       *)
ItemsNodes == {"root", "items", "p"}
ItemsSchema ==
  [n \in ItemsNodes |->
     CASE n = "root"  -> Group("required", FALSE, <<"items">>)
       [] n = "items" -> Group("repeated", FALSE, <<"p">>)
       [] n = "p"     -> Leaf("optional", TRUE, {0, 1})]

(* type Record struct {                                                    *)
(*   A int64 `parquet:"a"`                                                 *)
(*   B int64 `parquet:"b"`                                                 *)
(* }                                                                       *)
(* traversed as a map[string]int64 as well.                               *)
PairNodes == {"root", "a", "b"}
PairSchema ==
  [n \in PairNodes |->
     CASE n = "root" -> Group("required", FALSE, <<"a", "b">>)
       [] OTHER      -> Leaf("required", FALSE, {0, 1})]

(* The schema of the spec's concrete scenario (section 8):                *)
(* type Record struct {                                                    *)
(*   ID   int64    `parquet:"id"`                                         *)
(*   Tags []string `parquet:"tags,list,optional"`                          *)
(* }                                                                       *)
(* (strings are abstracted to the leaf values 0 and 1).                   *)
TagsNodes == {"root", "id", "tags", "element"}
TagsSchema ==
  [n \in TagsNodes |->
     CASE n = "root"    -> Group("required", FALSE, <<"id", "tags">>)
       [] n = "id"      -> Leaf("required", FALSE, {1, 2, 3})
       [] n = "tags"    -> List("optional", "element")
       [] n = "element" -> Leaf("required", FALSE, {0, 1})]

=============================================================================
