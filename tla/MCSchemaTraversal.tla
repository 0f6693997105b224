------------------------- MODULE MCSchemaTraversal -------------------------
(***************************************************************************)
(* SchemaTraversal instantiated with the schemas of MCSchemas.            *)
(***************************************************************************)
EXTENDS SchemaTraversal, MCSchemas

(* Spec section 8, concrete scenario for TagsSchema: the record           *)
(* {id: 2, tags: []string{}} (present but empty) gives the tags.element   *)
(* column one placeholder with definition level 1, one more than for      *)
(* tags: nil.  About traverseFuncOfOptional and traverseFuncOfRepeated.   *)
ScenarioEmptyTags ==
  (status = "done" /\ input.p # <<>>
     /\ input.p[1][2] = [isNil |-> FALSE, elems |-> <<>>])
    => ColumnValues(out, 1) = <<[col |-> 1, null |-> TRUE, x |-> 0, rep |-> 0, def |-> 1]>>

=============================================================================
