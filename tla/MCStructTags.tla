---------------------------- MODULE MCStructTags ----------------------------
(***************************************************************************)
(* StructTags instantiated with the field types and tag options checked.  *)
(***************************************************************************)
EXTENDS StructTags

(* Every option keyword, with and without arguments, and one unknown     *)
(* option.                                                                 *)
AllOptions ==
  {<<w>> : w \in {"optional", "snappy", "gzip", "plain", "dict", "delta",
                  "list", "enum", "uuid", "decimal", "bogus"}}
    \cup {<<"decimal", "(", "1", ")">>, <<"optional", "(", ")">>}

(* Field types of every kind the switch distinguishes. *)
AllTypes == {"bool", "int32", "int64", "string", "[8]byte", "[]string", "[]map", "*int32", "map"}

(* A decimal with its two arguments, as spec section 4.2 writes it. *)
DecimalOption2 == {<<"decimal", "(", "1", ",", "2", ")">>}

=============================================================================
