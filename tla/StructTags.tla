----------------------------- MODULE StructTags -----------------------------
(***************************************************************************)
(* makeStructField (schema.go): the node of one struct field, built from   *)
(* its Go type and its `parquet:"..."` tag.  The option loop is a state    *)
(* machine: Begin takes a field and skips the name part of the tag, every *)
(* option of the tag is one step of the switch, Finish applies the        *)
(* default node and the decorations.  A panic of the code (the throw*     *)
(* helpers, nodeOf) is the state pc = "panic".                             *)
(*                                                                         *)
(* A tag string is a sequence of tokens: the separators ",", "(" and ")", *)
(* and words (option keywords, a field name, digits).  split,             *)
(* splitOptionArgs and parseDecimalArgs work on those sequences exactly   *)
(* as the Go functions work on the characters.                            *)
(*                                                                         *)
(* A node is a sequence of layers, outermost first, ending with the leaf  *)
(* layer; a layer is [w |-> wrapper or "leaf", a |-> its arguments].      *)
(***************************************************************************)
EXTENDS Integers, Sequences, SequencesExt

CONSTANTS
  FieldTypes,   \* the Go types of the fields built (names of GoTypes)
  OptionTexts,  \* the option texts a tag is made of
  MaxOptions    \* the most options in one tag

Digits == {"0", "1", "2"}

(* reflect.Type of the field types, abstracted to Kind, Elem and Len. *)
GoTypes ==
  [t \in {"bool", "int16", "int32", "int64", "uint8", "string", "[16]byte",
          "[8]byte", "[]string", "[]map", "*int32", "map"} |->
     CASE t = "bool"     -> [kind |-> "Bool",   elem |-> "", len |-> 0]
       [] t = "int16"    -> [kind |-> "Int16",  elem |-> "", len |-> 0]
       [] t = "int32"    -> [kind |-> "Int32",  elem |-> "", len |-> 0]
       [] t = "int64"    -> [kind |-> "Int64",  elem |-> "", len |-> 0]
       [] t = "uint8"    -> [kind |-> "Uint8",  elem |-> "", len |-> 0]
       [] t = "string"   -> [kind |-> "String", elem |-> "", len |-> 0]
       [] t = "[16]byte" -> [kind |-> "Array",  elem |-> "uint8", len |-> 16]
       [] t = "[8]byte"  -> [kind |-> "Array",  elem |-> "uint8", len |-> 8]
       [] t = "[]string" -> [kind |-> "Slice",  elem |-> "string", len |-> 0]
       [] t = "[]map"    -> [kind |-> "Slice",  elem |-> "map", len |-> 0]
       [] t = "*int32"   -> [kind |-> "Ptr",    elem |-> "int32", len |-> 0]
       [] t = "map"      -> [kind |-> "Map",    elem |-> "", len |-> 0]]

Kind(t) == GoTypes[t].kind

ASSUME FieldTypes \subseteq DOMAIN GoTypes /\ MaxOptions \in Nat

(***************************************************************************)
(* Nodes.  The constructors live in node.go, outside the analysed source; *)
(* they are written from spec section 4.1: a decoration wraps its inner   *)
(* node, and the same decoration class applied twice directly fails.      *)
(***************************************************************************)
NoNode == <<>>
Unsupported == <<[w |-> "unsupported", a |-> <<>>]>>

Leaf(name) == <<[w |-> "leaf", a |-> <<name>>]>>
Wrap(w, a, n) ==
  IF n = Unsupported \/ n[1].w = w THEN Unsupported
  ELSE <<[w |-> w, a |-> a]>> \o n
Optional(n) == Wrap("optional", <<>>, n)
Repeated(n) == Wrap("repeated", <<>>, n)
List(n) == Wrap("list", <<>>, n)
Compressed(n, codecs) == IF codecs = <<>> THEN n ELSE Wrap("compressed", codecs, n)
Encoded(n, encodings) == IF encodings = <<>> THEN n ELSE Wrap("encoded", encodings, n)
Enum == Leaf("enum")
UUID == Leaf("uuid")
Decimal(scale, precision, base) ==
  <<[w |-> "leaf", a |-> <<"decimal", ToString(scale), ToString(precision), base>>]>>

(* nodeOf: the default node of a Go type; Unsupported where it panics. *)
RECURSIVE NodeOf(_)
NodeOf(t) ==
  CASE Kind(t) = "Bool"                     -> Leaf("boolean")
    [] Kind(t) \in {"Int16", "Int32", "Int64"} -> Leaf(t)
    [] Kind(t) = "Uint8"                    -> Leaf("uint8")
    [] Kind(t) = "String"                   -> Leaf("string")
    [] Kind(t) = "Ptr"                      -> Optional(NodeOf(GoTypes[t].elem))
    [] Kind(t) = "Slice"                    -> Repeated(NodeOf(GoTypes[t].elem))
    [] Kind(t) = "Array" /\ Kind(GoTypes[t].elem) = "Uint8" /\ GoTypes[t].len = 16
                                            -> UUID
    [] OTHER                                -> Unsupported

(***************************************************************************)
(* The tag parser.                                                         *)
(***************************************************************************)
FirstIndexOf(s, c) == SelectInSeq(s, LAMBDA x : x = c)

(* split: the text before the first comma, and the text after it. *)
Split(s) ==
  LET i == FirstIndexOf(s, ",") IN
  IF i = 0 THEN [head |-> s, tail |-> <<>>]
  ELSE [head |-> SubSeq(s, 1, i - 1), tail |-> SubSeq(s, i + 1, Len(s))]

(* splitOptionArgs: the option before the first "(", and the rest from   *)
(* it on; "()" when there is none.                                         *)
SplitOptionArgs(s) ==
  LET i == FirstIndexOf(s, "(") IN
  IF i = 0 THEN [option |-> s, args |-> <<"(", ")">>]
  ELSE [option |-> SubSeq(s, 1, i - 1), args |-> SubSeq(s, i, Len(s))]

(* strings.Split(s, ","): every piece between commas. *)
RECURSIVE SplitAll(_)
SplitAll(s) ==
  LET i == FirstIndexOf(s, ",") IN
  IF i = 0 THEN <<s>> ELSE <<SubSeq(s, 1, i - 1)>> \o SplitAll(SubSeq(s, i + 1, Len(s)))

(* strconv.ParseInt(s, 10, 32) of a short decimal text. *)
IsInt(s) == s # <<>> /\ \A i \in DOMAIN s : s[i] \in Digits
IntOf(s) == FoldLeft(LAMBDA acc, d : 10 * acc + (CHOOSE v \in 0..2 : ToString(v) = d), 0, s)

(* parseDecimalArgs: "(scale,precision)" as two integers. *)
ParseDecimalArgs(args) ==
  LET inner == SubSeq(args, 2, Len(args) - 1)
      parts == SplitAll(inner)
  IN IF \/ args = <<>> \/ args[1] # "(" \/ Last(args) # ")"
        \/ Len(parts) # 2 \/ ~IsInt(parts[1]) \/ ~IsInt(parts[2])
     THEN [err |-> TRUE, scale |-> 0, precision |-> 0]
     ELSE [err |-> FALSE, scale |-> IntOf(parts[1]), precision |-> IntOf(parts[2])]

(* The tags of the checked fields: none, or a name followed by up to      *)
(* MaxOptions options, comma separated.                                   *)
Tags ==
  {<<>>} \cup
  {<<"n">> \o FlattenSeq([i \in DOMAIN os |-> <<",">> \o os[i]]) :
     os \in BoundedSeq(OptionTexts, MaxOptions)}

(***************************************************************************)
(* The option loop of makeStructField.                                     *)
(***************************************************************************)
VARIABLES
  type,       \* f.Type
  given,      \* f.Tag.Get("parquet")
  tag,        \* the text of the tag not yet parsed
  node,       \* field.Node, NoNode while nil
  optional, list, encodings, codecs,
  pc,         \* "idle", "options" (in the loop), "done" or "panic"
  result      \* the node makeStructField returns

vars == <<type, given, tag, node, optional, list, encodings, codecs, pc, result>>
loopVars == <<tag, node, optional, list, encodings, codecs>>

Init ==
  /\ type = CHOOSE t \in FieldTypes : TRUE
  /\ given = <<>> /\ tag = <<>> /\ node = NoNode
  /\ optional = FALSE /\ list = FALSE /\ encodings = <<>> /\ codecs = <<>>
  /\ pc = "idle" /\ result = NoNode

(* Mutant: the loop starts from the tag of the field built before. *)
BeginStaleTag(t, g) ==
  /\ pc \in {"idle", "done", "panic"}
  /\ type' = t /\ given' = g
  /\ tag' = IF given = <<>> THEN <<>> ELSE Split(given).tail
  /\ node' = NoNode /\ optional' = FALSE /\ list' = FALSE
  /\ encodings' = <<>> /\ codecs' = <<>>
  /\ pc' = "options" /\ result' = NoNode

(* makeStructField(f) is called; the name part of a non-empty tag is      *)
(* skipped.                                                                *)
Begin(t, g) ==
  /\ pc \in {"idle", "done", "panic"}
  /\ type' = t /\ given' = g
  /\ tag' = IF g = <<>> THEN <<>> ELSE Split(g).tail
  /\ node' = NoNode /\ optional' = FALSE /\ list' = FALSE
  /\ encodings' = <<>> /\ codecs' = <<>>
  /\ pc' = "options" /\ result' = NoNode

(* The option the loop looks at, its arguments, and the text after it. *)
Option == SplitOptionArgs(Split(tag).head).option
Args == SplitOptionArgs(Split(tag).head).args
Rest == Split(tag).tail
AtOption(words) == pc = "options" /\ tag # <<>> /\ Option \in {<<w>> : w \in words}

(* throwInvalidStructField, throwInvalidFieldTag, throwUnknownFieldTag. *)
Throw ==
  /\ pc' = "panic"
  /\ UNCHANGED <<type, given, loopVars, result>>

(* One option consumed with the given loop state changes. *)
Consumed == tag' = Rest /\ UNCHANGED <<type, given, pc, result>>

(* setNode *)
SetNode(n) ==
  IF node # NoNode THEN Throw
  ELSE node' = n /\ Consumed /\ UNCHANGED <<optional, list, encodings, codecs>>

(* Mutant: setEncoding without the check for an encoding declared twice. *)
SetEncodingUnchecked(e) ==
  encodings' = Append(encodings, e) /\ Consumed /\ UNCHANGED <<node, optional, list, codecs>>

(* setEncoding: an encoding already declared panics. *)
SetEncoding(e) ==
  IF e \in ToSet(encodings) THEN Throw
  ELSE encodings' = Append(encodings, e) /\ Consumed
       /\ UNCHANGED <<node, optional, list, codecs>>

OptionalOption ==
  /\ AtOption({"optional"})
  /\ IF optional THEN Throw
     ELSE optional' = TRUE /\ Consumed /\ UNCHANGED <<node, list, encodings, codecs>>

(* setCompression: a codec already declared panics. *)
CompressionOption ==
  /\ AtOption({"snappy", "gzip", "brotli", "lz4", "zstd"})
  /\ IF Option[1] \in ToSet(codecs) THEN Throw
     ELSE codecs' = Append(codecs, Option[1]) /\ Consumed
          /\ UNCHANGED <<node, optional, list, encodings>>

EncodingOption ==
  /\ AtOption({"plain", "dict"})
  /\ SetEncoding(Option[1])

DeltaOption ==
  /\ AtOption({"delta"})
  /\ IF Kind(type) \in {"Int", "Int32", "Int64", "Uint", "Uint32", "Uint64"}
     THEN SetEncoding("delta")
     ELSE Throw

(* list: the element node, then setNode, then setList. *)
ListOption ==
  /\ AtOption({"list"})
  /\ IF Kind(type) = "Slice" /\ NodeOf(GoTypes[type].elem) # Unsupported
     THEN IF node # NoNode \/ list THEN Throw
          ELSE /\ node' = NodeOf(GoTypes[type].elem) /\ list' = TRUE
               /\ Consumed /\ UNCHANGED <<optional, encodings, codecs>>
     ELSE Throw

EnumOption ==
  /\ AtOption({"enum"})
  /\ IF Kind(type) = "String" THEN SetNode(Enum) ELSE Throw

(* uuid on a [16]byte declares nothing: nodeOf gives it UUID later. *)
UuidOption ==
  /\ AtOption({"uuid"})
  /\ CASE Kind(type) = "String" -> SetNode(UUID)
       [] Kind(type) = "Array" /\ Kind(GoTypes[type].elem) = "Uint8" /\ GoTypes[type].len = 16
                                -> Consumed /\ UNCHANGED <<node, optional, list, encodings, codecs>>
       [] OTHER                 -> Throw

(* decimal: the arguments are parsed before the type is looked at. *)
DecimalOption ==
  /\ AtOption({"decimal"})
  /\ LET d == ParseDecimalArgs(Args) IN
     IF d.err \/ Kind(type) \notin {"Int32", "Int64"} THEN Throw
     ELSE SetNode(Decimal(d.scale, d.precision, type))

KnownOptions ==
  {"optional", "snappy", "gzip", "brotli", "lz4", "zstd", "plain", "dict",
   "delta", "list", "enum", "uuid", "decimal"}

UnknownOption ==
  /\ pc = "options" /\ tag # <<>> /\ Option \notin {<<w>> : w \in KnownOptions}
  /\ Throw

(* Mutant: the optional wrapper is applied before the list wrapper. *)
FinishOptionalInsideList ==
  /\ pc = "options" /\ tag = <<>>
  /\ LET base == IF node = NoNode THEN NodeOf(type) ELSE node
         n1 == Encoded(Compressed(base, codecs), encodings)
         n2 == IF optional THEN Optional(n1) ELSE n1
         n3 == IF list THEN List(n2) ELSE n2
     IN IF n3 = Unsupported THEN Throw
        ELSE result' = n3 /\ pc' = "done" /\ UNCHANGED <<type, given, loopVars>>

(* After the loop: the default node, then Compressed, Encoded, List and   *)
(* Optional, in that order.                                                *)
Finish ==
  /\ pc = "options" /\ tag = <<>>
  /\ LET base == IF node = NoNode THEN NodeOf(type) ELSE node
         n1 == Encoded(Compressed(base, codecs), encodings)
         n2 == IF list THEN List(n1) ELSE n1
         n3 == IF optional THEN Optional(n2) ELSE n2
     IN IF n3 = Unsupported THEN Throw
        ELSE result' = n3 /\ pc' = "done" /\ UNCHANGED <<type, given, loopVars>>

OptionStep ==
  \/ OptionalOption \/ CompressionOption \/ EncodingOption \/ DeltaOption
  \/ ListOption \/ EnumOption \/ UuidOption \/ DecimalOption \/ UnknownOption

Next ==
  \/ \E t \in FieldTypes, g \in Tags : Begin(t, g)
  \/ OptionStep
  \/ Finish

Spec == Init /\ [][Next]_vars

(***************************************************************************)
(* What spec section 4.2 says a tag means, written from the spec: the     *)
(* elements of the tag are separated by the commas outside parentheses;   *)
(* the first is the name, every other one a keyword with an optional      *)
(* parenthesised argument list.                                            *)
(***************************************************************************)
Depth(s, i) ==
  Len(SelectSeq(SubSeq(s, 1, i - 1), LAMBDA c : c = "("))
    - Len(SelectSeq(SubSeq(s, 1, i - 1), LAMBDA c : c = ")"))

RECURSIVE SpecElements(_)
SpecElements(s) ==
  LET I == {i \in DOMAIN s : s[i] = "," /\ Depth(s, i) = 0} IN
  IF I = {} THEN <<s>>
  ELSE <<SubSeq(s, 1, Min(I) - 1)>> \o SpecElements(SubSeq(s, Min(I) + 1, Len(s)))

(* An option element: its keyword, and the texts inside its parentheses. *)
SpecOption(e) ==
  LET i == FirstIndexOf(e, "(") IN
  IF i = 0 THEN [kw |-> e, args |-> <<>>, wellFormed |-> TRUE]
  ELSE [kw |-> SubSeq(e, 1, i - 1),
        args |-> SplitAll(SubSeq(e, i + 1, Len(e) - 1)),
        wellFormed |-> Last(e) = ")"]

SpecOptions(g) ==
  IF g = <<>> THEN <<>>
  ELSE [i \in 1..(Len(SpecElements(g)) - 1) |-> SpecOption(SpecElements(g)[i + 1])]

Logical == {<<"list">>, <<"enum">>, <<"uuid">>, <<"decimal">>}
Codecs == {<<"snappy">>, <<"gzip">>, <<"brotli">>, <<"lz4">>, <<"zstd">>}
Encodings == {<<"plain">>, <<"dict">>, <<"delta">>}
IntegerKinds == {"Int16", "Int32", "Int64", "Uint8"}

SpecDecimalOK(o) ==
  o.wellFormed /\ Len(o.args) = 2 /\ IsInt(o.args[1]) /\ IsInt(o.args[2])

(* The precondition column of the table. *)
SpecPrecondition(o, t) ==
  CASE o.kw = <<"delta">>   -> Kind(t) \in IntegerKinds
    [] o.kw = <<"list">>    -> Kind(t) = "Slice" /\ NodeOf(GoTypes[t].elem) # Unsupported
    [] o.kw = <<"enum">>    -> Kind(t) = "String"
    [] o.kw = <<"uuid">>    -> \/ Kind(t) = "String"
                               \/ Kind(t) = "Array" /\ GoTypes[t].len = 16
                                  /\ Kind(GoTypes[t].elem) = "Uint8"
    [] o.kw = <<"decimal">> -> Kind(t) \in {"Int32", "Int64"} /\ SpecDecimalOK(o)
    [] OTHER                -> TRUE

(* The logical type an option declares. *)
SpecLogicalNode(o, t) ==
  CASE o.kw = <<"list">> -> NodeOf(GoTypes[t].elem)
    [] o.kw = <<"enum">> -> Enum
    [] o.kw = <<"uuid">> -> UUID
    [] OTHER -> Decimal(IntOf(o.args[1]), IntOf(o.args[2]), t)

(* The node the spec builds for a field of type t with tag g: the         *)
(* declared logical type or the default node, then codecs and encodings   *)
(* in the order declared, then the list wrapper, then optional.           *)
SpecNode(t, g) ==
  LET os == SpecOptions(g)
      kws == [i \in DOMAIN os |-> os[i].kw]
      logical == SelectSeq(os, LAMBDA o : o.kw \in Logical)
      base == IF logical = <<>> THEN NodeOf(t) ELSE SpecLogicalNode(logical[1], t)
      Named(S) == [i \in DOMAIN SelectSeq(kws, LAMBDA k : k \in S) |->
                     SelectSeq(kws, LAMBDA k : k \in S)[i][1]]
      n1 == Encoded(Compressed(base, Named(Codecs)), Named(Encodings))
      n2 == IF <<"list">> \in ToSet(kws) THEN List(n1) ELSE n1
  IN IF <<"optional">> \in ToSet(kws) THEN Optional(n2) ELSE n2

(* The build fails: an unknown option, an option declared twice, two     *)
(* logical types, a precondition not met, or a node that cannot be made.  *)
SpecRejects(t, g) ==
  LET os == SpecOptions(g)
      kws == [i \in DOMAIN os |-> os[i].kw]
      Twice(k) == Len(SelectSeq(kws, LAMBDA x : x = k)) > 1
  IN \/ \E i \in DOMAIN os : os[i].kw \notin {<<w>> : w \in KnownOptions}
     \/ \E k \in {<<"optional">>} \cup Codecs \cup Encodings : Twice(k)
     \/ Len(SelectSeq(kws, LAMBDA k : k \in Logical)) > 1
     \/ \E i \in DOMAIN os : ~SpecPrecondition(os[i], t)
     \/ SpecNode(t, g) = Unsupported

(***************************************************************************)
(* Properties.                                                             *)
(***************************************************************************)
TypeOK ==
  /\ type \in FieldTypes /\ given \in Tags
  /\ pc \in {"idle", "options", "done", "panic"}
  /\ optional \in BOOLEAN /\ list \in BOOLEAN
  /\ IsSuffix(tag, given)
  /\ ToSet(encodings) \subseteq {"plain", "dict", "delta"}
  /\ ToSet(codecs) \subseteq {"snappy", "gzip", "brotli", "lz4", "zstd"}

(* makeStructField panics exactly on the tags spec sections 4.1, 4.2 and  *)
(* 7 call construction errors: the whole option loop, not one case of the *)
(* switch, decides it.                                                     *)
BuildFailsOnlyAsSpecified ==
  pc \in {"done", "panic"} => (pc = "panic" <=> SpecRejects(type, given))

(* A field makeStructField accepts gets the node the spec describes: the  *)
(* right logical type and the decorations in the fixed order.             *)
BuiltNodeMatchesSpec ==
  pc = "done" => result = SpecNode(type, given)

=============================================================================
