# TLA+ models of the parquet schema core (`src/schema.go`)

This directory holds TLA+ models of the schema code in `src/schema.go`. They cover how a Go struct type becomes a schema tree, how the traversal plan is compiled from that tree, and how `Schema.Traverse` turns one Go value into (column, value, repetition level, definition level) entries for a sink. Every module is checked with TLC.

## The system

`spec.md` names four parts. Control flows through them in this order:

```
Go type ──► schema builder ──► Node tree ──► plan compiler (once) ──► executor (per record) ──► sink
```

| Part | Code (`src/schema.go`) | What it does |
|---|---|---|
| Node model | `node.go` (not in `src/`) | `Optional`, `Repeated`, `List`, `Encoded`, `Compressed` and the logical types wrap an inner node. |
| Schema builder, fields | `SchemaOf` 64, `namedSchemaOf` 78, `newSchema` 90, `structNodeOf` 179, `structFieldsOf` 197, `appendStructFields` 218, `indexOf` 258, `ChildByName` 236, `nodeOf` 453 | Accepts a struct or a pointer to one. Builds each field's node by recursing through pointers, slices and nested structs. Flattens embedded structs depth first and renames each field by its tag. Sorts the fields by name with `sort.Slice`, which is not stable. Finds a child by binary search. |
| Schema builder, tags | `makeStructField` 293, `nodeOf` 453, `split` 502, `splitOptionArgs` 511, `parseDecimalArgs` 519 | Parses the `parquet:"name,opt,opt(args)"` tag option by option. Rejects conflicting options by panicking. Applies the decorations in the order Compressed, Encoded, List, Optional. |
| Plan compiler | `makeTraverseFunc` 98, `traverseFuncOf` 568, the `traverseFuncOf*` cases 591–693 | Builds one closure per node: optional first, then LIST, then repeated, then required. Threads column indexes depth first in `ChildNames` order. |
| Executor | `Schema.Traverse` 159 and the closures | Walks the value and stamps levels. Calls the sink once per leaf value and stops at the first sink error. |

A schema is immutable once built. `Traverse` is synchronous and has no state shared between calls (spec §5), so nothing runs concurrently inside one traversal. The hard behaviour is sequential:
- recursion of closures over nested optional and repeated values;
- the nil, empty and zero cases;
- the sink failing on any call;
- tag options that interact across the whole option loop.

## Modules

| Module | Models | State and actions |
|---|---|---|
| `ParquetSchema` | the plan compiler | Constants: `Schema` (the node tree) and `MaxLen`. `TraverseFuncOf(n, c)` is the closure `traverseFuncOf` builds for node `n` seen with cardinality `c`. `ColumnIndex` is the index a leaf closure captures. `GoValues` and `IsZero` are the reflect value domain. No variables. |
| `SchemaTraversal` | the executor | Variables: `stack` holds one frame per running closure (closure, valid, value, levels, loop index, phase); `out` holds the sink calls; `status`; `input`; `failedAt`. There is one action per step of each closure: `OptionalCall`, the four steps of the repeated closure, the four steps of the group closure, and `LeafCall` (the sink may return an error, `SinkErrors`). `Traverse` starts a record. |
| `ColumnStripes` | what the executor promises | An abstract spec written from spec §4.3–4.4. `Entries` is the recursive stripe of a value. One step either delivers all of it (`Finish`) or a prefix ending at the failing sink call (`Fail`). |
| `WrittenRecords` | two traversals in sequence | Two instances of `SchemaTraversal`, used to compare the sink calls of two records. |
| `StructTags` | `makeStructField`, `nodeOf`, the tag parser | Variables: `type`, `given` (the tag), `tag` (the text not yet parsed), `node`, `optional`, `list`, `encodings`, `codecs`, `pc`, `result`. `Begin` skips the name. There is one action per case of the option switch (`OptionalOption` … `UnknownOption`). `Finish` applies the default node and the decorations. A panic is `pc = "panic"`. |
| `SchemaBuilder` | `SchemaOf` … `newSchema`, `structNodeOf`, `structFieldsOf`, `appendStructFields`, `nodeOf`, `indexOf`, `ChildByName` | Constants: `Types`, a table of Go types (records of kind, element, length and fields, where a field may refer back to its own struct), and `Models`. Variables: `model`, `schema`, `looked`. `SchemaOf(m)` runs `namedSchemaOf`'s type switch, `structNodeOf` of the root and `newSchema`'s plan, which panics if `indexOf` misses. Each sorted order `sort.Slice` may give the root's fields is a separate choice. `NodeOf` recurses as `nodeOf` does, carrying the set of struct types under construction. Reaching one of them again is a stack overflow. A panic is `Fail(why)`, where `why` is `panic` (the code's own), `reflect` (`NumField` on an embedded pointer), `runtime` (index out of range) or `overflow`. `ChildByName(name)` runs the `sort.Search` binary search (`SearchBetween`). The compiled plan is composed, not rewritten: `Plan(n)` instantiates `ParquetSchema` with the built tree as its `Schema` (`PlanSchema`: node ids are the paths of child positions, and the child at position i is `ChildByName(names[i])`, `PlanChild`). `LeafColumns` reads that instance's `Columns` back as name paths and the index paths `ValueByIndex` reads. |

`MC*` modules supply the checked constants:
- `MCSchemas`: four schemas, each with the Go type it stands for;
- `MCStructTags`: option texts and field types;
- `MCSchemaBuilder`: a table of 18 Go types and the struct models built from it.

### Abstractions

- **Go values.** A leaf holds a value from a small set, where 0 is the zero value. A struct is the tuple of its fields. A slice is `[isNil, elems]` with at most `MaxLen` elements. A pointer is `<<>>` (nil) or `<<v>>`. With `MapRecords`, a root record may also be a map from a subset of the child indexes to values (`MapValues`), for schemas whose root fields all have one type (`MapValued`), as `map[string]T` needs. A frame carries `isMap`; `ValidAt`/`ValueAt` are `ValueByIndex`'s `MapIndex`, which yields an invalid value for a missing key.
- **Levels.** The `levels` fields are `int8`; the increments wrap with `Int8`, as Go's do.
- **Tag strings.** A tag is a sequence of tokens: `,`, `(`, `)` and words. `split`, `splitOptionArgs` and `strings.Split` cut the sequence at the same places the Go code cuts the string.
- **String order.** Go compares strings by bytes. The model uses the order of the names in `ByteOrder`.
- **Nodes.** A node is a sequence of wrapper layers ending in a leaf. The constructors live in `node.go`, so they are written from spec §4.1 and marked `spec_modelled`.
- **Closures.** The recursive closures become an explicit call stack. A tail call (`return traverse(...)`) replaces the top frame. A call that waits for its callee pushes a frame.

## Refinement

`SchemaTraversal` implements `ColumnStripes`. The refinement mapping (`Stripes` in `SchemaTraversal`) works as follows:
- `out` is mapped to the sink calls once the traversal has ended, and to `<<>>` while it runs;
- `failedAt` is mapped only when the traversal failed.

Each run of the closures is therefore one `Finish` or `Fail` step of the abstract spec. `ImplementsColumnStripes` checks the abstract safety spec. The recursive `Entries` is the reference definition of striping, so this also checks the closures against spec §4.3 on every record of the model.

## Runs

| Run | Expect | What it shows |
|---|---|---|
| `traversal_nested` | pass (11.6k states) | On a slice of structs holding a slice, traversed as a struct and as a map whose keys may be missing, with a sink that may fail on any call, the traversal behaves as below. |
| `traversal_optional` | pass (3.1k states) | The same for optional pointer groups, optional non-pointer leaves and an optional LIST. |
| `written_optional`, `written_nested` | pass (206k and 639k states) | Two records that give the same sink calls are equal (`Lossless`). |
| `struct_tags` | pass (4.5k states) | Every option alone and in pairs, on 9 field types (`[16]byte` is left out: on it `uuid,uuid` is accepted although the spec rejects it; so are `int8`, `int16`, `uint8` and `uint16`, on which `delta` panics although the spec allows it; both divergences are recorded as hazards). `makeStructField` panics exactly on the tags spec §4.1/4.2/7 reject (`BuildFailsOnlyAsSpecified`). Otherwise it returns the node the spec describes (`BuiltNodeMatchesSpec`). |
| `schema_unique` | pass (2.6k states) | All 367 models: every struct of up to 3 fields drawn from 8 field shapes, and pointer and non-struct models. `indexOf` finds the first match or -1 (`IndexOfIsFirstMatch`). Unless the spec rejects the model, `SchemaOf` returns a schema in which every exported field is the child `ChildByName` returns for its resolved name (`FieldsReachableByName`). The columns `ParquetSchema` threads through the built tree (the same definition the traversal runs use) are the model's leaf fields, read through their index paths, in resolved-name order at every level (`ColumnsFollowFieldNames`). `SchemaOf` fails exactly on the types spec §7 rejects (`FailsExactlyOnRejectedTypes`). How it fails is left to `schema_crashes`: these models contain no type that crashes the build. |
| `traversal_map` | violation | A `map[string]int64` record with no key `a`, traversed with the schema of `struct{A int64; B int64}`, gives the required column `a` a null. Spec §7 asks for an error on a value that does not match the schema. |
| `traversal_scenario` | violation | Spec §8: `{id:2, tags:[]string{}}` should give def 1. The code gives 2. |
| `written_items` | violation | `items: []` and `items: [{p: nil}]` give the same sink calls. |
| `tags_decimal` | violation | `decimal(1,2)` on an int32 panics. |
| `fields_duplicates` | violation | Two fields with the same resolved name are accepted, and one of them cannot be reached. |
| `schema_crashes` | violation | `SchemaOfFailsOnlyAsSpecified`: the build fails only as spec §7 says, with a construction error, never by a crash. Violated twice: `struct{T Tree}`, with `Tree` holding a `[]Tree`, makes `nodeOf` recurse without end (a fatal stack overflow); `struct{*E; V int64}` makes `reflect` panic in `NumField` on the embedded pointer, a type the spec accepts. TLC stops at the first; `-continue` shows the second. |

In the two passing traversal runs, the properties say the following (the type invariant `TypeOK` is checked in `traversal_nested`):
- `LevelsMatchSchema`: levels stay within the schema's maxima, and a non-null value sits at the maximum definition level.
- `OneRecordPerTraverse`: each column starts exactly one record, with repetition level 0.
- `ColumnsAdvanceOrRepeat`: the sink moves to the next column, or repeats.
- `ImplementsColumnStripes`: the refinement above.
- `TraverseReturns`: every `Traverse` ends, done or failed.

`traversal_map` checks `RequiredColumnsNeverNull`: on a non-nil record, a column with no optional or repeated node above it (maximum definition level 0) is never written as null.

Spec §6 also says the sink is called in ascending column order. Inside a repeated group the closures emit the whole subtree of one element before the next, so a record's columns go 0,1,0,1. What holds is `ColumnsAdvanceOrRepeat`, and spec §4.3 describes that order.

The findings are recorded in `PROJECT.json`. `delta` on an int8, int16, uint8 or uint16 field is rejected although the spec's option table allows `delta` on any integer-kind field; it is kept as a hazard of the tag parser, not a run. The most important is `tags_decimal`: the `decimal(scale,precision)` tag shown in the `SchemaOf` doc comment can never be parsed, because the tag is split at every comma first.

Every property of a passing run has a mutant in `PROJECT.json`. Each mutant is a plausible bug in the mapped code (a dropped guard, a swapped order, a stale value) that TLC must catch.

## Bounds

- **Maps.** `traversal_nested` adds map records over the nested schema's root (every subset of keys). `traversal_map` uses a two-field schema and an empty slice bound; the empty map already shows the null.
- **Slices (`MaxLen = 2`).** Two elements are enough to have a first element and a repeated one at every nesting level. Two levels of repetition occur in the nested schema.
- **Leaf values.** Each leaf holds the zero value and one non-zero value. `id` holds three, for the §8 scenario.
- **Sink errors.** The sink may fail on any call, so every prefix of every stripe is reached.
- **Tags.** Tags have up to two options from 13 option texts. That covers every pair of conflicting options and every option with and without arguments.
- **Struct types.** The models of `schema_unique` are every struct of up to 3 of 8 field shapes:
  - an `int64`;
  - a renamed `[]Inner`;
  - a renamed `*Inner`;
  - an unexported map;
  - an embedded struct of 3 fields, one of them renamed;
  - an exported map;
  - a `[8]byte`;
  - a nested `Inner`, which holds a renamed field and a `[16]byte`.

  Four pointer and non-struct models are added. Together these reach every case of `nodeOf`, both arms of `namedSchemaOf` and its panic, and names that sort differently before and after renaming, at the root and in nested structs. The crash run needs one type that reaches itself through a slice and one struct embedding a pointer.

## Fairness

`SchemaTraversal` assumes weak fairness of `Step` (any closure step). `Traverse` is a synchronous computation that nothing suspends (spec §5), so once it is called it keeps running. The `Traverse` action itself gets no fairness, because the caller need not send another record. `StructTags` and `SchemaBuilder` check only safety. Schema construction is one call that returns or panics, and a panic ends the program, so the builder cfgs turn off the deadlock check: after a panicking build nothing follows.

## Not modelled

- **Composition of tags and nested structs, and of the builder with the executor.** `SchemaBuilder` follows only the tag's name. `StructTags` follows its options on leaf fields. The builder is composed with the plan compiler (`Plan(n)`), but the executor runs take hand-written trees as the constant `Schema`: built trees carry no tag options (`optional`, `list`), which those runs need, and a variable `Schema` would put every Go type's values into one state space.
- **int8 level overflow.** The levels wrap in the model as in the code, but reaching it needs a schema 128 optional levels deep, which TLC does not evaluate in reasonable time. It is a hazard with a note.
- **32-bit `ParseInt` in `parseDecimalArgs`.** It is unreachable: the tag is split at every comma first (the `tags_decimal` finding), so `parseDecimalArgs` never gets two arguments to parse.
- **Accessors and `String`/`Print`.** They only delegate to the root node or format text.

## Plan for further work

1. **Run the executor on built trees.** `Plan(n)` already feeds the builder's trees to `ParquetSchema`; an MC module could also give one built tree, with its values, to `SchemaTraversal`.
2. **Index-path aliasing.** Model the 3-index slice of `appendStructFields` (line 220), whose capacity keeps sibling index paths from sharing an array.
3. **`uuid` twice on `[16]byte`.** When a run can be spared, check this as a violation of `BuildFailsOnlyAsSpecified`.
