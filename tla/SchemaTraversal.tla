-------------------------- MODULE SchemaTraversal --------------------------
(***************************************************************************)
(* Schema.Traverse (schema.go) run on one record after another with the   *)
(* plan newSchema compiled once.  The closures traverseFuncOf builds call *)
(* one another recursively; here each invocation is a frame on an        *)
(* explicit call stack and each step of a closure is one action, so the   *)
(* order of the sink calls, the threading of the levels struct through   *)
(* the calls and the propagation of a sink error back up the stack are   *)
(* the code's own.                                                         *)
(***************************************************************************)
EXTENDS ParquetSchema

CONSTANTS
  SinkErrors  \* what Traversal.Traverse may return: TRUE is a non-nil error

VARIABLES
  stack,      \* the closures currently executing, innermost last
  out,        \* the sink calls of the current record: (column, value) pairs
  status,     \* "idle", "running", "done" or "failed" (Traverse returned an error)
  input,      \* the value passed to Schema.Traverse for the current record
  failedAt    \* the sink call that returned the error (0 if none)

vars == <<stack, out, status, input, failedAt>>

(* A new invocation of closure cl. *)
Call(cl, valid, value, lv) ==
  [cl |-> cl, valid |-> valid, value |-> value, isMap |-> FALSE, lv |-> lv,
   i |-> 1, phase |-> "call", err |-> FALSE]

Top == stack[Len(stack)]

(* Replace the running closure by a call it returns the result of. *)
TailCall(f) == stack' = [stack EXCEPT ![Len(stack)] = f]

(* Call f from the running closure and wait for its result. *)
Push(f) == stack' = Append([stack EXCEPT ![Len(stack)].phase = "wait"], f)

(* The running closure returns err (TRUE = non-nil) to its caller. *)
Return(err) ==
  IF Len(stack) = 1
  THEN /\ stack' = <<>>
       /\ status' = IF err THEN "failed" ELSE "done"
  ELSE /\ stack' = [Front(stack) EXCEPT ![Len(stack) - 1].phase = "resume",
                                        ![Len(stack) - 1].err = err]
       /\ UNCHANGED status

(* structNode.ValueByIndex on the value of frame f: MapIndex of names[i]  *)
(* on a map, an invalid value when the key is missing; field i of a       *)
(* struct.                                                                 *)
ValidAt(f, i) == f.isMap => i \in DOMAIN f.value
ValueAt(f, i) == IF ValidAt(f, i) THEN f.value[i] ELSE NoValue

-----------------------------------------------------------------------------
(* Schema.Traverse: dereference a pointer (nil becomes reflect.Value{})   *)
(* and invoke the compiled closure with zero levels.                      *)
Traverse(x) ==
  /\ status \in {"idle", "done", "failed"}
  /\ stack' = <<[Call(MakeTraverseFunc, x.p # <<>>,
                      IF x.p # <<>> THEN x.p[1] ELSE NoValue, ZeroLevels)
                   EXCEPT !.isMap = x.isMap]>>
  /\ status' = "running"
  /\ input' = x
  /\ out' = <<>>
  /\ failedAt' = 0

(* Mutants of OptionalCall: only a pointer raises the definition level;   *)
(* a zero value is not made absent; the zero check is made on the value  *)
(* a pointer points to.                                                   *)
OptionalCallDerefOnlyCounts ==
  /\ Top.phase = "call" /\ Top.cl.fn = "optional"
  /\ LET n       == Top.cl.node
         present == Top.valid /\ ~IsZero(n, "optional", Top.value)
         value   == IF Schema[n].ptr THEN Top.value[1] ELSE Top.value
     IN TailCall(Call(TraverseFuncOf(n, "required"), present,
                      IF present THEN value ELSE NoValue,
                      IF present /\ Schema[n].ptr
                      THEN [Top.lv EXCEPT !.definitionLevel = @ + 1] ELSE Top.lv))
  /\ UNCHANGED <<out, status, input, failedAt>>

OptionalCallNoZeroCheck ==
  /\ Top.phase = "call" /\ Top.cl.fn = "optional"
  /\ LET n       == Top.cl.node
         present == Top.valid /\ (Schema[n].ptr => Top.value # <<>>)
         value   == IF Schema[n].ptr THEN Top.value[1] ELSE Top.value
     IN TailCall(Call(TraverseFuncOf(n, "required"), present,
                      IF present THEN value ELSE NoValue,
                      IF present THEN [Top.lv EXCEPT !.definitionLevel = @ + 1]
                                 ELSE Top.lv))
  /\ UNCHANGED <<out, status, input, failedAt>>

OptionalCallZeroAfterDeref ==
  /\ Top.phase = "call" /\ Top.cl.fn = "optional"
  /\ LET n       == Top.cl.node
         present == /\ Top.valid
                    /\ IF Schema[n].ptr
                       THEN Top.value # <<>> /\ ~IsZero(n, "required", Top.value[1])
                       ELSE ~IsZero(n, "optional", Top.value)
         value   == IF Schema[n].ptr THEN Top.value[1] ELSE Top.value
     IN TailCall(Call(TraverseFuncOf(n, "required"), present,
                      IF present THEN value ELSE NoValue,
                      IF present THEN [Top.lv EXCEPT !.definitionLevel = @ + 1]
                                 ELSE Top.lv))
  /\ UNCHANGED <<out, status, input, failedAt>>

(* traverseFuncOfOptional: a zero value becomes absent; a present one is  *)
(* dereferenced if it is a pointer and raises the definition level.      *)
OptionalCall ==
  /\ Top.phase = "call" /\ Top.cl.fn = "optional"
  /\ LET n       == Top.cl.node
         present == Top.valid /\ ~IsZero(n, "optional", Top.value)
         value   == IF Schema[n].ptr THEN Top.value[1] ELSE Top.value
     IN TailCall(Call(TraverseFuncOf(n, "required"), present,
                      IF present THEN value ELSE NoValue,
                      IF present THEN [Top.lv EXCEPT !.definitionLevel = Int8(@ + 1)]
                                 ELSE Top.lv))
  /\ UNCHANGED <<out, status, input, failedAt>>

(* Mutants of RepeatedCall: the loop keeps the caller's levels; the first *)
(* element already repeats at the new depth; an empty slice never calls  *)
(* the element closure; a nil slice also raises the definition level.    *)
RepeatedCallStaleLevels ==
  /\ Top.phase = "call" /\ Top.cl.fn = "repeated"
  /\ LET numValues == IF Top.valid THEN Len(Top.value.elems) ELSE 0
         lv == [Top.lv EXCEPT
                  !.repetitionDepth = @ + (IF Top.valid THEN 1 ELSE 0),
                  !.definitionLevel = @ + (IF Top.valid /\ ~Top.value.isNil THEN 1 ELSE 0)]
     IN IF numValues = 0
        THEN TailCall(Call(TraverseFuncOf(Top.cl.node, "required"), FALSE, NoValue, lv))
        ELSE stack' = [stack EXCEPT ![Len(stack)].phase = "loop"]
  /\ UNCHANGED <<out, status, input, failedAt>>

RepeatedCallRepeatsFirst ==
  /\ Top.phase = "call" /\ Top.cl.fn = "repeated"
  /\ LET numValues == IF Top.valid THEN Len(Top.value.elems) ELSE 0
         lv == [Top.lv EXCEPT
                  !.repetitionDepth = @ + (IF Top.valid THEN 1 ELSE 0),
                  !.definitionLevel = @ + (IF Top.valid /\ ~Top.value.isNil THEN 1 ELSE 0)]
     IN IF numValues = 0
        THEN TailCall(Call(TraverseFuncOf(Top.cl.node, "required"), FALSE, NoValue, lv))
        ELSE stack' = [stack EXCEPT
                         ![Len(stack)].lv = [lv EXCEPT !.repetitionLevel = lv.repetitionDepth],
                         ![Len(stack)].phase = "loop"]
  /\ UNCHANGED <<out, status, input, failedAt>>

RepeatedCallEmptyStalls ==
  /\ Top.phase = "call" /\ Top.cl.fn = "repeated"
  /\ LET numValues == IF Top.valid THEN Len(Top.value.elems) ELSE 0
         lv == [Top.lv EXCEPT
                  !.repetitionDepth = @ + (IF Top.valid THEN 1 ELSE 0),
                  !.definitionLevel = @ + (IF Top.valid /\ ~Top.value.isNil THEN 1 ELSE 0)]
     IN IF numValues = 0
        THEN stack' = [stack EXCEPT ![Len(stack)].lv = lv]
        ELSE stack' = [stack EXCEPT ![Len(stack)].lv = lv, ![Len(stack)].phase = "loop"]
  /\ UNCHANGED <<out, status, input, failedAt>>

RepeatedCallIgnoresNil ==
  /\ Top.phase = "call" /\ Top.cl.fn = "repeated"
  /\ LET numValues == IF Top.valid THEN Len(Top.value.elems) ELSE 0
         lv == [Top.lv EXCEPT
                  !.repetitionDepth = @ + (IF Top.valid THEN 1 ELSE 0),
                  !.definitionLevel = @ + (IF Top.valid THEN 1 ELSE 0)]
     IN IF numValues = 0
        THEN TailCall(Call(TraverseFuncOf(Top.cl.node, "required"), FALSE, NoValue, lv))
        ELSE stack' = [stack EXCEPT ![Len(stack)].lv = lv, ![Len(stack)].phase = "loop"]
  /\ UNCHANGED <<out, status, input, failedAt>>

(* traverseFuncOfRepeated, entry: a present slice raises the repetition   *)
(* depth, a non-nil one the definition level; an empty or absent slice   *)
(* makes one call with reflect.Value{}.                                   *)
RepeatedCall ==
  /\ Top.phase = "call" /\ Top.cl.fn = "repeated"
  /\ LET numValues == IF Top.valid THEN Len(Top.value.elems) ELSE 0
         lv == [Top.lv EXCEPT
                  !.repetitionDepth = Int8(@ + (IF Top.valid THEN 1 ELSE 0)),
                  !.definitionLevel = Int8(@ + (IF Top.valid /\ ~Top.value.isNil THEN 1 ELSE 0))]
         elem == TraverseFuncOf(Top.cl.node, "required")
     IN IF numValues = 0
        THEN TailCall(Call(elem, FALSE, NoValue, lv))
        ELSE stack' = [stack EXCEPT ![Len(stack)].lv = lv,
                                    ![Len(stack)].phase = "loop"]
  /\ UNCHANGED <<out, status, input, failedAt>>

(* Mutant: the loop goes on after an element returned an error. *)
RepeatedElementIgnoringError ==
  /\ Top.phase = "loop" /\ Top.cl.fn = "repeated"
  /\ Top.i <= Len(Top.value.elems)
  /\ Push(Call(TraverseFuncOf(Top.cl.node, "required"), TRUE,
               Top.value.elems[Top.i], Top.lv))
  /\ UNCHANGED <<out, status, input, failedAt>>

(* traverseFuncOfRepeated, loop body: traverse element i. *)
RepeatedElement ==
  /\ Top.phase = "loop" /\ Top.cl.fn = "repeated"
  /\ Top.i <= Len(Top.value.elems) /\ ~Top.err
  /\ Push(Call(TraverseFuncOf(Top.cl.node, "required"), TRUE,
               Top.value.elems[Top.i], Top.lv))
  /\ UNCHANGED <<out, status, input, failedAt>>

(* Mutant of RepeatedNext: the repetition level is not set. *)
RepeatedNextKeepsLevel ==
  /\ Top.phase = "resume" /\ Top.cl.fn = "repeated"
  /\ stack' = [stack EXCEPT ![Len(stack)].i = @ + 1, ![Len(stack)].phase = "loop"]
  /\ UNCHANGED <<out, status, input, failedAt>>

(* After an element: every later element repeats at the current depth. *)
RepeatedNext ==
  /\ Top.phase = "resume" /\ Top.cl.fn = "repeated"
  /\ stack' = [stack EXCEPT
                 ![Len(stack)].lv.repetitionLevel = Top.lv.repetitionDepth,
                 ![Len(stack)].i = @ + 1,
                 ![Len(stack)].phase = "loop"]
  /\ UNCHANGED <<out, status, input, failedAt>>

(* The loop ends after the last element or at the first error. *)
RepeatedReturn ==
  /\ Top.phase = "loop" /\ Top.cl.fn = "repeated"
  /\ Top.i > Len(Top.value.elems) \/ Top.err
  /\ Return(Top.err)
  /\ UNCHANGED <<out, input, failedAt>>

(* traverseFuncOfGroup: call child i's closure with field i, or with the  *)
(* absent value itself when the group is absent.                          *)
GroupField ==
  /\ Top.phase \in {"call", "loop"} /\ Top.cl.fn = "group"
  /\ Top.i <= Len(ChildNames(Top.cl.node))
  /\ LET valid == Top.valid /\ ValidAt(Top, Top.i) IN
     Push(Call(ChildFunc(ChildNames(Top.cl.node)[Top.i]), valid,
               IF valid THEN ValueAt(Top, Top.i) ELSE NoValue, Top.lv))
  /\ UNCHANGED <<out, status, input, failedAt>>

(* A child returned nil: go on with the next one. *)
GroupNext ==
  /\ Top.phase = "resume" /\ Top.cl.fn = "group" /\ ~Top.err
  /\ stack' = [stack EXCEPT ![Len(stack)].i = @ + 1, ![Len(stack)].phase = "loop"]
  /\ UNCHANGED <<out, status, input, failedAt>>

(* A child returned an error: return it at once. *)
GroupError ==
  /\ Top.phase = "resume" /\ Top.cl.fn = "group" /\ Top.err
  /\ Return(TRUE)
  /\ UNCHANGED <<out, input, failedAt>>

(* Every child visited: return nil. *)
GroupReturn ==
  /\ Top.phase \in {"call", "loop"} /\ Top.cl.fn = "group"
  /\ Top.i > Len(ChildNames(Top.cl.node))
  /\ Return(FALSE)
  /\ UNCHANGED <<out, input, failedAt>>

(* traverseFuncOfLeaf: stamp the levels on the value (null when absent)   *)
(* and call the sink with the captured column index; return its result.  *)
LeafCall ==
  /\ Top.phase = "call" /\ Top.cl.fn = "leaf"
  /\ \E e \in SinkErrors :
       /\ out' = Append(out, [col |-> ColumnIndex(Top.cl.node),
                              null |-> ~Top.valid,
                              x |-> IF Top.valid THEN Top.value ELSE 0,
                              rep |-> Top.lv.repetitionLevel,
                              def |-> Top.lv.definitionLevel])
       /\ failedAt' = IF e THEN Len(out) + 1 ELSE failedAt
       /\ Return(e)
  /\ UNCHANGED input

Step ==
  /\ status = "running" /\ stack # <<>>
  /\ \/ OptionalCall
     \/ RepeatedCall \/ RepeatedElement \/ RepeatedNext \/ RepeatedReturn
     \/ GroupField \/ GroupNext \/ GroupError \/ GroupReturn
     \/ LeafCall

Init ==
  /\ stack = <<>>
  /\ out = <<>>
  /\ status = "idle"
  /\ input = [isPtr |-> TRUE, isMap |-> FALSE, p |-> <<>>]
  /\ failedAt = 0

Next == (\E x \in Inputs : Traverse(x)) \/ Step

(* Traverse is a synchronous computation: once called it keeps running. *)
Spec == Init /\ [][Next]_vars /\ WF_vars(Step)

-----------------------------------------------------------------------------
(***************************************************************************)
(* Properties.                                                             *)
(***************************************************************************)
Levels == [repetitionDepth : Nat, repetitionLevel : Nat, definitionLevel : Nat]

TypeOK ==
  /\ status \in {"idle", "running", "done", "failed"}
  /\ input \in Inputs
  /\ failedAt \in 0..Len(out)
  /\ \A k \in DOMAIN out :
       /\ out[k].col \in 0..(NumColumns - 1)
       /\ out[k].null \in BOOLEAN
       /\ out[k].rep \in Nat /\ out[k].def \in Nat
  /\ \A k \in DOMAIN stack : stack[k].lv \in Levels

(* Every value handed to the sink carries levels its column can have: the *)
(* definition level counts at most the optional and repeated nodes above  *)
(* the leaf and all of them when the value is not null, and the           *)
(* repetition level is at most the number of repeated ones (the levels   *)
(* traverseFuncOfOptional and traverseFuncOfRepeated thread down).       *)
LevelsMatchSchema ==
  \A k \in DOMAIN out :
    /\ out[k].def <= MaxDefinitionLevel(out[k].col)
    /\ out[k].rep <= MaxRepetitionLevel(out[k].col)
    /\ ~out[k].null => out[k].def = MaxDefinitionLevel(out[k].col)

(* A record gives a column with no optional or repeated node above its   *)
(* leaf no null: a record lacking such a field does not match the schema, *)
(* which spec section 7 makes a fatal error.  (A nil top-level pointer is *)
(* the absent root of spec section 4.4, and gives nulls throughout.)      *)
(* About the invalid value structNode.ValueByIndex returns for a key a    *)
(* map record lacks, which traverseFuncOfLeaf writes as a null.           *)
RequiredColumnsNeverNull ==
  input.p # <<>> =>
    \A k \in DOMAIN out : MaxDefinitionLevel(out[k].col) = 0 => ~out[k].null

(* The values of one column within one record, in sink-call order. *)
ColumnValues(s, col) == SelectSeq(s, LAMBDA e : e.col = col)

(* A record that Traverse completes gives every column at least one value, *)
(* and the column's first value, only that one, has repetition level 0,   *)
(* so that a reader splits the column into records where the writer did   *)
(* (traverseFuncOfRepeated's "first element keeps the caller's level").   *)
OneRecordPerTraverse ==
  status = "done" =>
    \A col \in 0..(NumColumns - 1) :
      LET vs == ColumnValues(out, col) IN
      /\ vs # <<>>
      /\ \A k \in DOMAIN vs : (vs[k].rep = 0) <=> (k = 1)

(* Every sink call is either for the column after the previous one or the *)
(* start of a repetition: the plan visits the columns in the depth-first   *)
(* order of traverseFuncOfGroup and only a repeated node goes back.       *)
ColumnsAdvanceOrRepeat ==
  [][Len(out') = Len(out) + 1 /\ out # <<>> =>
       \/ out'[Len(out')].col = out[Len(out)].col + 1
       \/ out'[Len(out')].rep > 0]_vars

(* Every call of Traverse returns: the closures only recurse into smaller  *)
(* values and every loop runs over a finite slice or child list.          *)
TraverseReturns == status = "running" ~> status \in {"done", "failed"}

(* The sink calls of a finished Traverse are the record's stripe; after a *)
(* sink error there is no further call (the error unwinds through every    *)
(* closure).                                                               *)
Stripes == INSTANCE ColumnStripes WITH
  out <- IF status \in {"done", "failed"} THEN out ELSE <<>>,
  status <- status,
  failedAt <- IF status = "failed" THEN failedAt ELSE 0

ImplementsColumnStripes == Stripes!SafetySpec

=============================================================================
