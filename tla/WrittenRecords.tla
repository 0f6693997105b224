--------------------------- MODULE WrittenRecords ---------------------------
(***************************************************************************)
(* Two records written one after the other with the same Schema: the plan  *)
(* newSchema compiled once is shared by both Traverse calls and each call   *)
(* threads its own levels (spec section 5).  The first record stays        *)
(* written while the second is any record, so that every pair of records  *)
(* is compared.                                                            *)
(***************************************************************************)
EXTENDS ParquetSchema

CONSTANTS SinkErrors

VARIABLES stack1, out1, status1, input1, failedAt1,
          stack2, out2, status2, input2, failedAt2

vars1 == <<stack1, out1, status1, input1, failedAt1>>
vars2 == <<stack2, out2, status2, input2, failedAt2>>
vars == <<vars1, vars2>>

First == INSTANCE SchemaTraversal WITH
  stack <- stack1, out <- out1, status <- status1, input <- input1, failedAt <- failedAt1
Second == INSTANCE SchemaTraversal WITH
  stack <- stack2, out <- out2, status <- status2, input <- input2, failedAt <- failedAt2

Init == First!Init /\ Second!Init

(* The first record is written to the end, then the second one is. *)
Next ==
  \/ status1 # "done" /\ First!Next /\ UNCHANGED vars2
  \/ status1 = "done" /\ Second!Next /\ UNCHANGED vars1

Spec == Init /\ [][Next]_vars

(* Two records with different fields (a pointer and the struct it points  *)
(* to being the same record) are never written as the same sink calls:    *)
(* the levels traverseFuncOfOptional and traverseFuncOfRepeated thread    *)
(* down keep apart a nil slice, an empty one, a nil pointer and a zero    *)
(* value.  A nil top-level pointer is not a record and is left out.       *)
Lossless ==
  (/\ status1 = "done" /\ status2 = "done" /\ out1 = out2
   /\ input1.p # <<>> /\ input2.p # <<>>)
    => input1.p = input2.p

=============================================================================
