--------------------------- MODULE ColumnStripes ---------------------------
(***************************************************************************)
(* What Schema.Traverse promises (spec section 4.3 and 4.4), stated       *)
(* without any call stack: one call of Traverse delivers to the sink, in  *)
(* one go, the sequence Stripe(x) of (column, value, levels) entries that  *)
(* the dispatch rules define for the record x; if the sink returns an     *)
(* error on its k-th call the traversal stops there and the sink has      *)
(* received exactly the first k entries.                                   *)
(***************************************************************************)
EXTENDS ParquetSchema

VARIABLES input, out, status, failedAt

(* The entries for node n seen with cardinality c, holding Go value v     *)
(* (absent when ~present), reached with levels lv.                        *)
RECURSIVE Entries(_, _, _, _, _)
Entries(n, c, present, v, lv) ==
  LET s == Schema[n]
      Deeper(l) == [l EXCEPT !.definitionLevel = @ + 1]
  IN
  CASE c = "optional" ->
         \* rule 1: present and non-zero descends one definition level deeper
         IF present /\ ~IsZero(n, c, v)
         THEN Entries(n, "required", TRUE, IF s.ptr THEN v[1] ELSE v, Deeper(lv))
         ELSE Entries(n, "required", FALSE, NoValue, lv)
    [] s.kind = "list" ->
         \* rule 2: a LIST is the repetition of its list.element
         Entries(s.elem, "repeated", present, v, lv)
    [] c = "repeated" ->
         \* rule 3: depth grows for a present slice, definition for a non-nil
         \* one; elements after the first repeat at the new depth
         LET inner == [lv EXCEPT
                         !.repetitionDepth = @ + (IF present THEN 1 ELSE 0),
                         !.definitionLevel = @ + (IF present /\ ~v.isNil THEN 1 ELSE 0)]
         IN IF ~present \/ v.elems = <<>>
            THEN Entries(n, "required", FALSE, NoValue, inner)
            ELSE FlattenSeq([i \in DOMAIN v.elems |->
                   Entries(n, "required", TRUE, v.elems[i],
                           IF i = 1 THEN inner
                           ELSE [inner EXCEPT !.repetitionLevel = inner.repetitionDepth])])
    [] s.kind = "leaf" ->
         \* rule 5: one entry, null when absent
         <<[col |-> ColumnIndex(n), null |-> ~present,
            x |-> IF present THEN v ELSE 0,
            rep |-> lv.repetitionLevel, def |-> lv.definitionLevel]>>
    [] OTHER ->
         \* rule 4: every child in ChildNames order, absent ones included
         FlattenSeq([i \in DOMAIN s.children |->
           Entries(s.children[i], Schema[s.children[i]].card, present,
                   IF present THEN v[i] ELSE NoValue, lv)])

(* The stripe of a record.  A map record is the root struct whose fields  *)
(* are resolved by name: a key the map lacks is an absent field, as the   *)
(* code does it (spec section 7 would make it an error; the property     *)
(* RequiredColumnsNeverNull is about that), so the refinement compares   *)
(* the closures with the code's reading of maps.                           *)
Stripe(x) ==
  CASE x.p = <<>> -> Entries(Root, "required", FALSE, NoValue, ZeroLevels)
    [] x.isMap ->
         LET m == x.p[1]
             chs == Schema[Root].children
         IN FlattenSeq([i \in DOMAIN chs |->
              Entries(chs[i], Schema[chs[i]].card, i \in DOMAIN m,
                      IF i \in DOMAIN m THEN m[i] ELSE NoValue, ZeroLevels)])
    [] OTHER -> Entries(Root, "required", TRUE, x.p[1], ZeroLevels)

vars == <<input, out, status, failedAt>>

Init ==
  /\ input = [isPtr |-> TRUE, isMap |-> FALSE, p |-> <<>>]
  /\ out = <<>>
  /\ status = "idle"
  /\ failedAt = 0

(* Traverse is called with any record. *)
Begin ==
  /\ status \in {"idle", "done", "failed"}
  /\ status' = "running"
  /\ out' = <<>>
  /\ failedAt' = 0

Finish ==
  /\ status = "running"
  /\ status' = "done"
  /\ out' = Stripe(input)
  /\ UNCHANGED <<input, failedAt>>

Fail ==
  /\ status = "running"
  /\ LET s == Stripe(input) IN
     \E k \in 1..Len(s) :
       /\ out' = SubSeq(s, 1, k)
       /\ failedAt' = k
  /\ status' = "failed"
  /\ UNCHANGED input

Next == Begin \/ Finish \/ Fail

(* A step either leaves the state alone or is a Next step (the stuttering *)
(* disjunct first, which is cheapest to evaluate).                         *)
SafetySpec == Init /\ [][UNCHANGED vars \/ Next]_vars
Spec == SafetySpec /\ WF_vars(Finish \/ Fail)

=============================================================================
