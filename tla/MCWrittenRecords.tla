-------------------------- MODULE MCWrittenRecords --------------------------
(***************************************************************************)
(* WrittenRecords instantiated with the schemas of MCSchemas.             *)
(***************************************************************************)
EXTENDS WrittenRecords, MCSchemas

=============================================================================
