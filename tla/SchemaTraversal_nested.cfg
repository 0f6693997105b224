\* Nested repeated fields: a slice of structs holding a slice.
CONSTANTS
  Nodes <- NestedNodes
  Schema <- NestedSchema
  Root = "root"
  MaxLen = 2
  MapRecords = TRUE
  SinkErrors = {FALSE, TRUE}

SPECIFICATION Spec

INVARIANT TypeOK
INVARIANT LevelsMatchSchema
INVARIANT OneRecordPerTraverse
PROPERTY ColumnsAdvanceOrRepeat
PROPERTY ImplementsColumnStripes
PROPERTY TraverseReturns
