\* Optional fields: a pointer to a struct, a value tagged optional, an optional LIST.
CONSTANTS
  Nodes <- OptionalNodes
  Schema <- OptionalSchema
  Root = "root"
  MaxLen = 2
  MapRecords = FALSE
  SinkErrors = {FALSE, TRUE}

SPECIFICATION Spec

INVARIANT LevelsMatchSchema
INVARIANT OneRecordPerTraverse
PROPERTY ColumnsAdvanceOrRepeat
PROPERTY ImplementsColumnStripes
PROPERTY TraverseReturns
