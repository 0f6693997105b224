\* A struct of two required int64 fields, traversed also as a map[string]int64.
CONSTANTS
  Nodes <- PairNodes
  Schema <- PairSchema
  Root = "root"
  MaxLen = 0
  MapRecords = TRUE
  SinkErrors = {FALSE}

SPECIFICATION Spec

INVARIANT RequiredColumnsNeverNull
