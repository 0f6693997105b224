CONSTANTS
  Nodes <- NestedNodes
  Schema <- NestedSchema
  Root = "root"
  MaxLen = 2
  MapRecords = FALSE
  SinkErrors = {FALSE}

SPECIFICATION Spec

INVARIANT Lossless
