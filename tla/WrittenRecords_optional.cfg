CONSTANTS
  Nodes <- OptionalNodes
  Schema <- OptionalSchema
  Root = "root"
  MaxLen = 2
  MapRecords = FALSE
  SinkErrors = {FALSE}

SPECIFICATION Spec

INVARIANT Lossless
