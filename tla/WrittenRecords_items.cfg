CONSTANTS
  Nodes <- ItemsNodes
  Schema <- ItemsSchema
  Root = "root"
  MaxLen = 2
  MapRecords = FALSE
  SinkErrors = {FALSE}

SPECIFICATION Spec

INVARIANT Lossless
