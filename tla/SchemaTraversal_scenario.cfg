\* Spec section 8 scenario: {id, tags optional list} with tags present but empty.
CONSTANTS
  Nodes <- TagsNodes
  Schema <- TagsSchema
  Root = "root"
  MaxLen = 2
  MapRecords = FALSE
  SinkErrors = {FALSE}

SPECIFICATION Spec

INVARIANT ScenarioEmptyTags
