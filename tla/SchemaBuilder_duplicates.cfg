\* Struct types in which two fields resolve to the same name.
CONSTANTS
  Types <- GoTypes
  Models <- ClashingModels
  ByteOrder <- Names
  Exported <- UpperCase
SPECIFICATION Spec
INVARIANT FieldsReachableByName
\* A build that panics ends the program: nothing follows it.
CHECK_DEADLOCK FALSE
