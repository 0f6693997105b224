\* Struct types whose resolved field names are distinct, with nested, pointer, slice and embedded structs.
CONSTANTS
  Types <- GoTypes
  Models <- UniqueModels
  ByteOrder <- Names
  Exported <- UpperCase
SPECIFICATION Spec
INVARIANT TypeOK
INVARIANT IndexOfIsFirstMatch
INVARIANT FieldsReachableByName
INVARIANT ColumnsFollowFieldNames
INVARIANT FailsExactlyOnRejectedTypes
\* A build that panics ends the program: nothing follows it.
CHECK_DEADLOCK FALSE
