\* A struct with a field whose type refers to itself through a slice, and a struct embedding a pointer to a struct.
CONSTANTS
  Types <- GoTypes
  Models <- CrashModels
  ByteOrder <- Names
  Exported <- UpperCase
SPECIFICATION Spec
INVARIANT SchemaOfFailsOnlyAsSpecified
\* A build that panics ends the program: nothing follows it.
CHECK_DEADLOCK FALSE
