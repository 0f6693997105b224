\* Every option, alone and in pairs, on fields of every kind.
CONSTANTS
  FieldTypes <- AllTypes
  OptionTexts <- AllOptions
  MaxOptions = 2

SPECIFICATION Spec

INVARIANT TypeOK
INVARIANT BuildFailsOnlyAsSpecified
INVARIANT BuiltNodeMatchesSpec
