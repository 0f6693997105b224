\* The decimal option with its two arguments on an int32 field.
CONSTANTS
  FieldTypes = {"int32"}
  OptionTexts <- DecimalOption2
  MaxOptions = 1

SPECIFICATION Spec

INVARIANT BuildFailsOnlyAsSpecified
