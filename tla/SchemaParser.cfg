SPECIFICATION Spec
CONSTANTS
  Words <- MCWords
  Chars <- MCChars
  Schemas <- MCSchemas
INVARIANTS
  TypeOK
  LoadedAsDefined
  LeavesAnInput
  ColumnsAreNames
  KeyIfPrimary
  KeyAsDefined
  PlainAccepted
