SPECIFICATION Spec
CONSTANTS
  Words <- MCWords
  Chars <- MCChars
  Schemas <- MCSchemas
INVARIANTS
  IfNotExistsPassedOver
