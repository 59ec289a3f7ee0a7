SPECIFICATION Spec
CONSTANTS
  Absent = Absent
  Given = Given
  MaxWords = 4
  Words <- MCWords
  CommandLines <- MCCommandLines
INVARIANTS
  TypeOK
  AcceptedComplete
  ReadAsWritten
