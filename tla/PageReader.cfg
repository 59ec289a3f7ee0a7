SPECIFICATION Spec
CONSTANTS
  Radix = 16
  MaxSize = 3
  Modulus = 8192
  MaxBody = 6
  PageBytes <- MCPages
INVARIANTS
  TypeOK
  PointersFit
  OnlyCutCellsKill
  NeverTruncated
  ColumnsBehindHeader
  NumbersShown
  PagePresented
PROPERTIES
  CellsOfWalParser
  AlwaysNearer
  Termination
