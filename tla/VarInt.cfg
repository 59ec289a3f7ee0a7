SPECIFICATION Spec
CONSTANTS
  Radix = 2
  MaxSize = 4
  Modulus = 32
  MaxPage = 6
  Pages <- MCPages
INVARIANTS
  TypeOK
  ShortConsumed
  ShortDecoded
  CallsAreReads
  StopsWhereThePageEnds
PROPERTIES
  AlwaysForward
  Termination
