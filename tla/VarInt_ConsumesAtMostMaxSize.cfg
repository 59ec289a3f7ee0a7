SPECIFICATION Safe
CONSTANTS
  Radix = 2
  MaxSize = 4
  Modulus = 32
  MaxPage = 6
  Pages <- MCPages
INVARIANTS
  ConsumesAtMostMaxSize
