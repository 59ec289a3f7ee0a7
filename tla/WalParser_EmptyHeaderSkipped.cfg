SPECIFICATION Safe
CONSTANTS
  Inputs <- MCInputs
  Records <- MCRecords
  Files <- MCFiles
  Options <- MCOptions
  Names = {"foo", "bar", "a", "b", "c", "d"}
  NoInput = NoInput
  NoName = NoName
  NoData = NoData
  Contents = {"d1", "d2", "d3", "d4"}
  NoSalt = NoSalt
  Salts = {"good", "stale"}
INVARIANTS
  EmptyHeaderSkipped
