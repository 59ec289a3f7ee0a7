SPECIFICATION FSpec
CONSTANTS
  Inputs <- MCInputs
  Records <- MCRecords
  Names = {"foo", "bar", "a", "b", "c", "d"}
  NoInput = NoInput
  NoName = NoName
  NoData = NoData
INVARIANTS RowidInDecimal
CHECK_DEADLOCK FALSE
