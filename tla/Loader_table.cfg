SPECIFICATION Spec
CONSTANTS
  Missing = Missing
  MaxEntriesForeachState = 10
  MaxConditions = 16
  MaxActions = 32
  LookupKeySize = 8
  Garbage = {0, 1}
  Programs <- AllPrograms
INVARIANTS LoadedAsWritten NothingWild RefusedOnlyIfMalformed RowsReachable
CHECK_DEADLOCK FALSE
