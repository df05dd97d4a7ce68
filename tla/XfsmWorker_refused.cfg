SPECIFICATION Spec
CONSTANTS
  Missing = Missing
  NoPacket = NoPacket
  NoInstance = NoInstance
  MaxEntriesForeachState = 10
  Rows <- ConnRows
  Conditions <- ConnConds
  LookupKey <- SrcKey
  Packets <- TcpPackets
  BiflowNos = {0}
  InitialState = 0
  StaleValues = {7}
  FkSlots = 3
  NumRegisters = 1
  NumGlobalRegisters = 2
  MaxInstances = 4
  HashMayRefuse = FALSE
  NumStages = {1}
INVARIANTS RefusedOnlyWhenFull
CHECK_DEADLOCK FALSE
