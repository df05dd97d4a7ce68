SPECIFICATION FairSpec
CONSTANTS
  Missing = Missing
  NoPacket = NoPacket
  NoInstance = NoInstance
  MaxEntriesForeachState = 10
  Rows <- SimpleRows
  Conditions <- SimpleConds
  LookupKey <- FlowKey
  Packets <- SimplePackets
  BiflowNos = {0}
  InitialState = 0
  StaleValues = {7}
  FkSlots = 3
  NumRegisters = 1
  NumGlobalRegisters = 1
  MaxInstances = 4
  HashMayRefuse = FALSE
  NumStages = {1}
INVARIANTS OwnKey
PROPERTIES PacketsFreed
CHECK_DEADLOCK FALSE
