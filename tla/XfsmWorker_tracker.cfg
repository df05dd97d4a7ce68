SPECIFICATION Spec
CONSTANTS
  Missing = Missing
  NoPacket = NoPacket
  NoInstance = NoInstance
  MaxEntriesForeachState = 10
  Rows <- ConnRows
  Conditions <- ConnConds
  LookupKey <- SrcKey
  Packets <- ConnPackets
  BiflowNos = {0}
  InitialState = 0
  StaleValues = {7}
  FkSlots = 3
  NumRegisters = 1
  NumGlobalRegisters = 2
  MaxInstances = 4
  HashMayRefuse = TRUE
  NumStages = {1, 2}
INVARIANTS TypeOK StoreConsistent FreeSlotsClean InstanceOfTheKey
PROPERTIES ImplementsEFSM
CHECK_DEADLOCK FALSE
