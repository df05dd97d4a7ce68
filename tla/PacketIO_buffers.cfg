SPECIFICATION Spec
CONSTANTS
  Setups <- Pairs
  NumWorkers = 2
  Ports <- TwoPorts
  Flows = {"f0", "f1"}
  Hash <- TwoHashes
  MbufsPerPort = 3
  NumPackets = 2
  Posted = 1
  TxDesc = 1
  MaxPktBurst = 2
  MaxSends = 1
  NoPkt = NoPkt
INVARIANTS NoBufferLost OneTablePerFlow
PROPERTIES PacketsTaken StopEnds
CHECK_DEADLOCK FALSE
