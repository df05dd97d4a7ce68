SPECIFICATION Spec
CONSTANTS
  Setups <- Alone
  NumWorkers = 1
  Ports <- OnePort
  Flows = {"f0"}
  Hash <- OneHash
  MbufsPerPort = 2
  NumPackets = 3
  Posted = 1
  TxDesc = 2
  MaxPktBurst = 2
  MaxSends = 1
  NoPkt = NoPkt
INVARIANTS SentIsWhatLeaves
CHECK_DEADLOCK FALSE
