SPECIFICATION Spec
CONSTANTS
  Keys = {"k1", "k2", "k3"}
  Contexts = {0}
  Zero = 0
  Fresh = Fresh
  Scopes <- OwnFlow
  NumTables = 2
  Hash <- TwoBuckets
  StashDepth = 8
  FlushPeriod = 16
  Gap = 12
  MaxPackets = 5
  MaxHolds = 1
  Empty = Empty
INVARIANTS FlowsKept
