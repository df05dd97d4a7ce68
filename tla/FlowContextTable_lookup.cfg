SPECIFICATION Spec
CONSTANTS
  Keys = {"k1", "k2", "k3"}
  Contexts = {0, 1}
  Zero = 0
  Fresh = Fresh
  Scopes <- Learning
  NumTables = 2
  Hash <- TwoBuckets
  StashDepth = 2
  FlushPeriod = 4
  Gap = 6
  MaxPackets = 4
  MaxHolds = 1
  Empty = Empty
INVARIANTS TypeOK EntriesFiled LookupIsLatest CountIsExact
