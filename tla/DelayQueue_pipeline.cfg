SPECIFICATION DQSpec
CONSTANTS
  MaxPackets = 3
INVARIANTS TypeOK SixStagesApart HeaderIsOwn WordMeetsStart WordMeetsAction
PROPERTIES WaitCoversUpdate
