SPECIFICATION Spec
CONSTANTS
  W = 8
  Lengths = {11, 16, 24}
  Requests <- MCRequests
  Directly = 3
  MaxPackets = 2
  MaxHolds = 1
INVARIANTS FramesMatch FieldIsAdded FieldIsModified
