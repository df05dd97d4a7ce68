SPECIFICATION Spec
CONSTANTS
  IIC_TIMEOUT = 1
  SI5324_DEBUG = TRUE
  NumRails = 3
  Cages = {1, 3}
  MaxCalls = 2
INVARIANTS NoStaleCompletion CalibratedWhenConfigured RailsAreTheirOwn ReadsAreTheirOwn SuccessLeavesBusFree
PROPERTIES CallsReturn
CHECK_DEADLOCK FALSE
