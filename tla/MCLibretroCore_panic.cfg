CONSTANTS
  MaxLoads = 1
  Pixels   = {black}
  Blank    = black
  NoFrame  = NoFrame
SPECIFICATION Spec
INVARIANT
  PanicNeverReturns
CHECK_DEADLOCK FALSE
