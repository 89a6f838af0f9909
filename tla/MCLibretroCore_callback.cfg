CONSTANTS
  MaxLoads = 1
  Pixels   = {black}
  Blank    = black
  NoFrame  = NoFrame
SPECIFICATION Spec
INVARIANT
  NoNullCallback
CHECK_DEADLOCK FALSE
