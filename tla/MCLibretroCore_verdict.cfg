CONSTANTS
  MaxLoads = 1
  Pixels   = {black}
  Blank    = black
  NoFrame  = NoFrame
SPECIFICATION Spec
INVARIANT
  LoadVerdictIsTrue
CHECK_DEADLOCK FALSE
