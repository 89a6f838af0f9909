CONSTANTS
  MaxLoads = 2
  Pixels   = {black}
  Blank    = black
  NoFrame  = NoFrame
SPECIFICATION Spec
INVARIANT
  LoadedGameRuns
CHECK_DEADLOCK FALSE
