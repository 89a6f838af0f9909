CONSTANTS
  MaxLoads = 2
  Pixels   = {black, red}
  Blank    = black
  NoFrame  = NoFrame
SPECIFICATION FairSpec
INVARIANTS
  CoreTypeOK
  OnlyGuestCrashesGoodGame
PROPERTIES
  RunShowsFramebuffer
  CoreImplementsCcdl
  CallsReturn
CHECK_DEADLOCK FALSE
