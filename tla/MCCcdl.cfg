CONSTANTS
  MaxLoads = 2
  Pixels   = {black, red}
  Blank    = black
SPECIFICATION CcdlFairSpec
INVARIANTS
  CcdlTypeOK
  RunsOnlyBuilt
  ResultIsTruthful
PROPERTIES
  DeadEngineFrozen
  ImplementsEngineLife
  HostReturns
CHECK_DEADLOCK FALSE
