CONSTANTS
  r = r
  s = s
  RAM_START    = 1
  RAM_END      = 3
  HEAP_MAX     = 4
  Blocks       = {b1, b2, b3}
  Lengths      = {1, 2}
  Names        = {r, s}
  Tables       <- MCTables
  APP_MAX_SIZE = 4
  Elsewhere    <- MCElsewhere
  WordSize     = 16
  BufferSize   = 3
  Requests     <- MCRequests
  SizeofRes    = 1
SYMMETRY MCSymmetry
SPECIFICATION Spec
INVARIANTS
  ResTypeOK
  BlocksApart
  ResourceDelivers
PROPERTY
  ImplementsAllocator
CHECK_DEADLOCK FALSE
