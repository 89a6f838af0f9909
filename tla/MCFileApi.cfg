CONSTANTS
  Files      = {f}
  NoFile     = NoFile
  Absent     <- MCAbsent
  Stray      <- MCStray
  Counts     = {0, 1, 2}
  Offsets    <- MCOffsets
  MaxOpens   = 2
  MaxLen     = 2
  Word       = 4
  Requests   <- MCRequests
  Bytes      = {a, b}
  Junk       = Junk
SYMMETRY MCSymmetry
SPECIFICATION ApiSpec
INVARIANTS
  ApiTypeOK
  StreamOfCell
  PositionAsInC
  BufferServesCall
PROPERTY
  OpenDelivers
CHECK_DEADLOCK FALSE
