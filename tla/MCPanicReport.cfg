CONSTANTS
  a = a
  p = p
  Chars        = {a, p, NL}
  NL           = NL
  Capacities   = {1, 2, 4}
  MaxPrinted   = 5
  Code         = {c1, c2}
  Data         = {d}
  Unmapped     = Unmapped
  WordAddrs    = 3
  WalkLimit    = 2
  Messages     <- MCMessages
  PanicMessage <- MCPanicMessage
SPECIFICATION FairSpec
INVARIANTS
  PanicTypeOK
  LinesAreOut
  ReportIsStack
PROPERTIES
  PanicIsReported
CHECK_DEADLOCK FALSE
