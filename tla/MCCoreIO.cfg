CONSTANTS
  StateBytes  = {32, 255}
  BufferSizes = {1, 2}
  MaxHeld     = 2
  TicksPerMs  = 2
  TimeWord    = 3
  Room        = 9
  MaxWork     = 1
SPECIFICATION IOSpec
INVARIANTS
  IOTypeOK
  RoundTrip
  KeysTellApart
PROPERTY
  ElapsedIsTrue
