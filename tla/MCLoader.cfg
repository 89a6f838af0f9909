CONSTANTS
  MaxSections = 3
  Names    <- MCNames
  Builtins <- MCBuiltins
  Words    <- MCWords
  Files    <- MCFiles
SPECIFICATION FairSpec
INVARIANTS
  LoaderTypeOK
  ImportsLinked
PROPERTIES
  ImplementsAppLife
  LoadEnds
CHECK_DEADLOCK FALSE
