CONSTANTS
  MaxRows = 3
  Names  <- MCNames
  Csvs   <- MCCsvs
  NoName = NoName
SPECIFICATION FairSpec
INVARIANTS
  ThunksTypeOK
  DispatchesOwn
  ScanInTable
  LinkedIsDefined
PROPERTIES
  SearchIsRight
  KnownNamesLink
