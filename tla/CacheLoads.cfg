CONSTANTS
  ndarray = ndarray
  weights = weights
  config = config
  ModelFiles <- Names
  Packaged <- AllOf
  Loads = {l1, l2}
  NoLoad = NoLoad
  IOErrors = TRUE
  MaxCrashes = 1
SPECIFICATION FairSpec
INVARIANTS
  TypeOK
  CleanCopyIsWhole
PROPERTIES
  WholeStaysWhole
  ProgressMovesForward
  LoadsEnd
CHECK_DEADLOCK FALSE
