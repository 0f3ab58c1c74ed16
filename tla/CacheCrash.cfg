CONSTANTS
  ndarray = ndarray
  weights = weights
  config = config
  ModelFiles <- Names
  Packaged <- AllOf
  Loads = {l1}
  NoLoad = NoLoad
  IOErrors = FALSE
  MaxCrashes = 1
SPECIFICATION Spec
INVARIANT
  CacheIsComplete
CHECK_DEADLOCK FALSE
