CONSTANTS
  MAX_BUFFER_SIZE = 2
  Turns = {t1, t2}
  Loaders = {l1, l2}
  FirstLoader = l1
  NoTurn = NoTurn
  TextLen = 1
  MaxClears = 1
  StaleUI = TRUE
SPECIFICATION Spec
SYMMETRY Symmetric
INVARIANTS
  BufferIsRecentDialogue
CHECK_DEADLOCK FALSE
