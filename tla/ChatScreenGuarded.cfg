CONSTANTS
  MAX_BUFFER_SIZE = 2
  Turns = {t1, t2}
  Loaders = {l1, l2}
  FirstLoader = l1
  NoTurn = NoTurn
  TextLen = 2
  MaxClears = 1
  StaleUI = FALSE
SPECIFICATION FairSpec
INVARIANTS
  TypeOK
  OneTurnAtATime
  StreamIsOwnPrefix
  PromptEndsWithOwnMessage
  ReadyMeansLoaded
PROPERTIES
  TakesTurns
  TurnsEnd
  BecomesReady
CHECK_DEADLOCK FALSE
