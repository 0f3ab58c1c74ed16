CONSTANTS
  Calls = {c1, c2, c3}
  Reloads = {r1}
  NoCall = NoCall
  ResponseLen = 2
  MaxCancels = 1
SPECIFICATION FairSpec
INVARIANTS
  TypeOK
  FlagTellsTheTruth
  CancelBites
PROPERTIES
  CountsSerially
  CallsEnd
CHECK_DEADLOCK FALSE
