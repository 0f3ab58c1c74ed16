SPECIFICATION FairSpec
CONSTANTS
  Loads = {l1}
  Responses = {r1, r2}
  Chats = {c1}
  FirstChat = c1
  Nobody = Nobody
  Benchmarks = {}
  Histories <- Exchange
  ContextSize = 4
  StoreChats = TRUE
INVARIANTS
  FlagIsBacked
  OneListens
  TidyReplies
PROPERTIES
  ResponsesEnd
CHECK_DEADLOCK FALSE
