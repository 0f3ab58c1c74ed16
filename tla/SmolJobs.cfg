SPECIFICATION Spec
CONSTANTS
  Loads = {l1, l2}
  Responses = {r1}
  Chats = {c1, c2}
  FirstChat = c1
  Nobody = Nobody
  Benchmarks = {b1}
  Histories <- NoHistory
  ContextSize = 1
  StoreChats = FALSE
SYMMETRY Symmetric
VIEW Essence
INVARIANTS
  ReadyIsLive
  HeardLives
  ReplyFindsItsChat
CHECK_DEADLOCK FALSE
