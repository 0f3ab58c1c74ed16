SPECIFICATION Spec
CONSTANTS
  Loads = {l1, l2}
  Responses = {r1}
  Chats = {c1}
  FirstChat = c1
  Nobody = Nobody
  Benchmarks = {}
  Histories <- NoHistory
  ContextSize = 3
  StoreChats = TRUE
INVARIANTS
  BusyIsAlive
CHECK_DEADLOCK FALSE
