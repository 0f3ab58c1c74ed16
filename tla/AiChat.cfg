SPECIFICATION FairSpec
CONSTANTS
  DEFAULT_CONTEXT_SIZE = 10
  OVERFLOW_HEADROOM = 2
  BATCH_SIZE = 4
  PromptSizes <- Sizes
  PredictLengths <- Lengths
  HasTemplate = TRUE
  MaxMessages = 5
INVARIANTS
  TypeOK
  CacheMatchesPosition
  SystemPromptKept
  InfiniteText
  OnlyFullContextsFail
PROPERTIES
  FollowsPhases
  StopsWithinContext
CHECK_DEADLOCK FALSE
