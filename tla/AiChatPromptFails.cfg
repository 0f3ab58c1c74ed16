SPECIFICATION Spec
CONSTANTS
  DEFAULT_CONTEXT_SIZE = 10
  OVERFLOW_HEADROOM = 2
  BATCH_SIZE = 4
  PromptSizes <- Sizes
  PredictLengths <- Lengths
  HasTemplate = TRUE
  MaxMessages = 5
INVARIANT
  NoPromptFails
CHECK_DEADLOCK FALSE
