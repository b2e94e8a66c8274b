CONSTANTS
  Hooks = {h1}
  Workers = {w1, w2}
  None = None
  MaxAttempts = 2
  MaxVersion = 1
  Gone = Gone
  Retryable = {h1}
  LiveLeaseLoss = FALSE
SPECIFICATION FairSpec
PROPERTIES EventuallyHandled ProcessingEnds DoneIsFinal
CHECK_DEADLOCK FALSE
