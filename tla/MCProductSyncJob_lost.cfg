CONSTANTS
  Hooks = {h1, h2}
  Workers = {w1, w2}
  None = None
  MaxAttempts = 2
  MaxVersion = 2
  Gone = Gone
  Retryable = {h1}
  LiveLeaseLoss = FALSE
SPECIFICATION Spec
SYMMETRY WorkerSymmetry
INVARIANT StaleIndexHasOpenJob
CHECK_DEADLOCK FALSE
