CONSTANTS
  Hooks = {h1, h2}
  Workers = {w1, w2}
  None = None
  MaxAttempts = 2
  MaxVersion = 2
  Gone = Gone
  Retryable = {}
  LiveLeaseLoss = FALSE
SPECIFICATION Spec
SYMMETRY FullSymmetry
INVARIANTS TypeOK NoLostUpdate
PROPERTY IndexAdvances
CHECK_DEADLOCK FALSE
