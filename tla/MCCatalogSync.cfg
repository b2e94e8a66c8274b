SPECIFICATION MCSpec
CONSTANTS
  CatalogSize = 2
  JobIds = {1}
  Reasons = {"INITIAL", "MANUAL_REFRESH"}
  Workers = {w1, w2}
  None = None
  Dead = Dead
  MaxAttempts = 2
  MaxEdits = 1
  MaxStalls = 1
  MaxRetries = 1
SYMMETRY MCSymmetry
CONSTRAINT MCBound
INVARIANTS TypeOK CursorCovered ScanMeetsEveryProduct
PROPERTY CleanupSparesLive
CHECK_DEADLOCK FALSE
