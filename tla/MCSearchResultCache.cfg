CONSTANTS
  Docs = {1, 2}
  Prices = {c1}
  Reverts = FALSE
  MaxRevision = 3
  Searches = {s1}
  None = None
SPECIFICATION Spec
CONSTRAINT MCBound
INVARIANTS FailClosed ReceiptsAreCurrent
PROPERTY ImplementsListing
CHECK_DEADLOCK FALSE
