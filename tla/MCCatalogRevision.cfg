CONSTANTS
  p1 = p1
  p2 = p2
  c1 = c1
  c2 = c2
  c3 = c3
  Processes = {p1, p2}
  Calls = {c1, c2, c3}
  ProcOf <- Server
  None = None
  MaxRevision = 2
SPECIFICATION FairSpec
INVARIANTS TypeOK ReadsOwnBumps
PROPERTIES CallsSettle EveryProcessCatchesUp
CHECK_DEADLOCK FALSE
