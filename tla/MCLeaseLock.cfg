CONSTANTS
  Callers = {c1, c2}
  None = None
  LeaseMs = 1
  WaitMs = 1
  Skew = 1
  MaxClock = 3
SPECIFICATION FairSpec
INVARIANTS TypeOK SuccessIsExclusive LostIsLost
PROPERTIES ImplementsSection LiveOwnerIsNotReplaced CallsEnd OrphanIsReclaimed
CHECK_DEADLOCK FALSE
