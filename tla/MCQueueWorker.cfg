SPECIFICATION QueueFairSpec
CONSTANTS
  Jobs = {j1, j2}
  Procs = {web, bg}
  Enabled = {bg}
  Concurrency = 2
  BatchSize = 2
  Slots = {s1, s2, s3}
  Nobody = Nobody
  MaxFaults = 1
INVARIANTS NoLostWakeup InFlightBounded
PROPERTY EveryJobDone
CHECK_DEADLOCK FALSE
