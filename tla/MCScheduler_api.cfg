SPECIFICATION Spec
CONSTANTS
  Workers = {w1}
  Jobs = {j1, j2}
  Slow = {j1}
  TTL = 1
  Period = 1
  None = None
  Ops = {"add", "update", "remove", "enable", "disable", "trigger"}
  MaxTime = 2
  MaxBoots = 1
  MaxFaults = 1
CHECK_DEADLOCK FALSE
INVARIANT FastJobsKept
