SPECIFICATION Spec
CONSTANTS
  Workers = {w1, w2}
  Jobs = {j1}
  Slow = {}
  TTL = 3
  Period = 1
  None = None
  Ops = {"update", "enable", "disable"}
  MaxTime = 2
  MaxBoots = 2
  MaxFaults = 0
CHECK_DEADLOCK FALSE
INVARIANT NoLostJob
