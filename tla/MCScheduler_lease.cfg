SPECIFICATION FairSpec
CONSTANTS
  Workers = {w1, w2}
  Jobs = {j1}
  Slow = {}
  TTL = 1
  Period = 1
  None = None
  Ops = {}
  MaxTime = 4
  MaxBoots = 3
  MaxFaults = 0
CHECK_DEADLOCK FALSE
INVARIANTS TypeOK SingleLeader OncePerLease
PROPERTY Takeover
