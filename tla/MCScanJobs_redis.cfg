SPECIFICATION FairSpec
CONSTANTS
  Jobs = {j1, j2}
  Backend = "redis"
  MaxJobs = 1
  Workers = 1
  Queue = 1
  MaxBoots = 2
  MaxOutages = 1
CHECK_DEADLOCK FALSE
INVARIANT NeverOverAdmits
PROPERTY EveryRequestEnds
