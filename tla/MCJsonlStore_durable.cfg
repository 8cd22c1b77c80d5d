SPECIFICATION Spec
CONSTANTS
  Jobs = {j1, j2, j3, j4, j5, j6, j7}
  Backend = "jsonl"
  MaxJobs = 2
  Ties = FALSE
  Tears = FALSE
  MaxLines = 4
  MaxBoots = 2
  MaxOutages = 0
CHECK_DEADLOCK FALSE
INVARIANT TwiceLive
PROPERTY Implements
