SPECIFICATION Spec
CONSTANTS
  Jobs = {j1, j2, j3, j4}
  Backend = "jsonl"
  MaxJobs = 2
  Ties = TRUE
  Tears = TRUE
  MaxLines = 3
  MaxBoots = 2
  MaxOutages = 1
CHECK_DEADLOCK FALSE
INVARIANTS TypeOK Heals
