SPECIFICATION Spec
CONSTANTS
  Jobs = {j1, j2, j3}
  Backend = "sqlite"
  MaxJobs = 2
  Workers = 1
  Queue = 1
  MaxBoots = 2
  MaxOutages = 0
SYMMETRY Symmetry
CHECK_DEADLOCK FALSE
INVARIANTS TypeOK NoSlotLost HonestReply NoOrphans
PROPERTIES StatusForward
