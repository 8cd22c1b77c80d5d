SPECIFICATION FairSpec
CONSTANTS
  Threads = {main, t1, t2}
  Main = main
  MaxCalls = 6
CHECK_DEADLOCK FALSE
INVARIANTS TypeOK SameBurst NoOrphan
PROPERTY CallsEnd
