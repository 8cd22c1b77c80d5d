SPECIFICATION FairSpec
CONSTANTS
  Workers = {w1, w2}
  MaxEvents = 3
  Batch = 2
  MaxFaults = 1
CHECK_DEADLOCK FALSE
INVARIANTS TypeOK SideEffectsOnce NothingSkipped InOrderOnce
PROPERTY CatchesUp
