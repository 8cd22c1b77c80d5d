SPECIFICATION Spec
CONSTANTS
  RotateCount = 3
  MaxLines = 2
  MaxEvents = 9
  MaxFaults = 2
CHECK_DEADLOCK FALSE
INVARIANTS TypeOK UnbrokenChain LocalDamage VerdictTrue History
