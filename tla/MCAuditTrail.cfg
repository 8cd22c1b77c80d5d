SPECIFICATION Spec
CONSTANTS
  Orgs = {}
  NoOrg = NoOrg
  Purgers = {p1, p2}
  MaxId = 4
  Legacy = 1
  Postgres = TRUE
  MaxFaults = 1
  Requests = 2
  QueueSize = 1
SYMMETRY Symmetry
CHECK_DEADLOCK FALSE
INVARIANTS TypeOK HonestLogVerifies RemovalDetected Accounted
PROPERTY HonestVerdict
