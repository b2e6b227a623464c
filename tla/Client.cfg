SPECIFICATION PoweredSpec
CONSTANTS
  Requests = {r1, r2}
  Size = 2
INVARIANTS
  ClientTypeOK
  NotFoundIsJustified
PROPERTIES
  WorkerFinishes
CHECK_DEADLOCK FALSE
