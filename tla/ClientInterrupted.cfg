SPECIFICATION ClientSpec
CONSTANTS
  Requests = {r1}
  Size = 2
INVARIANTS
  InterruptedContinues
CHECK_DEADLOCK FALSE
