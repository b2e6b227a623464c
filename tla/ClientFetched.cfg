SPECIFICATION ClientSpec
CONSTANTS
  Requests = {r1}
  Size = 2
INVARIANTS
  ReceivedIsKept
CHECK_DEADLOCK FALSE
