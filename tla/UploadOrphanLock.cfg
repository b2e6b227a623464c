SPECIFICATION UploadFairSpec
CONSTANTS
  Requests = {r1}
  Size = 1
PROPERTIES
  RestartsRecover
CHECK_DEADLOCK FALSE
