SPECIFICATION NamedSpec
CONSTANTS
  Requests = {r1, r2}
  Size = 2
INVARIANTS
  UploadTypeOK
  ReceiptIsBacked
  AttemptKeepsFiles
  ResumableIsSpared
  RowIsBacked
  OrphansReleased
  AnswerIsKept
PROPERTIES
  KeepsContract
  StaleIsRemoved
  SourceIsFreed
