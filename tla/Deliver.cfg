SPECIFICATION SealedSpec
CONSTANTS
  Objects = {1, 2}
  NProjects = 1
  ProjectOf <- OneProject
  Packager <- OnlyIdentity
  Size <- OneByte
  Trigger <- One
  Target <- One
  Malformed = {}
  Misreadable = {}
  Concurrency = 2
INVARIANTS
  DeliveryTypeOK
  OneAttemptAtATime
  SlotsCounted
  NothingStranded
  DeliveredIsArchived
  ProgressIsCurrent
