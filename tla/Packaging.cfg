SPECIFICATION LivesSpec
CONSTANTS
  Objects <- PairObjects
  NProjects = 2
  ProjectOf <- MixedProject
  Packager <- Mixed
  Size <- PairSize
  Trigger <- OneEach
  Target <- OneEach
  Malformed = {1}
  Misreadable = {2}
INVARIANTS
  TypeOK
  UndeliveredPackageKept
  NoArtifactLost
  PurgedStaysGone
PROPERTIES
  KeepsCustody
