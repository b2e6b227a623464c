SPECIFICATION FairBacklogSpec
CONSTANTS
  Objects <- TrioObjects
  NProjects = 1
  ProjectOf <- TrioProject
  Packager <- OnlyMerge
  Size <- TrioSize
  Trigger <- Three
  Target <- Two
  Malformed = {2}
  Misreadable = {3}
INVARIANTS
  MembershipConsistent
  BlockedHoldsFailedOnly
  ReservationSucceeds
  DrainingHasTarget
  PackagesFit
PROPERTIES
  EveryArtifactPackaged
  EverySourceFreed
