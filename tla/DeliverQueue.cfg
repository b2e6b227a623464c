SPECIFICATION SilentFairSpec
CONSTANTS
  Objects = {1, 2}
  NProjects = 1
  ProjectOf <- OneProject
  Packager <- OnlyIdentity
  Size <- OneByte
  Trigger <- One
  Target <- One
  Malformed = {}
  Misreadable = {}
  Concurrency = 1
PROPERTIES
  EveryPackageDelivered
