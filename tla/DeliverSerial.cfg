SPECIFICATION DeliverSpec
CONSTANTS
  Objects = {1}
  NProjects = 1
  ProjectOf <- OneProject
  Packager <- OnlyMerge
  Size <- OneByte
  Trigger <- One
  Target <- One
  Malformed = {}
  Misreadable = {1}
  Concurrency = 1
PROPERTIES
  OneSchedulerForAll
