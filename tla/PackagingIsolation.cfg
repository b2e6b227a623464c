SPECIFICATION Spec
CONSTANTS
  Objects <- PairObjects
  NProjects = 1
  ProjectOf <- PairProject
  Packager <- OnlyMerge
  Size <- PairSize
  Trigger <- Two
  Target <- One
  Malformed = {2}
  Misreadable = {1}
INVARIANTS
  OnlyMalformedIsolated
