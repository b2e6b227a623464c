SPECIFICATION DeliverFairSpec
CONSTANTS
  Objects = {1}
  NProjects = 1
  ProjectOf <- OneProject
  Packager <- OnlyMerge
  Size <- OneByte
  Trigger <- One
  Target <- One
  Malformed = {}
  Misreadable = {1}
  Concurrency = 1
INVARIANTS
  FilesKeptForUpload
  ReceiptsHonoured
  ArchivedOnce
PROPERTIES
  ImplementsPackaging
  EveryReceiptIndexed
  ShutdownEnds
  EveryPackageFreed
