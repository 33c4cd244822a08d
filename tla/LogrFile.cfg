CONSTANTS
  closed = closed
  Paths <- BothPaths
  Default <- Logr
  Limits = {0, 1, 5}
  DefaultLimit = 1
  Unit = 4
  Width = 16
  RecordLens = {3}
  DaysPerMonth = 1
  LastDay = 1
  MaxRecords = 5
  MaxChanges = 2
  Builds = {FALSE, TRUE}
  DiskFails = TRUE
  CleanUps = TRUE
  Closed <- closed
SPECIFICATION Spec
INVARIANTS
  HandleIsCurrent
  SinceOpenLimited
  
  OnlyDiskStops
PROPERTIES
  ChangesWhenFull
