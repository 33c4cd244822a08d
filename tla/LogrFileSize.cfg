CONSTANTS
  closed = closed
  Paths <- OnePath
  Default <- Logr
  Limits = {1}
  DefaultLimit = 1
  Unit = 4
  Width = 16
  RecordLens = {3}
  DaysPerMonth = 1
  LastDay = 1
  MaxRecords = 5
  MaxChanges = 0
  Builds = {TRUE}
  DiskFails = FALSE
  CleanUps = FALSE
  Closed <- closed
SPECIFICATION Spec
INVARIANTS
  FilesLimited
