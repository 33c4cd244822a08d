CONSTANTS
  noFile = noFile
  t1 = t1
  KeyOrder <- ThreeKeys
  Paths <- SomePaths
  Contents <- ThreeFiles
  Says <- ThreeSays
  Sum <- OwnSums
  NoFile <- noFile
  Threads = {t1}
  UserCalls <- SomeCalls
  Updaters = {t1}
  MaxLogrgers = 2
  Unlimited = 99
  AutoUpdate = TRUE
  Synchronous = FALSE
  MaxCalls = 1
  MaxEdits = 1
SPECIFICATION FairSpec
INVARIANTS
  TypeOK
  FileApplied
  LastRequestWins
PROPERTIES
  FileFollowed
