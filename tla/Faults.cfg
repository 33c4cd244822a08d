CONSTANTS
  c1 = c1
  c2 = c2
  c3 = c3
  none = none
  noInfo = noInfo
  Clients = {c1}
  Requests <- AllRequests
  FileSizes = {0, 2}
  HdrLen = 3
  Cap = 4
  MaxBacklog = 1
  HeaderSplits = TRUE
  JunkSizes <- Junk
  ModelFiles = {"good", "absent", "unreadable", "corrupt"}
  Results = {"empty", "short", "long"}
  LocalImages = {0, 1, 2}
  Thin = {1}
  Prompt = {}
  Socketless = {c1}
  Mutable = {c1}
  Mortal = {c1}
  Stallable = {}
  NoClient <- none
  NoInfo <- noInfo
SPECIFICATION Spec
INVARIANTS
  TypeOK
  Framing
  OnlyMutualWaitsBlock
