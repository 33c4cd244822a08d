CONSTANTS
  c1 = c1
  c2 = c2
  c3 = c3
  none = none
  noInfo = noInfo
  Clients = {c1, c2}
  Requests <- HaltingRequests
  FileSizes = {2}
  HdrLen = 1
  Cap = 2
  MaxBacklog = 2
  HeaderSplits = FALSE
  JunkSizes = {}
  ModelFiles = {"good", "absent"}
  Results = {"empty", "short"}
  LocalImages = {0, 1}
  Thin = {}
  Prompt = {c2}
  Socketless = {c1}
  Mutable = {}
  Mortal = {}
  Stallable = {c1}
  NoClient <- none
  NoInfo <- noInfo
SPECIFICATION FairSpec
PROPERTIES
  ConnectedClientEnds
  HangsOnlyInRecvImg
  ServesRequests
CHECK_DEADLOCK FALSE
