CONSTANTS
  c1 = c1
  c2 = c2
  c3 = c3
  none = none
  noInfo = noInfo
  Clients = {c1, c2}
  Requests <- DemoRequest
  FileSizes = {0, 1, 2}
  HdrLen = 1
  Cap = 2
  MaxBacklog = 2
  HeaderSplits = FALSE
  JunkSizes = {}
  ModelFiles = {"good"}
  Results = {"empty", "short"}
  LocalImages = {}
  Thin = {1}
  Prompt = {}
  Socketless = {}
  Mutable = {c1}
  Mortal = {c1}
  Stallable = {}
  NoClient <- none
  NoInfo <- noInfo
SPECIFICATION Spec
INVARIANTS
  SocketsAccounted
  SuccessMeansReplied
  SavedImageIsOwn
  OnlyThinPicturesCrash
CHECK_DEADLOCK FALSE
