CONSTANTS
  c1 = c1
  c2 = c2
  c3 = c3
  none = none
  noInfo = noInfo
  Clients = {c1, c2, c3}
  Requests <- DemoRequest
  FileSizes = {1, 2}
  HdrLen = 1
  Cap = 2
  MaxBacklog = 2
  HeaderSplits = FALSE
  JunkSizes = {}
  ModelFiles = {"good"}
  Results = {"empty", "short"}
  LocalImages = {}
  Thin = {1}
  Prompt = {c1, c2, c3}
  Socketless = {}
  Mutable = {}
  Mortal = {}
  Stallable = {}
  NoClient <- none
  NoInfo <- noInfo
SPECIFICATION FairSpec
INVARIANT OnlyEmptyResultsFail
PROPERTIES
  QueuedIsAnswered
  ServesAllRequests
