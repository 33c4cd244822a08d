CONSTANTS
  c1 = c1
  c2 = c2
  c3 = c3
  none = none
  noInfo = noInfo
  Clients = {c1}
  Requests <- DemoRequest
  FileSizes = {2}
  HdrLen = 1
  Cap = 2
  MaxBacklog = 2
  HeaderSplits = FALSE
  JunkSizes = {}
  ModelFiles = {"good", "absent"}
  Results = {"empty", "short"}
  LocalImages = {}
  Thin = {}
  Prompt = {c1}
  Socketless = {}
  Mutable = {}
  Mortal = {}
  Stallable = {}
  NoClient <- none
  NoInfo <- noInfo
SPECIFICATION Spec
INVARIANT LoadedModelIsThere
