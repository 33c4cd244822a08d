CONSTANTS
  SIZE = 21
  DEPTH = 1
  HeaderLens <- AllHeaders
  Lens = {1, 2, 19}
  Sizes = {0, 1, 2}
  MaxNest = 2
  MaxCalls = 3
  Sections = {"main", "MAIN", "net", "NET"}
  MainSpellings = {"main", "MAIN"}
  Texts = {"7", "0", "error"}
  MaxLines = 4
  AnoLens = {49, 50}
  PathLens = {3, 4, 504, 505, 511, 512}
  StatusLens = {49, 50}
  ResLens = {51, 52}
  Detections <- UpToFour
  N = 8
  Sides = {1, 2, 3, 5, 11, 16, 20}
  Labels = {"person", "dog"}
  BoxCount = 2
SPECIFICATION ConversionSpec
INVARIANTS
  TypeOK
  InsideBuffer
  LineIsText
  SettingsAsSaid
  RequestWhole
  ReplyWhole
  FillsNetwork
  BoxesBack
  LabelsAreDetected
