CONSTANTS
  main = main
  worker = worker
  logger = logger
  nobody = nobody
  null = null
  d1 = d1
  d2 = d2
  d3 = d3
  d4 = d4
  d5 = d5
  d6 = d6
  Threads = {main, worker}
  Main <- main
  Logger <- logger
  Setters = {worker}
  Datas = {d1, d2, d3, d4}
  NoThread <- nobody
  NoData <- null
  Builds = {FALSE, TRUE}
  PoolMax = 1
  MaxCalls <- OneEach
  DiskFails = TRUE
  MaxLost = 0
SPECIFICATION FairSpec
PROPERTIES
  StopReturns
  QueueMoves
