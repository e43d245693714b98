CONSTANTS
  WarpLanes = 2
  ScanWarps = 2
  Chunks = 2
  ScanWidth = 2
  Jobs <- SomeJobs
  Contexts <- Calls
  Tiles <- Configs
  NumBlocks = 3
  MaxThreads = 2
  WarpSize = 2
  Word = 64
SPECIFICATION ScheduleSpec
INVARIANTS
  EveryCellOnce
  SignalsMatchBlocks
  RoutingIsStable
  BuffersFit
  PairsItsTile
  EveryTileOnce
