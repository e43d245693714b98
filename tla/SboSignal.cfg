CONSTANTS
  WarpLanes = 2
  ScanWarps = 2
  Chunks = 2
  ScanWidth = 2
  Jobs <- SboJobs
SPECIFICATION TileSpec
INVARIANTS
  WordsReachThreshold
