\* Two CTAs of each kind; words wrap at 64, generations at 3; first use of the
\* buffer, and the round behind the wrap.
CONSTANTS
  CopyBlocks = 2
  ComputeBlocks = 2
  Groups = 2
  NumNBlocks = 1
  KTilesPerFlag = 1
  ScaleBlocks = 32
  BlocksPerTile = 16
  WordRange = 64
  GenerationLimit = 3
  FirstGenerations = {0, 3}
  MaxRounds = 2
  MaxMBlocks = 3
  Plans <- MCPlans
SPECIFICATION FairSpec
INVARIANTS
  LoadsAreReady
  TilesDisjoint
  OutputComplete
PROPERTIES
  LaunchesEnd
