CONSTANTS
  Contexts <- WideCalls
  Tiles <- Configs
  NumBlocks = 3
  MaxThreads = 4
  WarpSize = 2
  Word = 64
SPECIFICATION Spec
INVARIANTS
  PrefixIsSum
