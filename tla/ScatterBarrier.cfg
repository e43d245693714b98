CONSTANTS
  R = 2
  NumBlocks = 2
  Setups <- MCSetups
  Live <- MCLive
SPECIFICATION FairSpec
INVARIANTS
  ReduceReadsRound
  MaskNamesWriters
  PhaseAgrees
  SignalAccounts
PROPERTIES
  AllRoundsEnd
