CONSTANTS
  Setups <- MCSetups
  Live <- MCLive
  GenerationLimit = 5
  MaxRounds = 3
SPECIFICATION FairSpec
INVARIANTS
  OwnerReadsRound
  GenerationAgrees
  CountersRestart
PROPERTIES
  AllRoundsRead
