CONSTANTS
  N = 4
  FinishTag = 4
  MaxSyncs = 3
SPECIFICATION FairSpec
INVARIANTS
  TypeOK
  Together
  CounterReturns
PROPERTIES
  ImplementsBarrier
  AllPass
