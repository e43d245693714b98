CONSTANTS
  FirstCalls <- SomeCalls
  LaterCalls <- SecondOfMlp
  MaxCalls = 2
  R = 2
  Shapes <- SomeShapes
  MaxViews = 2
  Counts = {0, 1, 3, 6, 29}
  Products <- SomeProducts
  HostThreads = {t1, t2}
  Plans <- SomePlans
  MaxStreamed = 2
SYMMETRY Interchangeable
SPECIFICATION HostSpec
INVARIANTS
  ConfigRuns
  ScalesReadAsGiven
  ProductsAreWhole
  RegionsDisjoint
  ViewsAgree
  IndicesFit
  RunsOnItsData
