CONSTANTS
  FirstCalls <- SumCalls
  LaterCalls = {}
  MaxCalls = 1
  R = 2
  Shapes <- SomeShapes
  MaxViews = 2
  Counts = {0, 1, 3, 6, 29}
  Products <- SomeProducts
  HostThreads = {t1}
  Plans <- SomePlans
  MaxStreamed = 0
SPECIFICATION HostSpec
INVARIANTS
  ResultIsRight
