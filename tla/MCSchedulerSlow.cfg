SPECIFICATION SlowAsyncSpec
CONSTANTS
  a1 = a1
  a2 = a2
  s1 = s1
  Groups <- TwoGroups
  AsyncGroups <- TwoAsync
  Order <- TwoOrder
  Interval <- TwoInterval
  RunEvery <- TwoRunEvery
  WorkerCounts <- Workers01
  MaxCalls = 1
  MaxReconfigs = 0
PROPERTY
  TickReturns
