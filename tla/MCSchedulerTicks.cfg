SPECIFICATION FairSpec
CONSTANTS
  a1 = a1
  a2 = a2
  s1 = s1
  Groups <- TwoGroups
  AsyncGroups <- TwoAsync
  Order <- TwoOrder
  Interval <- TwoInterval
  RunEvery <- TwoRunEvery
  WorkerCounts <- Workers012
  MaxCalls = 2
  MaxReconfigs = 1
INVARIANTS
  ResultsAreFresh
PROPERTIES
  TickReturns
  WithAsyncWorkersReturns
