SPECIFICATION Spec
CONSTANTS
  a1 = a1
  a2 = a2
  s1 = s1
  Groups <- OneGroups
  AsyncGroups <- OneAsync
  Order <- OneOrder
  Interval <- OneInterval
  RunEvery <- OneRunEvery
  WorkerCounts <- Workers012
  MaxCalls = 1
  MaxReconfigs = 1
INVARIANTS
  TypeOK
  AppliedInOrder
  AppliedSucceeded
  CommitIsComplete
  PublishedInOrder
