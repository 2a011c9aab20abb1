SPECIFICATION FairSpec
CONSTANTS
  Jobs = {j1, j2}
  Workers = {w1, w2}
  Closers = {c1, c2}
  NoJob = none
  MaxWaits = 2
INVARIANTS
  TypeOK
  ResultIsOwned
  WaitTellsOutcome
  NobodyIsStranded
PROPERTIES
  PoolKeepsPromise
  EveryJobResolves
  EveryCloseReturns
