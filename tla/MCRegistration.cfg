SPECIFICATION HistorySpec
CONSTANTS
  g1 = g1
  g2 = g2
  g3 = g3
  position = position
  velocity = velocity
  clock = clock
  NoName = noname
  NoGroup = nogroup
  NoSystem = nosystem
  Worlds = {world1}
  OwnWorld = ownworld
  NoWorld = noworld
  Groups <- MCGroups
  Components <- MCComponents
  Resources <- MCResources
  Configs <- MCConfigs
  SyncOrders <- MCSyncOrders
  WorkerCounts <- MCWorkerCounts
  ErrorPolicies <- MCErrorPolicies
  NumCPU = 2
  Values = {a}
  NoValue = novalue
  Ticker = ticker
  Workers = {w1}
  NoOne = noone
  Unread = unread
  MaxGiven = 2
INVARIANTS
  TypeOK
  NoWriteConflict
  TablesAreExact
  OrderIsComplete
  PolicyIsFirstOffered
  ReadsStayTrue
