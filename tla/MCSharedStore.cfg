SPECIFICATION FairSpec
CONSTANTS
  Entities = {e1, e2}
  Values = {a, b, nan}
  Incomparable = {nan}
  Uint32 = 16
  Writers = {w1, w2}
  Readers = {r1}
  NoWriter = none
  MaxWrites = 4
INVARIANTS
  TypeOK
  RefCountsAreExact
  ValuesAreShared
  IterateIsSnapshot
PROPERTIES
  StoreIsAMap
  EveryCallReturns
