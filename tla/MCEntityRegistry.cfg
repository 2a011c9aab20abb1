SPECIFICATION Spec
CONSTANTS
  Uint32 = 16
  Composed <- SomeComposed
  MaxCreates = 6
INVARIANTS
  TypeOK
  LookupIsExact
  FreeListIsExact
PROPERTY
  HandlesAreKept
