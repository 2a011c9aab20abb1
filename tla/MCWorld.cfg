SPECIFICATION Spec
CONSTANTS
  Uint32 = 6
  a = a
  b = b
  Values <- MCValues
  SharedValues = {c}
  NoValue = nil
  MaxCreates = 2
  MaxCommands = 2
SYMMETRY AnyValues
INVARIANTS
  TypeOK
  CountIsExact
  ComponentsAreOwn
PROPERTY
  StoreIsAMap
