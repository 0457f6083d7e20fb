CONSTANTS
  Value = {d, v1, v2}
  Default = d
  Garbage = garbage
  Addr = {a1, a2}
  NULL = NULL
  MaxCount = 3
  HasCounter = TRUE
  CounterMax = 4
  Asserts = TRUE
  AllocFails = TRUE
  ShrinkFails = FALSE
  ZeroReallocFrees = TRUE
SPECIFICATION Spec
INVARIANTS TypeOK PointerMatchesCount CountInRange BlockFitsCount ItemsInitialized NoLeak NoUndefined
PROPERTY ImplementsItems
