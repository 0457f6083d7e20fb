CONSTANTS
  Value = {d, v1}
  Default = d
  Garbage = garbage
  Addr = {a1, a2, a3}
  NULL = NULL
  MaxCount = 3
  HasCounter = TRUE
  CounterMax = 2
  Asserts = FALSE
  AllocFails = TRUE
  ShrinkFails = TRUE
  ZeroReallocFrees = FALSE
SPECIFICATION Spec
INVARIANT TypeOK
PROPERTY OnlyDelLoses
