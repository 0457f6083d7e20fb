CONSTANTS
  Schema <- MiddleSchema
  NewSchema <- MiddleSchema
  Volatile <- NotPersistent
  Configs <- MiddleConfigs
  StackDepth = 5
  MaxOpen = 2
  SavedAgain <- MiddleConfigs
SPECIFICATION Spec
INVARIANTS WholeLoads
