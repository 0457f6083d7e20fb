CONSTANTS
  Schema <- OldSchema
  NewSchema <- LaterSchema
  Volatile <- NotPersistent
  Configs <- OldConfigs
  StackDepth = 5
  MaxOpen = 2
  SavedAgain <- Again
SPECIFICATION Spec
INVARIANTS TypeOK OnlySaved
PROPERTIES LoadCloses KeepsPromise CommandsEnd
