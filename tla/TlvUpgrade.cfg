CONSTANTS
  Schema <- OldSchema
  NewSchema <- LaterSchema
  Volatile <- NotPersistent
  Configs <- OldConfigs
  LenOf <- Lengths
  IdZero = {"device", "ipaddr", "name", "addr"}
  LenMod = 256
  StackDepth = 3
  SavedAgain <- Again
SPECIFICATION Spec
INVARIANTS TypeOK OnlySaved InsideComposite NoEmptyComposite
PROPERTIES KeepsPromise CommandsEnd
