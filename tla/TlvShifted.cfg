CONSTANTS
  Schema <- ShiftSchema
  NewSchema <- ShiftSchema
  Volatile <- NotPersistent
  Configs <- ShiftConfigs
  LenOf <- Lengths
  IdZero = {"device", "ipaddr", "name", "addr"}
  LenMod = 256
  StackDepth = 3
  SavedAgain <- ShiftConfigs
SPECIFICATION Spec
INVARIANTS ItsOwnValue
