CONSTANTS
  Key <- StringKey
  DefaultKey = ""
  Word <- StringWord
  Invalid = "invalid"
  Parse <- StringParse
  Show <- StringShow
  MaxCount = 3
SPECIFICATION Spec
INVARIANTS TypeOK WordNamesItem
PROPERTIES RepeatAddsNothing OnlyRenamesRepeat
