CONSTANTS
  Key <- NumberKey
  DefaultKey = 0
  Word <- NumberWord
  Invalid = 99
  Parse <- NumberParse
  Show <- NumberShow
  MaxCount = 3
SPECIFICATION OrdinarySpec
INVARIANT KeysDiffer
