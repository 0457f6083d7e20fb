CONSTANTS
  Chars <- MCChars
  Letter = Letter
  Space = Space
  Newline = Newline
  NUL = NUL
  NULL = NULL
  Addr = {a1, a2}
  Delimiters = {Space, Newline}
  BlockStart <- MCBlock
  BlockEnd <- MCBlock
  Lines <- MCLines
  NameLen = 2
  MaxUsers = 3
  IndexBound = 3
SPECIFICATION Spec
INVARIANTS TypeOK WordsRight Replays StatsSafe
PROPERTIES EveryUserCounted
