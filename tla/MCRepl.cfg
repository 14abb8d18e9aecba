SPECIFICATION Spec
CONSTANTS
  Characters <- SmallCharacters
  Lines <- SmallLines
  Buffer = 6
  MaxLines = 3
CHECK_DEADLOCK FALSE
INVARIANTS
  NothingLost
  WordsAsTyped
  EndsWithSemicolon
PROPERTIES
  EofEnds
