SPECIFICATION Spec
CONSTANTS
  f1 = f1
  f2 = f2
  f3 = f3
  f4 = f4
  Frames <- FourFrames
  NULL = NULL
  WILD = WILD
  MaxCache = 3
  MaxPages = 5
  Content <- OneContent
  Zero = "zero"
  ClearLast <- OneClearLast
SYMMETRY Symmetric
INVARIANTS
  TypeOK
  ListLinked
  NoFrameTwice
  CacheBounded
PROPERTIES
  LruSpec
