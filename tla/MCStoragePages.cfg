SPECIFICATION Spec
CONSTANTS
  f1 = f1
  f2 = f2
  f3 = f3
  f4 = f4
  Frames <- ThreeFrames
  NULL = NULL
  WILD = WILD
  MaxCache = 2
  MaxPages = 4
  Content <- SmallContent
  Zero = "zero"
  ClearLast <- SmallClearLast
SYMMETRY Symmetric
CONSTRAINT NobodyDied
INVARIANTS
  UniqueIds
  HeldIsCurrent
  AllocatedPagesReadable
PROPERTIES
  StoreSpec
