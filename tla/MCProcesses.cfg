SPECIFICATION Spec
CONSTANTS
  p = p
  q = q
  a = a
  b = b
  Procs <- TwoProcs
  Names <- TwoNames
  MaxInodes = 3
  MaxSessions = 2
SYMMETRY Symmetric
CHECK_DEADLOCK FALSE
INVARIANTS
  HeaderCovered
  SequentialSessionsKeep
PROPERTIES
  OnlyStaleLoses
