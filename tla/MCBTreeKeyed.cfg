SPECIFICATION Spec
CONSTANTS
  Hashes = {0, 1, 2}
  Values = {1, 2}
  MaxPages = 5
  HeapEnd = 4
  MaxDepth = 4
PROPERTIES
  KeyedInsertReturns
CHECK_DEADLOCK FALSE
