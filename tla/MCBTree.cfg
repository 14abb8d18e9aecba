SPECIFICATION Spec
CONSTANTS
  Hashes = {0, 1, 2}
  Values = {1, 2}
  MaxPages = 5
  HeapEnd = 4
  MaxDepth = 4
INVARIANTS
  TypeOK
  KeysOrdered
  SearchFindsFirst
PROPERTIES
  SplitKeepsKeys
  RowsNotOverwritten
  SearchReturns
  InsertReturns
CHECK_DEADLOCK FALSE
