SPECIFICATION Spec
CONSTANTS
  a = a
  b = b
  c = c
  garbled = garbled
  Garbled = garbled
  Names <- OneName
  Values = {0, 1}
  Slots = 1
  CatalogSlots = 1
  Keyed = {FALSE, TRUE}
  MaxPages = 5
  NoOverlap = TRUE
  LinkOf <- SmallLinkOf
INVARIANTS
  ChainShort
PROPERTIES
  TombstonesStay
  InsertIsReachable
  ScansEnd
