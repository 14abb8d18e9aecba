SPECIFICATION Spec
CONSTANTS
  a = a
  b = b
  c = c
  garbled = garbled
  Garbled = garbled
  Names <- ThreeNames
  Values = {0, 1, 2, 3}
  Slots = 1
  CatalogSlots = 2
  Keyed = {FALSE}
  MaxPages = 4
  NoOverlap = FALSE
  LinkOf <- SmallLinkOf
CONSTRAINT NothingDamaged
SYMMETRY Symmetric
INVARIANTS
  TypeOK
  NamesUnique
  CommittedTablesSurvive
