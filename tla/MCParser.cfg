SPECIFICATION Spec
CONSTANTS
  Texts <- SmallTexts
  MaxColumns = 2
  MaxStringLen = 3
  Numbers <- SmallNumbers
  Quoted <- SmallQuoted
  Schemas <- SmallSchemas
  Unqualified <- SmallUnqualified
  CutColumns <- SmallCutColumns
  CutTables <- SmallCutTables
  TableNames <- SmallTables
  SelectLists <- SmallSelects
  JoinClauses <- SmallJoins
  Filters <- SmallFilters
  SkippedLists <- SmallSkipped
  ValueLists <- SmallValues
  SetLists <- SmallSets
  ColumnLists <- SmallColumns
CHECK_DEADLOCK FALSE
INVARIANTS
  TypeOK
  WrittenIsParsed
  HalfParsedChangesNoRow
  NothingLeftUnread
  NoFilterDropped
PROPERTIES
  Terminates
