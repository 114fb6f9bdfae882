CONSTANTS
  BYTE = 7
  WORD = 2
  TABLES = 2
  Keys <- MCKeys
  Values <- MCValues
  Hash <- MCHash
  MaxRecords = 3
  i1 = i1
  Iterators <- MCIterators
SPECIFICATION Spec
INVARIANTS
  TypeOK
  MapCoversFile
  PositionsRight
PROPERTIES
  ImplementsStore
