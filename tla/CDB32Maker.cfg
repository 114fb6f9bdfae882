CONSTANTS
  BYTE = 5
  WORD = 3
  TABLES = 2
  Keys <- MCKeys
  Values <- MCValues
  Hash <- MCHash
  WRITE_BUF_SIZE = 7
  SLOT_LIST_SIZE = 2
SPECIFICATION Spec
INVARIANTS
  TypeOK
  Accounted
  SpaceReserved
  HeaderLast
  CommittedImage
  FoundRight
PROPERTIES
  NeverCommittedTorn
