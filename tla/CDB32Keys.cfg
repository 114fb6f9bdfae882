CONSTANTS
  Byte <- MCByte
  SIZE = 4
  MaxLen = 3
  HASH_BLOCK = 2
  MEM_BLOCK = 2
  DISK_BLOCK = 2
  WRITE_BUF_SIZE = 2
SPECIFICATION Spec
INVARIANTS
  HashRight
  CompareRight
  FormatErrorRight
PROPERTIES
  CallEnds
