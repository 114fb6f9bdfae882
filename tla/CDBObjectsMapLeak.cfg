CONSTANTS
  c1 = c1
  c2 = c2
  f1 = f1
  f2 = f2
  Cdbs <- OneCdb
  Files <- OneFile
  MaxFd = 3
  EXT3 = TRUE
SPECIFICATION Spec
INVARIANT TemporaryGone
