CONSTANTS
  c1 = c1
  c2 = c2
  f1 = f1
  f2 = f2
  Cdbs <- TwoCdbs
  Files <- TwoFiles
  MaxFd = 4
  EXT3 = FALSE
SPECIFICATION Spec
SYMMETRY Symmetric
INVARIANTS
  TypeOK
  OthersUntouched
  InUseOpen
  NothingLeft
  CommitDecides
