CONSTANTS
  None = None
  m1 = m1
  m2 = m2
  r1 = r1
  i1 = i1
  i2 = i2
  i3 = i3
  i4 = i4
  Makers <- MCMakers
  Readers <- MCReaders
  Inodes <- MCInodes
SPECIFICATION PublishSpec
SYMMETRY Symmetric
INVARIANTS
  WholeSeen
