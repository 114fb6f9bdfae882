CONSTANTS
  k1 = k1
  k2 = k2
  k3 = k3
  k4 = k4
  Keys <- MCKeys
  Hash <- MCHash
  MaxRecords = 4
SPECIFICATION FairSpec
INVARIANTS
  TypeOK
  LookupInOrder
  LookupComplete
  EndOfSearchMarker
PROPERTIES
  FillEnds
  LookupEnds
