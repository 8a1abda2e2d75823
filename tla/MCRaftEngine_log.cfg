SPECIFICATION LogSpec
CONSTANTS
  s1 = s1
  n2 = n2
  n3 = n3
  Nil = Nil
  d1 = d1
  NoData = NoData
  Server = {s1}
  Node = {s1, n2, n3}
  Peers = {s1, n2, n3}
  Data = {d1}
  ChanCap = 1
  StorageMayFail = TRUE
  AssignedRoles = {"Leader"}
  MaxTerm = 1
  MaxIndex = 2
  MaxBatch = 2
INVARIANTS TypeOK LogAligned LogTermsOrdered DurableState
PROPERTIES SnapshotNeverRegresses
CHECK_DEADLOCK FALSE
