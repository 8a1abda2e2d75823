SPECIFICATION FairSpec
CONSTANTS
  s1 = s1
  n2 = n2
  n3 = n3
  Nil = Nil
  d1 = d1
  NoData = NoData
  Server = {s1}
  Node = {s1, n2, n3}
  Peers = {s1, n2, n3}
  Data = {d1}
  ChanCap = 1
  StorageMayFail = FALSE
  AssignedRoles = {"Leader"}
  MaxTerm = 2
  MaxIndex = 0
  MaxBatch = 0
INVARIANTS LeaderOwnVote GrantOnce
PROPERTIES DiskTermMonotone ElectionResolves StopTerminates
CHECK_DEADLOCK FALSE
