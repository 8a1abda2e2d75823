SPECIFICATION ClusterSpec
CONSTANTS
  s1 = s1
  s2 = s2
  Nil = Nil
  d1 = d1
  NoData = NoData
  Server = {s1, s2}
  Node = {s1, s2}
  Peers = {s1, s2}
  Active = {s1}
  Data = {d1}
  ChanCap = 3
  StorageMayFail = FALSE
  AssignedRoles = {"Leader"}
  MaxTerm = 1
  MaxIndex = 2
  MaxBatch = 0
  InOrder = TRUE
  MaxWire = 2
INVARIANTS CommitWithinLog CommittedAgree NoPanic
PROPERTIES BroadcastSpec
CHECK_DEADLOCK FALSE
