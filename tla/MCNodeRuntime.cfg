SPECIFICATION Spec
CONSTANTS
  n1 = n1
  n2 = n2
  t1 = t1
  t2 = t2
  noBlock = noBlock
  Node = {n1, n2}
  Gateway = {n1}
  Tx = {t1, t2}
  NoBlock = noBlock
  OtherBlock <- Others
  Backend = "pebble"
  TxCap = 1
  BlockCap = 1
  MaxPosts = 2
  MaxFaults = 2
INVARIANTS NodeTypeOK TxConserved GossipOnce StoreFollowsRoot
PROPERTIES AcceptedMined ShutdownCompletes
CHECK_DEADLOCK FALSE
