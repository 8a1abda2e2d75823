SPECIFICATION Spec
CONSTANTS
  r1 = r1
  r2 = r2
  replayer = replayer
  Live = {r1, r2}
  Recorder = r1
  Replayer = replayer
  App = {"kv", "lock", "queue", "config", "meta", "merkle"}
  Name = {1, 2}
  emptyState = emptyState
  Chunk <- Chunks
  MerkleKey = {1, 2, 3}
  Spelling <- Keys
  MerkleValue <- Values
  EmptyBytes <- Empty
  Value <- Bytes
  TTL = {1}
  StorageMayFail = TRUE
  MaxLog <- LogBound
  MaxTime = 1
INVARIANTS ReplicasAgree ReplayReproduces KVDamageContained QueueIsFIFO ProofOfSoleChange
PROPERTIES LockNotStolen
CHECK_DEADLOCK FALSE
