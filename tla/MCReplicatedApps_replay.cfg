SPECIFICATION Spec
CONSTANTS
  r1 = r1
  r2 = r2
  replayer = replayer
  Live = {r1, r2}
  Recorder = r1
  Replayer = replayer
  App = {"config"}
  Name = {1, 2}
  emptyState = emptyState
  Chunk <- Chunks
  MerkleKey = {1, 2, 3}
  Spelling <- Keys
  MerkleValue <- Values
  EmptyBytes <- Empty
  Value <- OneByte
  TTL = {1}
  StorageMayFail = FALSE
  MaxLog <- LogBound
  MaxTime = 0
INVARIANT ReplayDeterministic
CHECK_DEADLOCK FALSE
