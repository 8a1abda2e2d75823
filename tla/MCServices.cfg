SPECIFICATION Spec
CONSTANTS
  task1 = task1
  task2 = task2
  s1 = s1
  s2 = s2
  p1 = p1
  p2 = p2
  r1 = r1
  r2 = r2
  Task = {task1, task2}
  Subscriber = {s1, s2}
  EventType = {"STATE_COMMITTED"}
  Emits <- TaskEvents
  ChanCap = 1
  MaxTicks = 3
  Proposer = {p1, p2}
  CommitCap = 1
  MaxCommits = 3
  Bits = 3
  LocalID = {0, 2}
  PeerID = {{0}, {1}, {0, 1}, {0, 2}}
  K = 2
  Score <- PeerScores
  Delta <- Adjustments
  MaxCalls = 5
  App = {"config", "kv", "meta"}
  Name = {1}
  Value <- Strings
  Chunk = {}
  MerkleKey = {}
  MerkleValue = {}
  Spelling <- NoKeys
  EmptyBytes <- NoKeys
  TTL = {}
  StorageMayFail = TRUE
  Router = {r1, r2}
  HandlerType = {"config", "kv", "rwa"}
  TxID = {"tx_auto_gen"}
  MaxRouted = 3
INVARIANTS FastSubscriberMissesNothing PeersWellPlaced ReputationKept FailuresInvisible
PROPERTIES QuietWhenFollower SchedulerStops BlockedCallsReturn
CHECK_DEADLOCK FALSE
