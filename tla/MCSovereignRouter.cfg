SPECIFICATION FairSpec
CONSTANTS
  t1 = t1
  t2 = t2
  d1 = d1
  home = home
  away = away
  w1 = w1
  w2 = w2
  NilBytes = NilBytes
  Missing = Missing
  Tx = {t1, t2}
  Data = {d1}
  Jurisdiction = {home, away}
  Home = home
  Worker = {w1}
  HasFetcher = TRUE
  QueueCap = 2
  MaxApply = 3
INVARIANTS AnchoredExecution TracesChain ProofsGenuine RegistryLatest
PROPERTIES ApplyReturns TracesProved
CHECK_DEADLOCK FALSE
