SPECIFICATION Spec
CONSTANTS
  t1 = t1
  t2 = t2
  d1 = d1
  d2 = d2
  home = home
  away = away
  w1 = w1
  w2 = w2
  NilBytes = NilBytes
  Missing = Missing
  Tx = {t1, t2}
  Data = {d1, d2}
  Jurisdiction = {home, away}
  Home = home
  Worker = {w1, w2}
  HasFetcher = TRUE
  QueueCap = 1
  MaxApply = 3
SYMMETRY Symmetry
INVARIANT ExecutedMatchesAnchor
CHECK_DEADLOCK FALSE
