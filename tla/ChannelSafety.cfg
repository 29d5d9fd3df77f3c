CONSTANTS
  p1 = p1
  c1 = c1
  c2 = c2
  f1 = f1
  m1 = m1
  m2 = m2
  Producers = {p1}
  Consumers = {c1, c2}
  Flushers = {f1}
  Threads = {m1, m2}
  ThreadOf <- TwoMeshes
  Buffer <- SingleAndPair
  MaxValue = 3
SPECIFICATION FairSpec
INVARIANTS TypeOK EveryValueInOnePlace OutputInOrder LeftBehindIsLate
PROPERTY ConsumersEnd
CHECK_DEADLOCK FALSE
