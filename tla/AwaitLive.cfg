CONSTANTS
  c1 = c1
  c2 = c2
  c3 = c3
  m1 = m1
  m2 = m2
  Calls = {c1, c2}
  NoCall = NoCall
  Threads = {m1, m2}
  ThreadOf <- TwoMeshes
  NumWorkers = 2
  MaxWorkers = 2
  LowWater = 2
SPECIFICATION FairLockSpec
PROPERTIES CallsAreServed StoppedAwaitReturns TerminateReturns
CHECK_DEADLOCK FALSE
