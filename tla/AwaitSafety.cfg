CONSTANTS
  c1 = c1
  c2 = c2
  c3 = c3
  m1 = m1
  m2 = m2
  Calls = {c1, c2, c3}
  NoCall = NoCall
  Threads = {m1}
  ThreadOf <- OneMesh
  NumWorkers = 2
  MaxWorkers = 3
  LowWater = 2
SPECIFICATION Spec
SYMMETRY Interchangeable
INVARIANTS TypeOK FrameOutlivesCall CounterIsExact PoolKeepsWorkers
PROPERTY ImplementsAsyncCall
CHECK_DEADLOCK FALSE
