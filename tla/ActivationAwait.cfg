CONSTANTS
  a1 = a1
  a2 = a2
  Awaits = {a2}
  NoAwait = NoAwait
  Place <- Places
  MaxDepth = 3
SPECIFICATION Spec
CHECK_DEADLOCK FALSE
INVARIANT WorkerContinues
