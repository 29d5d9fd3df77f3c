CONSTANTS
  a1 = a1
  a2 = a2
  Awaits = {a1, a2}
  NoAwait = NoAwait
  Place <- Places
  MaxDepth = 4
SPECIFICATION FairSpec
INVARIANTS TypeOK StoppedStaysStopped
PROPERTIES SignalsAreCaught StoppedEnds
CHECK_DEADLOCK FALSE
