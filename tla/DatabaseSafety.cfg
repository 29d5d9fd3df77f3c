CONSTANTS
  w1 = w1
  w2 = w2
  w3 = w3
  s1 = s1
  NoWire = NoWire
  Wires = {w1, w2, s1}
  Strays = {s1}
  Workers = 1
SPECIFICATION FairSpec
INVARIANTS TypeOK TransactionsAreApart
PROPERTIES TransactionsEnd
CHECK_DEADLOCK FALSE
