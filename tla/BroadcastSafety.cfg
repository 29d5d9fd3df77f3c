CONSTANTS
  b1 = b1
  b2 = b2
  l1 = l1
  l2 = l2
  m1 = m1
  m2 = m2
  Casters = {b1, b2}
  Listeners = {l1, l2}
  Threads = {m1, m2}
  ThreadOf <- TwoMeshes
  Subs = {s1, s2, s3}
  NoSub = NoSub
  Recomposed = {l1}
  MaxValue = 1
SPECIFICATION Spec
SYMMETRY Alike
INVARIANTS TypeOK SameOrder ListIsLocked
PROPERTIES ErasesWhatIsDone
CHECK_DEADLOCK FALSE
