CONSTANTS
  w1 = w1
  w2 = w2
  w3 = w3
  w4 = w4
  f1 = f1
  f2 = f2
  Wires = {w1, w2, w3, w4}
  NoWire = NoWire
  Roots = {w1, w2}
  Owns <- RootsOwn
  Flows = {f1, f2}
  NoFlow = NoFlow
SPECIFICATION Spec
SYMMETRY Alike
INVARIANTS TypeOK FlowsDriveLiveWires ResumersWait
PROPERTIES ParentIsKept
CHECK_DEADLOCK FALSE
