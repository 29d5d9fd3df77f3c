SPECIFICATION Spec
CONSTANTS
    a = a
    b = b
    c = c
    Wires = {a, b, c}
    NoWire = NoWire
    WhenDone <- NoHeirs
INVARIANT
    EveryFlowTicked
