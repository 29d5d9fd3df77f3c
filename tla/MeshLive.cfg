SPECIFICATION PlainSpec
CONSTANTS
    a = a
    b = b
    c = c
    Wires = {a, b, c}
    NoWire = NoWire
    WhenDone <- HeirOfA
PROPERTIES
    TickEnds
    EventuallyTicked
