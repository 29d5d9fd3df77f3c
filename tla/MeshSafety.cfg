SPECIFICATION Spec
CONSTANTS
    a = a
    b = b
    c = c
    Wires = {a, b, c}
    NoWire = NoWire
    WhenDone <- HeirOfA
INVARIANTS
    TypeOK
    LifeIsConsistent
    NotTickedTwice
    MissedOnlyAfterTwoRemovals
    TickReportsFailures
    OnlyHeirsSurviveClear
