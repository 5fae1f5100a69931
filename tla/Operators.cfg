SPECIFICATION MCSpec
CONSTANTS
    a = a
    b = b
    c = c
    Space = {a, b, c}
    MaxComputed = 3
    MaxOrdered = 3
INVARIANTS
    TypeOK
    ReturnsDerivable
    RefusesUnderivable
    TraceIsAPlan
    OnlyNeeded
    Ordered
    RaisesOnCycle
PROPERTIES
    Terminates
