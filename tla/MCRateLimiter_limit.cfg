SPECIFICATION Spec
CONSTANTS
    Thread = {a, b}
    Trace = {r1, r2, r3, r4, r5}
    NoTrace = NoTrace
    Limit = 2
    Interval = 1
    MaxTime = 3
    a = a
    b = b
    r1 = r1
    r2 = r2
    r3 = r3
    r4 = r4
    r5 = r5
CHECK_DEADLOCK FALSE
SYMMETRY Symmetry
INVARIANTS
    TypeOK
    LimitHolds
    RefreshEffective
    CountedOnce
