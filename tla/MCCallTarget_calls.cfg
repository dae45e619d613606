SPECIFICATION Spec
CONSTANTS
    Flow = {f, g}
    Call = {c1, c2}
    Block = {b}
    Scope <- MCScope
    NoScope = NoScope
    b = b
    c1 = c1
    c2 = c2
    f = f
    g = g
CHECK_DEADLOCK FALSE
SYMMETRY Symmetry
INVARIANTS
    ContextKept
    OutcomeKept
    SpanFinishedFirst
