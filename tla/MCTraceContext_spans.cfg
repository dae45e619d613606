SPECIFICATION Spec
CONSTANTS
    Thread = {a, b, c}
    Span = {s1, s2, s3}
    NoSpan = NoSpan
    Priority = {keep, reject}
    NoPriority = NoPriority
    ParentPriority = {keep, reject, NoPriority}
    SamplerDecision = {keep, reject}
    PartialFlushEnabled = TRUE
    PartialFlushMinSpans = 2
    a = a
    c = c
    b = b
    s1 = s1
    s2 = s2
    s3 = s3
    keep = keep
    reject = reject
CHECK_DEADLOCK FALSE
SYMMETRY Symmetry
INVARIANTS
    TypeOK
    SpansInOnePlace
    OpenSpansExact
    NoneStranded
    OnePrioritySent
