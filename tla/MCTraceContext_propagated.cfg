SPECIFICATION Spec
CONSTANTS
    Thread = {a}
    Span = {s1, s2}
    NoSpan = NoSpan
    Priority = {keep, reject}
    NoPriority = NoPriority
    ParentPriority = {keep, NoPriority}
    SamplerDecision = {keep, reject}
    PartialFlushEnabled = FALSE
    PartialFlushMinSpans = 2
    a = a
    s1 = s1
    s2 = s2
    keep = keep
    reject = reject
CHECK_DEADLOCK FALSE
INVARIANT
    PropagatedPriorityLocked
