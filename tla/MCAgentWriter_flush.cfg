SPECIFICATION Spec
CONSTANTS
    Producer = {p1}
    Caller = {c1}
    Trace = {t1, bad}
    Unserializable = {bad}
    MayClose = FALSE
    ApiResult = {TRUE}
    HeaderSize = 1
    MaxSize = 2
    Size <- MCSize
    Serializer = Serializer
    FlushLoop = FlushLoop
    CloseFlush = CloseFlush
    NoThread = NoThread
    NoTrace = NoTrace
    big = big
    bad = bad
    c1 = c1
    p1 = p1
    t1 = t1
CHECK_DEADLOCK FALSE
INVARIANTS
    LockHasOneOwner
    FlushLeavesNothingBehind
