SPECIFICATION Spec
CONSTANTS
    Producer = {p1, p2}
    Caller = {}
    Trace = {t1, t2, t3, bad}
    Unserializable = {bad}
    MayClose = FALSE
    ApiResult = {TRUE, FALSE}
    HeaderSize = 1
    MaxSize = 3
    Size <- MCSize
    Serializer = Serializer
    FlushLoop = FlushLoop
    CloseFlush = CloseFlush
    NoThread = NoThread
    NoTrace = NoTrace
    big = big
    p1 = p1
    p2 = p2
    t1 = t1
    t2 = t2
    t3 = t3
    bad = bad
CHECK_DEADLOCK FALSE
SYMMETRY Symmetry
INVARIANTS
    TypeOK
    NoLostWakeup
    FullMeansNoRoom
    EveryTraceInOnePlace
    FallbackNotStranded
    PayloadStable
    RequestNotLost
