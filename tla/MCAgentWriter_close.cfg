SPECIFICATION Spec
CONSTANTS
    Producer = {p1}
    Caller = {}
    Trace = {t1, t2}
    Unserializable = {}
    MayClose = TRUE
    ApiResult = {TRUE, FALSE}
    HeaderSize = 1
    MaxSize = 2
    Size <- MCSize
    Serializer = Serializer
    FlushLoop = FlushLoop
    CloseFlush = CloseFlush
    NoThread = NoThread
    NoTrace = NoTrace
    big = big
    p1 = p1
    t1 = t1
    t2 = t2
CHECK_DEADLOCK FALSE
SYMMETRY Symmetry
INVARIANTS
    RatesAccountForTraces
    CloseLeavesNoBufferBehind
PROPERTIES
    ImplementsDelivery
