SPECIFICATION FairSpecApart
CONSTANTS
    Producer = {p1}
    Caller = {c1}
    Trace = {t1}
    Unserializable = {}
    MayClose = TRUE
    ApiResult = {TRUE}
    HeaderSize = 1
    MaxSize = 2
    Size <- MCSize
    Serializer = Serializer
    FlushLoop = FlushLoop
    CloseFlush = CloseFlush
    NoThread = NoThread
    NoTrace = NoTrace
    big = big
    c1 = c1
    p1 = p1
    t1 = t1
CHECK_DEADLOCK FALSE
PROPERTIES
    EveryTraceSettles
    FlushTracesCompletes
    CloseStopsTasks
