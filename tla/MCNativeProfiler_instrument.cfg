SPECIFICATION MCSpec
CONSTANTS
    Module = {m1, m2}
    Method = {x}
    Thread = {u, v}
    AppDomain = {d1}
    DomainOf <- MCDomainOf
    MaxLoads = 2
    NoModule = NoModule
    NoMethod = NoMethod
    NoThread = NoThread
    u = u
    v = v
    d1 = d1
    m1 = m1
    m2 = m2
    x = x
    FastPathCount = 2
    Methods <- Compiled
    MaxChoices = 4
CHECK_DEADLOCK FALSE
INVARIANTS
    TypeOK
    RequestedOnce
    ShutdownDrains
    RewrittenAsRegistered
    TargetsNotInlined
    LockProtects
    SameBehaviour
    HooksPaired
    BodyValid
PROPERTIES
    HookedOnce
    CallbacksReturn
    RequestsMade
    Completes
