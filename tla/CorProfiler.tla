----------------------------- MODULE CorProfiler -----------------------------
(***************************************************************************)
(* The callbacks of the native profiler (cor_profiler.cpp, CallTarget      *)
(* mode) on the threads of the CLR, with the ReJIT handler they share.     *)
(*                                                                         *)
(* Most callbacks run under module_id_to_info_map_lock_; JITInlining does  *)
(* not take it, and GetReJITParameters gives it back before it uses what   *)
(* it found.  A step of a callback is what it does between two points      *)
(* where another thread may intervene.                                     *)
(*                                                                         *)
(* What the CLR guarantees is external: it announces each load and unload  *)
(* of a module once, does not unload a module while it compiles one of     *)
(* its methods, and shuts the profiler down once, at any time.             *)
(***************************************************************************)
EXTENDS RejitHandler

CONSTANTS
    Thread,     \* threads of the CLR
    AppDomain,  \* application domains
    DomainOf,   \* the domain of each module
    NoThread,   \* no thread
    NoMethod    \* no method

ASSUME ProfilerAssumption ==
    /\ NoThread \notin Thread
    /\ NoMethod \notin Method
    /\ DomainOf \in [Module -> AppDomain]

VARIABLES
    isAttached,    \* is_attached_
    lock,          \* the owner of module_id_to_info_map_lock_
    infoMap,       \* module_id_to_info_map_: the metadata of each module
    managedLoaded, \* managed_profiler_loaded_app_domains
    firstJit,      \* first_jit_compilation_app_domains
    callback,      \* the callback each thread is in
    clrModule,     \* the CLR: the life of each module
    loads,         \* the CLR: the latest load of each module
    targets,       \* the methods of a load that an integration matches
    toCompile,     \* the CLR: methods to compile again when they are called
    managedIn,     \* the CLR: domains with the managed profiler's assembly
    hooks,         \* history: startup hooks inserted into each domain
    enqueued,      \* history: the loads whose methods were enqueued
    requested,     \* history: the loads whose methods were requested
    rewritten,     \* history: the methods that were rewritten
    inlined,       \* history: the methods the profiler allowed to be inlined
    faults,        \* history: where a freed object was used
    loaderIn       \* history: domains whose managed loader was announced

clrVars == <<clrModule, loads, targets, toCompile, managedIn>>
history == <<hooks, enqueued, requested, rewritten, inlined, faults, loaderIn>>
profilerVars == <<isAttached, lock, infoMap, managedLoaded, firstJit>>
vars == <<rejitVars, profilerVars, callback, clrVars, history>>

Load == 1 .. MaxLoads

Step == {"idle", "load", "register", "unload", "shutdown", "delete", "detach", "jit",
         "hook", "find", "notify", "rewrite", "lookup", "contains"}

\* A callback: its next step, its arguments, the methods it has yet to
\* register, and the metadata it has looked up.
Callback ==
    [pc : Step, module : Module \cup {NoModule}, method : Method \cup {NoMethod},
     todo : SUBSET Method, metadata : 0 .. MaxLoads]

Idle == [pc |-> "idle", module |-> NoModule, method |-> NoMethod,
         todo |-> {}, metadata |-> 0]

Enter(t, step, m, x) ==
    callback' = [callback EXCEPT ![t] = [pc |-> step, module |-> m, method |-> x,
                                         todo |-> {}, metadata |-> 0]]
Goto(t, step) == callback' = [callback EXCEPT ![t].pc = step]
Return(t) == callback' = [callback EXCEPT ![t] = Idle]
At(t, step) == callback[t].pc = step

\* The CLR is compiling a method of m, or asks about one.
InUse(m) ==
    \E t \in Thread : /\ callback[t].module = m
                      /\ callback[t].pc \in {"jit", "hook", "find", "notify", "rewrite",
                                             "lookup", "contains"}

\* A freed object is used: whatever happens then, the callback has no effect
\* on what the model keeps.
Fault(t) ==
    /\ faults' = faults \cup {callback[t].pc}
    /\ Return(t)

Init ==
    /\ RejitInit
    /\ isAttached = TRUE
    /\ lock = NoThread
    /\ infoMap = [m \in Module |-> 0]
    /\ managedLoaded = {}
    /\ firstJit = {}
    /\ callback = [t \in Thread |-> Idle]
    /\ clrModule = [m \in Module |-> "unloaded"]
    /\ loads = [m \in Module |-> 0]
    /\ targets = [m \in Module |-> [n \in Load |-> {}]]
    /\ toCompile = {}
    /\ managedIn = {}
    /\ hooks = [d \in AppDomain |-> 0]
    /\ enqueued = {}
    /\ requested = {}
    /\ rewritten = {}
    /\ inlined = {}
    /\ faults = {}
    /\ loaderIn = {}

----------------------------------------------------------------------------
(* ModuleLoadFinished and CallTarget_RequestRejitForModule                  *)

\* Loads are numbered in their order.
NextLoad(n) ==
    /\ \A m \in Module : loads[m] < n
    /\ n = 1 \/ \E m \in Module : loads[m] = n - 1

\* The first, unlocked test of is_attached_.  Which methods an integration
\* matches is a matter of metadata: any set of them.
LoadBegin(t, m) ==
    /\ At(t, "idle")
    /\ clrModule[m] = "unloaded"
    /\ \E n \in Load, T \in SUBSET Method :
          /\ NextLoad(n)
          /\ loads' = [loads EXCEPT ![m] = n]
          /\ targets' = [targets EXCEPT ![m][n] = T]
    /\ IF isAttached
       THEN /\ Enter(t, "load", m, NoMethod)
            /\ clrModule' = [clrModule EXCEPT ![m] = "loading"]
       ELSE /\ clrModule' = [clrModule EXCEPT ![m] = "loaded"]
            /\ UNCHANGED callback
    /\ UNCHANGED <<rejitVars, profilerVars, toCompile, managedIn, history>>

\* Variant: is_attached_ is not tested again.
LoadUnchecked(t) ==
    LET m == callback[t].module IN
    /\ At(t, "load")
    /\ lock = NoThread
    /\ lock' = t
    /\ infoMap' = [infoMap EXCEPT ![m] = loads[m]]
    /\ callback' = [callback EXCEPT ![t].pc = "register",
                                    ![t].todo = targets[m][loads[m]]]
    /\ UNCHANGED <<rejitVars, isAttached, managedLoaded, firstJit, clrVars, history>>

\* Variant: the CLR may use the module before its methods are registered.
LoadEarly(t) ==
    LET m == callback[t].module IN
    /\ At(t, "load")
    /\ lock = NoThread
    /\ isAttached
    /\ lock' = t
    /\ infoMap' = [infoMap EXCEPT ![m] = loads[m]]
    /\ callback' = [callback EXCEPT ![t].pc = "register",
                                    ![t].todo = targets[m][loads[m]]]
    /\ clrModule' = [clrModule EXCEPT ![m] = "loaded"]
    /\ UNCHANGED <<rejitVars, isAttached, managedLoaded, firstJit,
                   loads, targets, toCompile, managedIn, history>>

\* Under the lock is_attached_ is tested again, and the metadata is stored.
\* The managed loader is not instrumented, but its domain is marked, for it
\* needs no startup hook.  A module that is skipped (its name, its kind, no
\* metadata) has no target and gets no entry; neither has the core library,
\* whose domain is kept for the domain-neutral case only, which is left out.
LoadLocked(t) ==
    LET m == callback[t].module
        T == targets[m][loads[m]] IN
    /\ At(t, "load")
    /\ lock = NoThread
    /\ \/ /\ isAttached
          /\ lock' = t
          /\ infoMap' = [infoMap EXCEPT ![m] = loads[m]]
          /\ callback' = [callback EXCEPT ![t].pc = "register", ![t].todo = T]
          /\ UNCHANGED <<firstJit, loaderIn, clrModule>>
       \/ /\ \/ isAttached /\ T = {} /\ firstJit' = firstJit \cup {DomainOf[m]}
                                     /\ loaderIn' = loaderIn \cup {DomainOf[m]}
             \/ (~isAttached \/ T = {}) /\ UNCHANGED <<firstJit, loaderIn>>
          /\ clrModule' = [clrModule EXCEPT ![m] = "loaded"]
          /\ Return(t)
          /\ UNCHANGED <<lock, infoMap>>
    /\ UNCHANGED <<rejitVars, isAttached, managedLoaded,
                   loads, targets, toCompile, managedIn,
                   hooks, enqueued, requested, rewritten, inlined, faults>>

\* One matching method is registered with all a rewrite needs.
LoadRegister(t) ==
    LET m == callback[t].module IN
    /\ At(t, "register")
    /\ \E x \in callback[t].todo :
          /\ callback' = [callback EXCEPT ![t].todo = @ \ {x}]
          /\ IF rejitHandler = "live"
             THEN AddTarget(m, loads[m], x) /\ UNCHANGED faults
             ELSE faults' = faults \cup {"register"} /\ UNCHANGED tables
    /\ UNCHANGED <<rejitHandler, queue, rejitThread, popped, profilerVars,
                   clrVars, hooks, enqueued, requested, rewritten, inlined, loaderIn>>

\* EnqueueForRejit for all of them, unless there is none, and the end of the
\* callback: the lock is released and the CLR may use the module.
LoadEnqueue(t) ==
    LET m == callback[t].module
        T == targets[m][loads[m]] IN
    /\ At(t, "register")
    /\ callback[t].todo = {}
    /\ IF T # {} /\ rejitHandler = "live"
       THEN /\ Push([module |-> m, load |-> loads[m], methods |-> T])
            /\ enqueued' = enqueued \cup {<<m, loads[m]>>}
       ELSE UNCHANGED <<queue, enqueued>>
    /\ lock' = NoThread
    /\ clrModule' = [clrModule EXCEPT ![m] = "loaded"]
    /\ Return(t)
    /\ UNCHANGED <<rejitHandler, tables, rejitThread, popped, isAttached, infoMap,
                   managedLoaded, firstJit, loads, targets, toCompile, managedIn,
                   hooks, requested, rewritten, inlined, faults, loaderIn>>

----------------------------------------------------------------------------
(* ModuleUnloadStarted                                                      *)

UnloadBegin(t, m) ==
    /\ At(t, "idle")
    /\ clrModule[m] = "loaded"
    /\ ~InUse(m)
    /\ IF isAttached
       THEN /\ Enter(t, "unload", m, NoMethod)
            /\ clrModule' = [clrModule EXCEPT ![m] = "unloading"]
            /\ UNCHANGED toCompile
       ELSE /\ clrModule' = [clrModule EXCEPT ![m] = "unloaded"]
            /\ toCompile' = {c \in toCompile : c[1] # m}
            /\ UNCHANGED callback
    /\ UNCHANGED <<rejitVars, profilerVars, loads, targets, managedIn, history>>

\* The metadata leaves the map and is deleted, and with it the domain's mark
\* and the handlers.  The CLR forgets what it was to compile.
UnloadLocked(t) ==
    LET m == callback[t].module IN
    /\ At(t, "unload")
    /\ lock = NoThread
    /\ IF isAttached /\ infoMap[m] # 0
       THEN /\ infoMap' = [infoMap EXCEPT ![m] = 0]
            /\ managedLoaded' = managedLoaded \ {DomainOf[m]}
            /\ IF rejitHandler = "live" THEN RemoveModule(m) ELSE UNCHANGED tables
       ELSE UNCHANGED <<infoMap, managedLoaded, tables>>
    /\ clrModule' = [clrModule EXCEPT ![m] = "unloaded"]
    /\ toCompile' = {c \in toCompile : c[1] # m}
    /\ Return(t)
    /\ UNCHANGED <<rejitHandler, queue, rejitThread, popped, isAttached, lock, firstJit,
                   loads, targets, managedIn, history>>

----------------------------------------------------------------------------
(* AssemblyLoadFinished of the managed profiler in domain d                 *)

ManagedProfilerLoaded(t, d) ==
    /\ At(t, "idle")
    /\ d \notin managedIn
    /\ lock = NoThread
    /\ managedIn' = managedIn \cup {d}
    /\ managedLoaded' = IF isAttached THEN managedLoaded \cup {d} ELSE managedLoaded
    /\ UNCHANGED <<rejitVars, isAttached, lock, infoMap, firstJit, callback,
                   clrModule, loads, targets, toCompile, history>>

----------------------------------------------------------------------------
(* Shutdown: the lock is held while the ReJIT thread is joined              *)

\* Variant: nothing tells the ReJIT thread to end.
ShutdownSilent(t) ==
    /\ At(t, "idle")
    /\ lock = NoThread
    /\ rejitHandler = "live"
    /\ lock' = t
    /\ Enter(t, "shutdown", NoModule, NoMethod)
    /\ UNCHANGED <<rejitVars, isAttached, infoMap, managedLoaded, firstJit,
                   clrVars, history>>

\* Variant: the end item overtakes the requests.
ShutdownAtOnce(t) ==
    /\ At(t, "idle")
    /\ lock = NoThread
    /\ rejitHandler = "live"
    /\ lock' = t
    /\ queue' = <<EndRejitThread>> \o queue
    /\ Enter(t, "shutdown", NoModule, NoMethod)
    /\ UNCHANGED <<rejitHandler, tables, rejitThread, popped, isAttached, infoMap,
                   managedLoaded, firstJit, clrVars, history>>

ShutdownBegin(t) ==
    /\ At(t, "idle")
    /\ lock = NoThread
    /\ rejitHandler = "live"
    /\ lock' = t
    /\ Push(EndRejitThread)
    /\ Enter(t, "shutdown", NoModule, NoMethod)
    /\ UNCHANGED <<rejitHandler, tables, rejitThread, popped, isAttached, infoMap,
                   managedLoaded, firstJit, clrVars, history>>

\* Variant: the thread is not joined.
ShutdownUnjoined(t) ==
    /\ At(t, "shutdown")
    /\ ClearModules
    /\ Goto(t, "delete")
    /\ UNCHANGED <<rejitHandler, queue, rejitThread, popped, profilerVars, clrVars, history>>

\* The join returns, and the modules are cleared while the handler can still
\* be found.
ShutdownJoin(t) ==
    /\ At(t, "shutdown")
    /\ rejitThread = "exited"
    /\ ClearModules
    /\ Goto(t, "delete")
    /\ UNCHANGED <<rejitHandler, queue, rejitThread, popped, profilerVars, clrVars, history>>

ShutdownDelete(t) ==
    /\ At(t, "delete")
    /\ DeleteHandler
    /\ Goto(t, "detach")
    /\ UNCHANGED <<queue, rejitThread, popped, profilerVars, clrVars, history>>

\* Only now is is_attached_ cleared.
ShutdownEnd(t) ==
    /\ At(t, "detach")
    /\ isAttached' = FALSE
    /\ lock' = NoThread
    /\ Return(t)
    /\ UNCHANGED <<rejitVars, infoMap, managedLoaded, firstJit, clrVars, history>>

----------------------------------------------------------------------------
(* The ReJIT thread                                                         *)

TakeRequest ==
    /\ PopItem
    /\ UNCHANGED <<profilerVars, callback, clrVars, history>>

\* RequestReJIT: the CLR compiles the methods again when they are next called.
\* It refuses a module that is gone; an identifier that is in use again stands
\* for the new module.
RequestReJIT ==
    /\ RequestDone
    /\ requested' = requested \cup {<<popped.module, popped.load>>}
    /\ toCompile' = toCompile \cup
          {c \in {popped.module} \X popped.methods : clrModule[c[1]] = "loaded"}
    /\ UNCHANGED <<profilerVars, callback, clrModule, loads, targets, managedIn,
                   hooks, enqueued, rewritten, inlined, faults, loaderIn>>

----------------------------------------------------------------------------
(* GetReJITParameters, NotifyReJITParameters, CallTarget_RewriterCallback   *)

RejitBegin(t) ==
    /\ At(t, "idle")
    /\ \E c \in toCompile :
          /\ clrModule[c[1]] = "loaded"
          /\ toCompile' = toCompile \ {c}
          /\ IF isAttached THEN Enter(t, "find", c[1], c[2]) ELSE UNCHANGED callback
    /\ UNCHANGED <<rejitVars, profilerVars, clrModule, loads, targets, managedIn, history>>

\* The lock covers the look-up and no more.
RejitFind(t) ==
    LET m == callback[t].module IN
    /\ At(t, "find")
    /\ lock = NoThread
    /\ IF infoMap[m] = 0
       THEN Return(t)
       ELSE callback' = [callback EXCEPT ![t].pc = "notify", ![t].metadata = infoMap[m]]
    /\ UNCHANGED <<rejitVars, profilerVars, clrVars, history>>

\* NotifyReJITParameters adds what is missing, for a method nobody registered too.
RejitNotify(t) ==
    LET c == callback[t] IN
    /\ At(t, "notify")
    /\ IF rejitHandler = "live"
       THEN /\ AddMethod(c.module, c.metadata, c.method)
            /\ Goto(t, "rewrite")
            /\ UNCHANGED <<described, faults>>
       ELSE Fault(t) /\ UNCHANGED tables
    /\ UNCHANGED <<rejitHandler, queue, rejitThread, popped, profilerVars, clrVars,
                   hooks, enqueued, requested, rewritten, inlined, loaderIn>>

\* The tests for what is missing, and the rewriter: it needs the handlers and
\* the metadata to be there still, and the managed profiler in the domain.
RejitRewrite(t) ==
    LET c == callback[t]
        there == /\ rejitHandler = "live"
                 /\ c.module \in modules
                 /\ infoMap[c.module] = c.metadata IN
    /\ At(t, "rewrite")
    /\ IF there
       THEN /\ rewritten' = IF /\ c.method \in described[c.module]
                              /\ DomainOf[c.module] \in managedLoaded
                           THEN rewritten \cup {<<c.module, c.metadata, c.method>>}
                           ELSE rewritten
            /\ Return(t)
            /\ UNCHANGED faults
       ELSE Fault(t) /\ UNCHANGED rewritten
    /\ UNCHANGED <<rejitVars, profilerVars, clrVars,
                   hooks, enqueued, requested, inlined, loaderIn>>

----------------------------------------------------------------------------
(* JITCompilationStarted: the startup hook of a domain                      *)

\* A call that finds the domain marked has no effect and is left out.
JitBegin(t, m) ==
    /\ At(t, "idle")
    /\ clrModule[m] = "loaded"
    /\ isAttached
    /\ DomainOf[m] \notin firstJit
    /\ Enter(t, "jit", m, NoMethod)
    /\ UNCHANGED <<rejitVars, profilerVars, clrVars, history>>

\* Variant: the mark of the domain is not tested under the lock.
JitUnchecked(t) ==
    LET m == callback[t].module IN
    /\ At(t, "jit")
    /\ lock = NoThread
    /\ \/ /\ isAttached
          /\ infoMap[m] # 0
          /\ lock' = t
          /\ Goto(t, "hook")
       \/ Return(t) /\ UNCHANGED lock
    /\ UNCHANGED <<rejitVars, isAttached, infoMap, managedLoaded, firstJit, clrVars, history>>

\* Under the lock; the function may also be no valid call site for the hook.
JitFind(t) ==
    LET m == callback[t].module IN
    /\ At(t, "jit")
    /\ lock = NoThread
    /\ \/ /\ isAttached
          /\ infoMap[m] # 0
          /\ DomainOf[m] \notin firstJit
          /\ lock' = t
          /\ Goto(t, "hook")
       \/ Return(t) /\ UNCHANGED lock
    /\ UNCHANGED <<rejitVars, isAttached, infoMap, managedLoaded, firstJit, clrVars, history>>

\* The domain is marked before RunILStartupHook is tried.
JitHook(t) ==
    LET d == DomainOf[callback[t].module] IN
    /\ At(t, "hook")
    /\ firstJit' = firstJit \cup {d}
    /\ hooks' = [hooks EXCEPT ![d] = @ + 1]
    /\ lock' = NoThread
    /\ Return(t)
    /\ UNCHANGED <<rejitVars, isAttached, infoMap, managedLoaded, clrVars,
                   enqueued, requested, rewritten, inlined, faults, loaderIn>>

----------------------------------------------------------------------------
(* JITInlining, which takes no lock of the profiler                         *)

InlineBegin(t, m, x) ==
    /\ At(t, "idle")
    /\ clrModule[m] = "loaded"
    /\ isAttached
    /\ rejitHandler = "live"
    /\ Enter(t, "lookup", m, x)
    /\ UNCHANGED <<rejitVars, profilerVars, clrVars, history>>

\* The answer to the CLR, for the load of the module that is there.
AllowInlining(c) == inlined' = inlined \cup {<<c.module, loads[c.module], c.method>>}

\* TryGetModule
InlineLookup(t) ==
    LET c == callback[t] IN
    /\ At(t, "lookup")
    /\ \/ /\ rejitHandler = "live"
          /\ c.module \in modules
          /\ Goto(t, "contains")
          /\ UNCHANGED <<inlined, faults>>
       \/ /\ rejitHandler = "live"
          /\ c.module \notin modules
          /\ AllowInlining(c)
          /\ Return(t)
          /\ UNCHANGED faults
       \/ rejitHandler # "live" /\ Fault(t) /\ UNCHANGED inlined
    /\ UNCHANGED <<rejitVars, profilerVars, clrVars,
                   hooks, enqueued, requested, rewritten, loaderIn>>

\* ContainsMethod, on the module handler that was found
InlineContains(t) ==
    LET c == callback[t] IN
    /\ At(t, "contains")
    /\ \/ c.module \notin modules /\ Fault(t) /\ UNCHANGED inlined
       \/ /\ c.module \in modules
          /\ IF c.method \in methods[c.module] THEN UNCHANGED inlined ELSE AllowInlining(c)
          /\ Return(t)
          /\ UNCHANGED faults
    /\ UNCHANGED <<rejitVars, profilerVars, clrVars,
                   hooks, enqueued, requested, rewritten, loaderIn>>

----------------------------------------------------------------------------

\* What a thread does once it is inside a callback.
Continue(t) ==
    \/ LoadLocked(t) \/ LoadRegister(t) \/ LoadEnqueue(t)
    \/ UnloadLocked(t)
    \/ ShutdownJoin(t) \/ ShutdownDelete(t) \/ ShutdownEnd(t)
    \/ RejitFind(t) \/ RejitNotify(t) \/ RejitRewrite(t)
    \/ JitFind(t) \/ JitHook(t)
    \/ InlineLookup(t) \/ InlineContains(t)

\* What the CLR may call.
Call(t) ==
    \/ \E m \in Module : LoadBegin(t, m) \/ UnloadBegin(t, m) \/ JitBegin(t, m)
    \/ \E d \in AppDomain : ManagedProfilerLoaded(t, d)
    \/ \E m \in Module, x \in Method : InlineBegin(t, m, x)
    \/ ShutdownBegin(t)
    \/ RejitBegin(t)

RejitThread == TakeRequest \/ RequestReJIT

Next == RejitThread \/ \E t \in Thread : Call(t) \/ Continue(t)

Spec == Init /\ [][Next]_vars

\* The ReJIT thread runs, and a callback that has begun goes on; the CLR need
\* never call anything.
FairSpec == Spec /\ WF_vars(RejitThread) /\ \A t \in Thread : WF_vars(Continue(t))
=============================================================================
