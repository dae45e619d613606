---------------------------- MODULE RejitHandler ----------------------------
(***************************************************************************)
(* The native ReJIT handler (rejit_handler.cpp): the tables of modules and *)
(* methods that wait for a rewrite, the queue of requests, and the thread  *)
(* that drains it.  CorProfiler composes it with the profiler callbacks.   *)
(*                                                                         *)
(* A ModuleID is an address that the CLR may use again; a ModuleMetadata   *)
(* object is named by the load it was created for: the n-th load of the    *)
(* process has metadata n, and 0 is a null pointer.                        *)
(***************************************************************************)
EXTENDS Integers, Sequences, FiniteSets

CONSTANTS
    Module,    \* module identifiers
    Method,    \* method tokens
    NoModule,  \* no module
    MaxLoads   \* bound: how many modules are loaded

ASSUME RejitAssumption ==
    /\ NoModule \notin Module
    /\ MaxLoads \in Nat

VARIABLES
    rejitHandler,  \* the object: "live" or "deleted" (and the pointer null)
    modules,       \* the keys of m_modules
    metadata,      \* m_metadata of each module handler
    methods,       \* the keys of each module handler's m_methods
    described,     \* the methods that have a function info and a replacement
    queue,         \* m_rejit_queue
    rejitThread,   \* where m_rejit_queue_thread is
    popped         \* the item it took

rejitVars == <<rejitHandler, modules, metadata, methods, described, queue,
               rejitThread, popped>>
tables == <<modules, metadata, methods, described>>

\* The methods to rejit of one load of one module.
Request == [module : Module, load : 1 .. MaxLoads, methods : SUBSET Method]

\* The item of length -1 that ends the thread.
EndRejitThread == [module |-> NoModule, load |-> 0, methods |-> {}]

Item == Request \cup {EndRejitThread}

RejitInit ==
    /\ rejitHandler = "live"
    /\ modules = {}
    /\ metadata = [m \in Module |-> 0]
    /\ methods = [m \in Module |-> {}]
    /\ described = [m \in Module |-> {}]
    /\ queue = <<>>
    /\ rejitThread = "pop"
    /\ popped = EndRejitThread

\* GetOrAddModule, SetModuleMetadata and GetOrAddMethod.  A module that is not
\* in m_modules has no methods (RemoveModule).
AddMethod(m, md, x) ==
    /\ modules' = modules \cup {m}
    /\ metadata' = [metadata EXCEPT ![m] = md]
    /\ methods' = [methods EXCEPT ![m] = @ \cup {x}]

\* The method handler is also given its function info and replacement.
AddTarget(m, md, x) ==
    /\ AddMethod(m, md, x)
    /\ described' = [described EXCEPT ![m] = @ \cup {x}]

\* Variant: the handlers stay when their module is unloaded.
KeepModule(m) == UNCHANGED tables

\* RemoveModule frees the module handler and its method handlers.
RemoveModule(m) ==
    /\ modules' = modules \ {m}
    /\ metadata' = [metadata EXCEPT ![m] = 0]
    /\ methods' = [methods EXCEPT ![m] = {}]
    /\ described' = [described EXCEPT ![m] = {}]

\* m_modules.clear()
ClearModules ==
    /\ modules' = {}
    /\ metadata' = [m \in Module |-> 0]
    /\ methods' = [m \in Module |-> {}]
    /\ described' = [m \in Module |-> {}]

\* The owner deletes the object, with whatever was added to it since.
DeleteHandler == rejitHandler' = "deleted" /\ ClearModules

\* UniqueBlockingQueue.push
Push(item) == queue' = Append(queue, item)

\* Variant: the item is read but not popped.
PeekItem ==
    /\ rejitThread = "pop"
    /\ queue # <<>>
    /\ popped' = Head(queue)
    /\ rejitThread' = IF Head(queue) = EndRejitThread THEN "exited" ELSE "request"
    /\ UNCHANGED <<rejitHandler, tables, queue>>

\* Variant: the end item is taken for a request.
PopUntested ==
    /\ rejitThread = "pop"
    /\ queue # <<>>
    /\ queue' = Tail(queue)
    /\ popped' = Head(queue)
    /\ rejitThread' = "request"
    /\ UNCHANGED <<rejitHandler, tables>>

\* UniqueBlockingQueue.pop, and the test of the length: the end item ends the
\* loop, whatever was queued before it has been taken.
PopItem ==
    /\ rejitThread = "pop"
    /\ queue # <<>>
    /\ queue' = Tail(queue)
    /\ popped' = Head(queue)
    /\ rejitThread' = IF Head(queue) = EndRejitThread THEN "exited" ELSE "request"
    /\ UNCHANGED <<rejitHandler, tables>>

\* RequestReJIT has returned: the thread takes the next item.
RequestDone ==
    /\ rejitThread = "request"
    /\ rejitThread' = "pop"
    /\ UNCHANGED <<rejitHandler, tables, queue, popped>>

RejitTypeOK ==
    /\ rejitHandler \in {"live", "deleted"}
    /\ modules \subseteq Module
    /\ metadata \in [Module -> 0 .. MaxLoads]
    /\ methods \in [Module -> SUBSET Method]
    /\ described \in [Module -> SUBSET Method]
    /\ queue \in Seq(Item)
    /\ rejitThread \in {"pop", "request", "exited"}
    /\ popped \in Item
=============================================================================
