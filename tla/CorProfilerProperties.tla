------------------------ MODULE CorProfilerProperties ------------------------
(***************************************************************************)
(* What the native profiler promises, as far as its ReJIT handler is       *)
(* concerned.                                                              *)
(***************************************************************************)
EXTENDS CorProfiler

ProfilerTypeOK ==
    /\ isAttached \in BOOLEAN
    /\ lock \in Thread \cup {NoThread}
    /\ infoMap \in [Module -> 0 .. MaxLoads]
    /\ managedLoaded \subseteq AppDomain
    /\ firstJit \subseteq AppDomain

CallbackTypeOK == callback \in [Thread -> Callback]

ClrTypeOK ==
    /\ clrModule \in [Module -> {"unloaded", "loading", "loaded", "unloading"}]
    /\ loads \in [Module -> 0 .. MaxLoads]
    /\ targets \in [Module -> [Load -> SUBSET Method]]
    /\ toCompile \subseteq Module \X Method
    /\ managedIn \subseteq AppDomain

HistoryTypeOK ==
    /\ hooks \in [AppDomain -> Nat]
    /\ enqueued \subseteq Module \X Load
    /\ requested \subseteq Module \X Load
    /\ rewritten \subseteq Module \X Load \X Method
    /\ inlined \subseteq Module \X Load \X Method
    /\ loaderIn \subseteq AppDomain
    /\ faults \subseteq {"register", "notify", "rewrite", "lookup", "contains"}

(* Every variable has its type (the fields of CorProfiler and RejitHandler). *)
TypeOK ==
    /\ RejitTypeOK
    /\ ProfilerTypeOK
    /\ CallbackTypeOK
    /\ ClrTypeOK
    /\ HistoryTypeOK

----------------------------------------------------------------------------

\* Where the methods of a load are on their way to the CLR.
QueuePlaces(r) == {i \in DOMAIN queue : <<queue[i].module, queue[i].load>> = r}
InHand(r) == rejitThread = "request" /\ <<popped.module, popped.load>> = r

(* The methods EnqueueForRejit was given are in exactly one place: once in   *)
(* the queue, with the ReJIT thread, or requested.  None is lost, none is    *)
(* requested twice.                                                          *)
RequestedOnce ==
    \A r \in enqueued :
        \/ Cardinality(QueuePlaces(r)) = 1 /\ ~InHand(r) /\ r \notin requested
        \/ QueuePlaces(r) = {} /\ InHand(r) /\ r \notin requested
        \/ QueuePlaces(r) = {} /\ ~InHand(r) /\ r \in requested

(* Shutdown ends the ReJIT thread behind the requests of every module that   *)
(* was loaded before it: when the handler is deleted, all of them have been  *)
(* made and nothing is left for a thread that is gone.                       *)
ShutdownDrains ==
    rejitHandler = "deleted" => /\ rejitThread = "exited"
                                /\ queue = <<>>
                                /\ enqueued \subseteq requested

(* A method is rewritten only with the integration of the load it belongs    *)
(* to ("make sure all the required information is present"), though a        *)
(* request of an earlier module with the same identifier may come late.      *)
RewrittenAsRegistered ==
    \A r \in rewritten : r[3] \in targets[r[1]][r[2]]

(* A method that an integration matches is never inlined while the ReJIT     *)
(* thread lives: a ReJIT would not reach the copies in its callers.          *)
TargetsNotInlined ==
    rejitThread # "exited" => \A r \in inlined : r[3] \notin targets[r[1]][r[2]]

(* The callbacks that hold the lock to the end never touch a freed object,   *)
(* and the others only once Shutdown takes the handler away under them.      *)
LockProtects ==
    /\ "register" \notin faults
    /\ faults # {} => rejitThread = "exited"

(* The startup hook is inserted once in a domain, whatever threads compile   *)
(* their first methods in it together, and not at all once the managed       *)
(* loader is announced there ("do not insert another startup hook").         *)
HookedOnce ==
    [][\A d \in AppDomain : hooks'[d] # hooks[d] => hooks[d] = 0 /\ d \notin loaderIn]_vars

----------------------------------------------------------------------------

(* A callback returns: in particular Shutdown, which joins the ReJIT thread  *)
(* while it holds the lock that other callbacks wait for.                    *)
CallbacksReturn == \A t \in Thread : []<>At(t, "idle")

(* What was enqueued is requested of the CLR: the ReJIT thread catches up    *)
(* again and again, up to the end of the handler.                            *)
RequestsMade == []<>(enqueued \subseteq requested)

----------------------------------------------------------------------------

(* The log of a skipped rewrite says that the managed profiler "has not yet  *)
(* been loaded into AppDomain": a domain that has it is known to have it.    *)
ManagedProfilerKnown ==
    isAttached => managedIn \subseteq managedLoaded
=============================================================================
