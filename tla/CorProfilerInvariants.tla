------------------------ MODULE CorProfilerInvariants ------------------------
(***************************************************************************)
(* The strengthening that makes the invariants of the native profiler      *)
(* inductive: what each callback may rely on at each of its steps.         *)
(***************************************************************************)
EXTENDS CorProfilerProperties

Resting == {"idle", "shutdown", "delete", "detach"}
LoadSteps == {"load", "register"}
RejitSteps == {"find", "notify", "rewrite"}
InlineSteps == {"lookup", "contains"}
LockSteps == {"register", "hook", "shutdown", "delete", "detach"}

(* A callback has the arguments its next step uses, and the CLR keeps the    *)
(* module in the state it announced until the callback returns.              *)
FrameTyped(t) ==
    LET c == callback[t] IN
    /\ c.pc \notin Resting => c.module \in Module
    /\ c.pc \in LoadSteps => clrModule[c.module] = "loading"
    /\ c.pc = "unload" => clrModule[c.module] = "unloading"
    /\ c.pc \in {"jit", "hook"} \cup RejitSteps \cup InlineSteps
          => clrModule[c.module] = "loaded"
    /\ c.pc \in RejitSteps \cup InlineSteps => c.method \in Method
    /\ c.pc \in {"notify", "rewrite"} => c.metadata \in Load
FramesTyped == \A t \in Thread : FrameTyped(t)

(* A module is loaded or unloaded by one thread.                             *)
OneLoader ==
    \A t, u \in Thread :
        /\ callback[t].pc \in LoadSteps \cup {"unload"}
        /\ callback[u].pc \in LoadSteps \cup {"unload"}
        /\ callback[t].module = callback[u].module
        => t = u

(* A module that is there was loaded, and nothing is older than its load.    *)
LoadsCounted ==
    \A m \in Module :
        /\ clrModule[m] # "unloaded" => loads[m] \in Load
        /\ infoMap[m] <= loads[m]

(* What the ReJIT thread has in hand is a request.                           *)
RequestTaken == rejitThread = "request" => popped \in Request

Typed == TypeOK /\ FramesTyped /\ OneLoader /\ LoadsCounted /\ RequestTaken

----------------------------------------------------------------------------

(* The lock is held at the steps that say so, and only there.                *)
LockHeld == \A t \in Thread : callback[t].pc \in LockSteps <=> lock = t

\* A Shutdown is at one of the steps.
ShuttingDown(steps) == lock \in Thread /\ callback[lock].pc \in steps

(* The handler is live while the profiler is attached, except for the steps  *)
(* of Shutdown, and only Shutdown ends the ReJIT thread.                     *)
Lives ==
    /\ rejitHandler = "deleted" => rejitThread = "exited"
    /\ rejitHandler = "deleted" /\ isAttached => ShuttingDown({"detach"})
    /\ ~isAttached => rejitHandler = "deleted"
    /\ ShuttingDown({"shutdown", "delete"}) => rejitHandler = "live"
    /\ ShuttingDown({"delete"}) => rejitThread = "exited"
    /\ ShuttingDown({"detach"}) => rejitHandler = "deleted"
    /\ ShuttingDown({"register"}) => isAttached
    /\ rejitThread = "exited" /\ rejitHandler = "live" => ShuttingDown({"shutdown", "delete"})

(* The end item is the last of the queue, and nothing follows it.            *)
EndsQueue ==
    /\ \A i \in 1 .. Len(queue) :
          queue[i] = EndRejitThread => i = Len(queue) /\ ShuttingDown({"shutdown"})
    /\ rejitThread = "exited" => queue = <<>>

Serialized == LockHeld /\ Lives /\ EndsQueue

----------------------------------------------------------------------------

KeyOf(item) == <<item.module, item.load>>

(* RequestedOnce by positions.                                               *)
QueueTracked ==
    /\ \A i, j \in 1 .. Len(queue) : KeyOf(queue[i]) = KeyOf(queue[j]) => i = j
    /\ \A i \in 1 .. Len(queue) :
          queue[i] # EndRejitThread =>
              /\ KeyOf(queue[i]) \in enqueued \ requested
              /\ ~InHand(KeyOf(queue[i]))
    /\ rejitThread = "request" => KeyOf(popped) \in enqueued \ requested
    /\ \A r \in enqueued : \/ r \in requested
                           \/ InHand(r)
                           \/ \E i \in 1 .. Len(queue) : KeyOf(queue[i]) = r
    /\ requested \subseteq enqueued

(* A load is enqueued at the end of its callback.                            *)
LoadersTracked ==
    /\ \A r \in enqueued : r[2] <= loads[r[1]]
    /\ \A t \in Thread : callback[t].pc \in LoadSteps =>
          <<callback[t].module, loads[callback[t].module]>> \notin enqueued

RequestsTracked == QueueTracked /\ LoadersTracked

----------------------------------------------------------------------------

(* The metadata that was looked up is that of the module, and there is none  *)
(* for a module that is not there.                                           *)
InfoFrame(t) ==
    LET c == callback[t] IN
    /\ c.pc \in {"notify", "rewrite"} => infoMap[c.module] = c.metadata
    /\ c.pc = "register" => infoMap[c.module] = loads[c.module]
    /\ c.pc = "load" /\ isAttached => infoMap[c.module] = 0
InfoKept ==
    /\ \A t \in Thread : InfoFrame(t)
    /\ isAttached => \A m \in Module : clrModule[m] = "unloaded" => infoMap[m] = 0

(* What is yet to be registered, what a method handler describes and what   *)
(* was rewritten are targets of the load they belong to.                     *)
TodoMatched ==
    \A t \in Thread :
        LET c == callback[t] IN
        c.pc = "register" => c.todo \subseteq targets[c.module][loads[c.module]]
DescribedMatched ==
    \A m \in Module : described[m] # {} =>
        infoMap[m] # 0 /\ described[m] \subseteq targets[m][infoMap[m]]
RewrittenMatched ==
    \A r \in rewritten : r[2] <= loads[r[1]] /\ r[3] \in targets[r[1]][r[2]]

DescribedAsMatched == TodoMatched /\ DescribedMatched /\ RewrittenMatched

(* Until the modules are cleared, every target of a loaded module is found,  *)
(* the handlers a callback uses are there, and no target is inlined.         *)
MethodsOfModules == \A m \in Module : methods[m] # {} => m \in modules
HandlerFrame(t) ==
    LET c == callback[t] IN
    /\ c.pc = "register" =>
          targets[c.module][loads[c.module]] \ c.todo \subseteq methods[c.module]
    /\ c.pc \in {"rewrite", "contains"} => c.module \in modules
TargetsKnown ==
    rejitThread # "exited" =>
        /\ \A m \in Module : clrModule[m] = "loaded" => targets[m][loads[m]] \subseteq methods[m]
        /\ \A t \in Thread : HandlerFrame(t)
InlinedLoaded == \A r \in inlined : r[2] <= loads[r[1]]

TargetsFound == MethodsOfModules /\ TargetsKnown /\ InlinedLoaded /\ TargetsNotInlined

(* A domain without the mark has no hook and no managed loader, and the      *)
(* thread that is about to insert a hook found none.                         *)
HookMarked ==
    /\ loaderIn \subseteq firstJit
    /\ \A d \in AppDomain : hooks[d] <= IF d \in firstJit THEN 1 ELSE 0
    /\ \A t \in Thread : callback[t].pc = "hook" =>
          DomainOf[callback[t].module] \notin firstJit

----------------------------------------------------------------------------

IInv == /\ Typed /\ Serialized /\ RequestsTracked
        /\ InfoKept /\ DescribedAsMatched /\ TargetsFound
        /\ LockProtects /\ HookMarked
=============================================================================
