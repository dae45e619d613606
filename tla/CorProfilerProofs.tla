-------------------------- MODULE CorProfilerProofs --------------------------
(***************************************************************************)
(* Proofs about CorProfiler, for every number of threads, modules, methods *)
(* and application domains.                                                *)
(***************************************************************************)
EXTENDS CorProfilerInvariants, SequenceTheorems, FiniteSetTheorems, TLAPS

-----------------------------------------------------------------------------
(* What entering a callback, going on in it and returning from it do to    *)
(* the frames.                                                             *)

Frame(t, s, m, x, md) ==
  /\ CallbackTypeOK'
  /\ callback'[t].pc = s
  /\ callback'[t].module = m
  /\ callback'[t].method = x
  /\ callback'[t].metadata = md
  /\ \A u \in Thread \ {t} : callback'[u] = callback[u]

Stays(t, s) == Frame(t, s, callback[t].module, callback[t].method, callback[t].metadata)

Leaves(t) == Frame(t, "idle", NoModule, NoMethod, 0)

LEMMA EnterFrame ==
  ASSUME CallbackTypeOK, NEW t \in Thread, NEW s \in Step,
         NEW m \in Module \cup {NoModule}, NEW x \in Method \cup {NoMethod},
         Enter(t, s, m, x)
  PROVE  Frame(t, s, m, x, 0)
BY RejitAssumption DEF CallbackTypeOK, Enter, Callback, Frame

LEMMA GotoFrame ==
  ASSUME CallbackTypeOK, NEW t \in Thread, NEW s \in Step, Goto(t, s)
  PROVE  Stays(t, s) /\ callback'[t].todo = callback[t].todo
BY DEF CallbackTypeOK, Goto, Callback, Frame, Stays

LEMMA ReturnFrame ==
  ASSUME CallbackTypeOK, NEW t \in Thread, Return(t)
  PROVE  Leaves(t)
BY RejitAssumption DEF CallbackTypeOK, Return, Idle, Callback, Step, Frame, Leaves

(* What a step of a callback may assume of its arguments. *)
LEMMA FrameFacts ==
  ASSUME Typed, NEW t \in Thread
  PROVE  /\ callback[t].pc \notin Resting =>
               /\ callback[t].module \in Module
               /\ loads[callback[t].module] \in Load
               /\ targets[callback[t].module][loads[callback[t].module]] \subseteq Method
         /\ callback[t].pc \in RejitSteps \cup InlineSteps =>
               callback[t].method \in Method
         /\ callback[t].pc \in {"notify", "rewrite"} => callback[t].metadata \in Load
         /\ callback[t].todo \subseteq Method
         /\ callback[t].pc \in Step
<1> DEFINE c == callback[t]
<1>1. c \in Callback /\ FrameTyped(t)
  BY DEF Typed, TypeOK, CallbackTypeOK, FramesTyped
<1>2. ASSUME c.pc \notin Resting
      PROVE  c.module \in Module /\ loads[c.module] \in Load
  <2>1. c.module \in Module
    BY <1>1, <1>2 DEF FrameTyped
  <2>2. clrModule[c.module] # "unloaded"
    BY <1>1, <1>2
       DEF FrameTyped, Resting, LoadSteps, RejitSteps, InlineSteps, Callback,
                       Step
  <2> QED
    BY <2>1, <2>2 DEF Typed, LoadsCounted
<1>3. ASSUME c.pc \notin Resting
      PROVE  targets[c.module][loads[c.module]] \subseteq Method
  BY <1>2, <1>3 DEF Typed, TypeOK, ClrTypeOK
<1> QED
  BY <1>1, <1>2, <1>3 DEF FrameTyped, Callback, RejitSteps, InlineSteps

(* Where each step of a callback leaves its thread. *)

LEMMA LoadBeginMoves ==
  ASSUME Typed, NEW t \in Thread, NEW m \in Module, LoadBegin(t, m)
  PROVE  \/ isAttached /\ Frame(t, "load", m, NoMethod, 0)
         \/ ~isAttached /\ callback' = callback
<1>1. CASE isAttached
  BY <1>1, EnterFrame DEF LoadBegin, Typed, TypeOK, Step
<1>2. CASE ~isAttached
  BY <1>2 DEF LoadBegin
<1> QED
  BY <1>1, <1>2

LEMMA LoadLockedMoves ==
  ASSUME Typed, NEW t \in Thread, LoadLocked(t)
  PROVE  LET m == callback[t].module IN
         \/ /\ Stays(t, "register")
            /\ callback'[t].todo = targets[m][loads[m]]
            /\ isAttached /\ lock' = t /\ clrModule' = clrModule
            /\ infoMap' = [infoMap EXCEPT ![m] = loads[m]]
         \/ /\ Leaves(t)
            /\ ~isAttached \/ targets[m][loads[m]] = {}
            /\ lock' = lock /\ infoMap' = infoMap
            /\ clrModule' = [clrModule EXCEPT ![m] = "loaded"]
<1> DEFINE m == callback[t].module
           T == targets[m][loads[m]]
<1>1. CASE /\ Return(t) /\ (~isAttached \/ T = {})
           /\ lock' = lock /\ infoMap' = infoMap
           /\ clrModule' = [clrModule EXCEPT ![m] = "loaded"]
  BY <1>1, ReturnFrame DEF Typed, TypeOK
<1>2. CASE /\ isAttached /\ lock' = t /\ clrModule' = clrModule
           /\ infoMap' = [infoMap EXCEPT ![m] = loads[m]]
           /\ callback' = [callback EXCEPT ![t].pc = "register", ![t].todo = T]
  <2>1. T \in SUBSET Method
    <3>1. callback[t].pc = "load"
      BY DEF LoadLocked, At
    <3> QED
      BY <3>1, FrameFacts DEF Resting
  <2>2. Stays(t, "register") /\ callback'[t].todo = T
    <3> HIDE DEF T
    <3> QED
      BY <1>2, <2>1 DEF Typed, TypeOK, CallbackTypeOK, Callback, Step, Frame, Stays
  <2> QED
    BY <1>2, <2>2
<1> QED
  BY <1>1, <1>2 DEF LoadLocked

LEMMA LoadRegisterMoves ==
  ASSUME Typed, NEW t \in Thread, LoadRegister(t)
  PROVE  /\ Stays(t, "register")
         /\ callback'[t].todo \subseteq callback[t].todo
<1>1. PICK x \in callback[t].todo : callback' = [callback EXCEPT ![t].todo = @ \ {x}]
  BY DEF LoadRegister
<1> QED
  BY <1>1
     DEF LoadRegister, At, Typed, TypeOK, CallbackTypeOK, Callback, Frame, Stays

LEMMA LoadEnqueueMoves ==
  ASSUME Typed, NEW t \in Thread, LoadEnqueue(t)
  PROVE  Leaves(t)
BY ReturnFrame DEF LoadEnqueue, Typed, TypeOK

LEMMA UnloadBeginMoves ==
  ASSUME Typed, NEW t \in Thread, NEW m \in Module, UnloadBegin(t, m)
  PROVE  \/ isAttached /\ Frame(t, "unload", m, NoMethod, 0)
         \/ ~isAttached /\ callback' = callback
<1>1. CASE isAttached
  BY <1>1, EnterFrame DEF UnloadBegin, Typed, TypeOK, Step
<1>2. CASE ~isAttached
  BY <1>2 DEF UnloadBegin
<1> QED
  BY <1>1, <1>2

LEMMA UnloadLockedMoves ==
  ASSUME Typed, NEW t \in Thread, UnloadLocked(t)
  PROVE  Leaves(t)
BY ReturnFrame DEF UnloadLocked, Typed, TypeOK

LEMMA ShutdownBeginMoves ==
  ASSUME Typed, NEW t \in Thread, ShutdownBegin(t)
  PROVE  Frame(t, "shutdown", NoModule, NoMethod, 0)
BY EnterFrame DEF ShutdownBegin, Typed, TypeOK, Step

LEMMA ShutdownJoinMoves ==
  ASSUME Typed, NEW t \in Thread, ShutdownJoin(t)
  PROVE  /\ Stays(t, "delete")
         /\ callback'[t].todo = callback[t].todo
BY GotoFrame DEF ShutdownJoin, Typed, TypeOK, Step

LEMMA ShutdownDeleteMoves ==
  ASSUME Typed, NEW t \in Thread, ShutdownDelete(t)
  PROVE  /\ Stays(t, "detach")
         /\ callback'[t].todo = callback[t].todo
BY GotoFrame DEF ShutdownDelete, Typed, TypeOK, Step

LEMMA ShutdownEndMoves ==
  ASSUME Typed, NEW t \in Thread, ShutdownEnd(t)
  PROVE  Leaves(t)
BY ReturnFrame DEF ShutdownEnd, Typed, TypeOK

LEMMA RejitBeginMoves ==
  ASSUME Typed, NEW t \in Thread, RejitBegin(t)
  PROVE  \/ \E c \in toCompile : /\ clrModule[c[1]] = "loaded"
                                /\ Frame(t, "find", c[1], c[2], 0)
         \/ callback' = callback
<1>1. CASE callback' = callback
  BY <1>1
<1>2. ASSUME NEW c \in toCompile, clrModule[c[1]] = "loaded", Enter(t, "find", c[1], c[2])
      PROVE  Frame(t, "find", c[1], c[2], 0)
  <2>1. c[1] \in Module /\ c[2] \in Method
    BY DEF Typed, TypeOK, ClrTypeOK
  <2> QED
    BY <1>2, <2>1, EnterFrame DEF Typed, TypeOK, Step
<1> QED
  BY <1>1, <1>2 DEF RejitBegin

LEMMA RejitFindMoves ==
  ASSUME Typed, NEW t \in Thread, RejitFind(t)
  PROVE  \/ Leaves(t)
         \/ LET c == callback[t] IN
            /\ infoMap[c.module] # 0
            /\ Frame(t, "notify", c.module, c.method, infoMap[c.module])
<1>1. CASE Return(t)
  BY <1>1, ReturnFrame DEF Typed, TypeOK
<1> DEFINE md == infoMap[callback[t].module]
<1>2. CASE md # 0 /\ callback' = [callback EXCEPT ![t].pc = "notify", ![t].metadata = md]
  <2>1. md \in 0 .. MaxLoads
    BY FrameFacts DEF RejitFind, At, Resting, Typed, TypeOK, ProfilerTypeOK
  <2> HIDE DEF md
  <2>2. Frame(t, "notify", callback[t].module, callback[t].method, md)
    BY <1>2, <2>1 DEF Typed, TypeOK, CallbackTypeOK, Callback, Step, Frame
  <2> QED
    BY <1>2, <2>2 DEF md
<1> QED
  BY <1>1, <1>2 DEF RejitFind

LEMMA RejitNotifyMoves ==
  ASSUME Typed, NEW t \in Thread, RejitNotify(t)
  PROVE  \/ Stays(t, "rewrite") /\ rejitHandler = "live"
         \/ Leaves(t) /\ rejitHandler # "live"
<1>1. CASE rejitHandler = "live" /\ Goto(t, "rewrite")
  BY <1>1, GotoFrame DEF Typed, TypeOK, Step
<1>2. CASE rejitHandler # "live" /\ Return(t)
  BY <1>2, ReturnFrame DEF Typed, TypeOK
<1> QED
  BY <1>1, <1>2 DEF RejitNotify, Fault

LEMMA RejitRewriteMoves ==
  ASSUME Typed, NEW t \in Thread, RejitRewrite(t)
  PROVE  Leaves(t)
BY ReturnFrame DEF RejitRewrite, Fault, Typed, TypeOK

LEMMA JitBeginMoves ==
  ASSUME Typed, NEW t \in Thread, NEW m \in Module, JitBegin(t, m)
  PROVE  Frame(t, "jit", m, NoMethod, 0)
BY EnterFrame DEF JitBegin, Typed, TypeOK, Step

LEMMA JitFindMoves ==
  ASSUME Typed, NEW t \in Thread, JitFind(t)
  PROVE  \/ /\ Stays(t, "hook")
            /\ lock' = t /\ DomainOf[callback[t].module] \notin firstJit
         \/ Leaves(t) /\ lock' = lock
<1>1. CASE /\ Goto(t, "hook")
           /\ lock' = t /\ DomainOf[callback[t].module] \notin firstJit
  BY <1>1, GotoFrame DEF Typed, TypeOK, Step
<1>2. CASE Return(t) /\ lock' = lock
  BY <1>2, ReturnFrame DEF Typed, TypeOK
<1> QED
  BY <1>1, <1>2 DEF JitFind

LEMMA JitHookMoves ==
  ASSUME Typed, NEW t \in Thread, JitHook(t)
  PROVE  Leaves(t)
BY ReturnFrame DEF JitHook, Typed, TypeOK

LEMMA InlineBeginMoves ==
  ASSUME Typed, NEW t \in Thread, NEW m \in Module, NEW x \in Method, InlineBegin(t, m, x)
  PROVE  Frame(t, "lookup", m, x, 0)
BY EnterFrame DEF InlineBegin, Typed, TypeOK, Step

LEMMA InlineLookupMoves ==
  ASSUME Typed, NEW t \in Thread, InlineLookup(t)
  PROVE  \/ /\ Stays(t, "contains")
            /\ callback[t].module \in modules /\ UNCHANGED <<inlined, faults>>
         \/ Leaves(t)
<1>1. CASE /\ Goto(t, "contains")
           /\ callback[t].module \in modules /\ UNCHANGED <<inlined, faults>>
  BY <1>1, GotoFrame DEF Typed, TypeOK, Step
<1>2. CASE Return(t)
  BY <1>2, ReturnFrame DEF Typed, TypeOK
<1> QED
  BY <1>1, <1>2 DEF InlineLookup, Fault

LEMMA InlineContainsMoves ==
  ASSUME Typed, NEW t \in Thread, InlineContains(t)
  PROVE  Leaves(t)
BY ReturnFrame DEF InlineContains, Fault, Typed, TypeOK

-----------------------------------------------------------------------------
(* Each step keeps the types of the handler, the profiler, the callbacks,  *)
(* the CLR and the history.                                                *)
LEMMA RejitTypeStep ==
  ASSUME Typed, Next
  PROVE  RejitTypeOK'
<1>1. ASSUME NEW t \in Thread, LoadRegister(t)
      PROVE  RejitTypeOK'
  <2>1. callback[t].module \in Module /\ loads[callback[t].module] \in 0 .. MaxLoads
    BY <1>1, FrameFacts DEF LoadRegister, At, Resting, Load
  <2>2. callback[t].todo \subseteq Method
    BY FrameFacts
  <2>3. CASE UNCHANGED tables
    BY <1>1, <2>3 DEF LoadRegister, tables, Typed, TypeOK, RejitTypeOK
  <2>4. ASSUME NEW x \in callback[t].todo,
               AddTarget(callback[t].module, loads[callback[t].module], x)
        PROVE  RejitTypeOK'
    BY <1>1, <2>1, <2>2, <2>4
       DEF LoadRegister, AddTarget, AddMethod, Typed, TypeOK, RejitTypeOK
  <2> QED
    BY <1>1, <2>3, <2>4 DEF LoadRegister
<1>2. ASSUME NEW t \in Thread, LoadEnqueue(t)
      PROVE  RejitTypeOK'
  <2> DEFINE m == callback[t].module
             r == [module |-> m, load |-> loads[m], methods |-> targets[m][loads[m]]]
  <2>1. r \in Item
    BY <1>2, FrameFacts DEF LoadEnqueue, At, Resting, Load, Item, Request
  <2>2. queue' \in {queue, Append(queue, r)}
    BY <1>2 DEF LoadEnqueue, Push
  <2>3. Append(queue, r) \in Seq(Item)
    BY <2>1, AppendProperties DEF Typed, TypeOK, RejitTypeOK
  <2> QED
    BY <1>2, <2>2, <2>3 DEF LoadEnqueue, tables, Typed, TypeOK, RejitTypeOK
<1>3. ASSUME NEW t \in Thread, UnloadLocked(t)
      PROVE  RejitTypeOK'
  <2>1. callback[t].module \in Module
    BY <1>3, FrameFacts DEF UnloadLocked, At, Resting
  <2>2. UNCHANGED tables \/ RemoveModule(callback[t].module)
    BY <1>3 DEF UnloadLocked
  <2>3. CASE UNCHANGED tables
    BY <1>3, <2>3 DEF UnloadLocked, tables, Typed, TypeOK, RejitTypeOK
  <2>4. ASSUME NEW m \in Module, RemoveModule(m) PROVE RejitTypeOK'
    BY <1>3, <2>4, RejitAssumption
       DEF UnloadLocked, RemoveModule, Typed, TypeOK, RejitTypeOK
  <2> QED
    BY <2>1, <2>2, <2>3, <2>4
<1>4. ASSUME NEW t \in Thread, ShutdownBegin(t)
      PROVE  RejitTypeOK'
  BY <1>4, AppendProperties
     DEF ShutdownBegin, Push, tables, clrVars, history, Typed, TypeOK,
         RejitTypeOK, Item
<1>5. ASSUME NEW t \in Thread, ShutdownJoin(t)
      PROVE  RejitTypeOK'
  BY <1>5, RejitAssumption
     DEF ShutdownJoin, ClearModules, profilerVars, clrVars, history, Typed,
         TypeOK, RejitTypeOK
<1>6. ASSUME NEW t \in Thread, ShutdownDelete(t)
      PROVE  RejitTypeOK'
  BY <1>6, RejitAssumption
     DEF ShutdownDelete, DeleteHandler, ClearModules, profilerVars, clrVars,
         history, Typed, TypeOK, RejitTypeOK
<1>7. ASSUME TakeRequest PROVE RejitTypeOK'
  <2>1. Tail(queue) \in Seq(Item) /\ Head(queue) \in Item
    BY <1>7, HeadTailProperties DEF TakeRequest, PopItem, Typed, TypeOK, RejitTypeOK
  <2>2. rejitThread' \in {"request", "exited"}
    BY <1>7 DEF TakeRequest, PopItem
  <2> QED
    BY <1>7, <2>1, <2>2 DEF TakeRequest, PopItem, tables, Typed, TypeOK, RejitTypeOK
<1>8. ASSUME RequestReJIT PROVE RejitTypeOK'
  BY <1>8
     DEF RequestReJIT, RequestDone, tables, profilerVars, Typed, TypeOK,
         RejitTypeOK
<1>9. ASSUME NEW t \in Thread, RejitNotify(t)
      PROVE  RejitTypeOK'
  <2> DEFINE c == callback[t]
  <2>1. c.module \in Module /\ c.metadata \in 0 .. MaxLoads /\ c.method \in Method
    BY <1>9, FrameFacts DEF RejitNotify, At, Resting, RejitSteps, Load
  <2>2. \/ UNCHANGED tables
        \/ AddMethod(c.module, c.metadata, c.method) /\ UNCHANGED described
    BY <1>9 DEF RejitNotify
  <2>3. CASE UNCHANGED tables
    BY <1>9, <2>3 DEF RejitNotify, tables, Typed, TypeOK, RejitTypeOK
  <2>4. ASSUME NEW m \in Module, NEW md \in 0 .. MaxLoads, NEW x \in Method,
               AddMethod(m, md, x), UNCHANGED described
        PROVE  RejitTypeOK'
    BY <1>9, <2>4 DEF RejitNotify, AddMethod, Typed, TypeOK, RejitTypeOK
  <2> QED
    BY <2>1, <2>2, <2>3, <2>4
<1>10. ASSUME NEW t \in Thread,
             \/ LoadLocked(t) \/ ShutdownEnd(t) \/ RejitBegin(t)
             \/ RejitFind(t) \/ RejitRewrite(t) \/ JitFind(t)
             \/ JitHook(t) \/ InlineLookup(t) \/ InlineContains(t)
             \/ \E m \in Module : LoadBegin(t, m) \/ UnloadBegin(t, m) \/ JitBegin(t, m)
             \/ \E d \in AppDomain : ManagedProfilerLoaded(t, d)
             \/ \E m \in Module, x \in Method : InlineBegin(t, m, x)
      PROVE  RejitTypeOK'
  BY <1>10
     DEF LoadBegin, rejitVars, profilerVars, history, LoadLocked, UnloadBegin,
         ManagedProfilerLoaded, ShutdownEnd, clrVars, RejitBegin, RejitFind,
         RejitRewrite, JitBegin, JitFind, JitHook, InlineBegin, InlineLookup,
         InlineContains, Typed, TypeOK, RejitTypeOK
<1> QED
  BY <1>1, <1>2, <1>3, <1>4, <1>5, <1>6, <1>7, <1>8, <1>9, <1>10
     DEF Next, Call, Continue, RejitThread

LEMMA ProfilerTypeStep ==
  ASSUME Typed, Next
  PROVE  ProfilerTypeOK'
<1>1. ASSUME NEW t \in Thread, LoadLocked(t)
      PROVE  ProfilerTypeOK'
  <2> DEFINE m == callback[t].module
  <2>1. m \in Module /\ loads[m] \in 0 .. MaxLoads /\ DomainOf[m] \in AppDomain
    BY <1>1, FrameFacts, ProfilerAssumption DEF LoadLocked, At, Resting, Typed, TypeOK, ClrTypeOK
  <2>2. /\ lock' \in {lock, t} /\ firstJit' \in {firstJit, firstJit \cup {DomainOf[m]}}
        /\ infoMap' \in {infoMap, [infoMap EXCEPT ![m] = loads[m]]}
        /\ UNCHANGED <<isAttached, managedLoaded>>
    BY <1>1 DEF LoadLocked
  <2> QED
    BY <2>1, <2>2 DEF Typed, TypeOK, ProfilerTypeOK
<1>2. ASSUME NEW t \in Thread, LoadEnqueue(t)
      PROVE  ProfilerTypeOK'
  BY <1>2
     DEF LoadEnqueue, Push, tables, Typed, TypeOK, ProfilerTypeOK
<1>3. ASSUME NEW t \in Thread, UnloadLocked(t)
      PROVE  ProfilerTypeOK'
  <2>1. callback[t].module \in Module
    BY <1>3, FrameFacts DEF UnloadLocked, At, Resting
  <2> QED
    BY <1>3, <2>1, RejitAssumption
       DEF UnloadLocked, Typed, TypeOK, ProfilerTypeOK
<1>4. ASSUME NEW t \in Thread, NEW d \in AppDomain, ManagedProfilerLoaded(t, d)
      PROVE  ProfilerTypeOK'
  BY <1>4
     DEF ManagedProfilerLoaded, rejitVars, history, Typed, TypeOK,
         ProfilerTypeOK
<1>5. ASSUME NEW t \in Thread, ShutdownBegin(t)
      PROVE  ProfilerTypeOK'
  BY <1>5
     DEF ShutdownBegin, Push, tables, clrVars, history, Typed, TypeOK,
         ProfilerTypeOK
<1>6. ASSUME NEW t \in Thread, ShutdownEnd(t)
      PROVE  ProfilerTypeOK'
  BY <1>6
     DEF ShutdownEnd, rejitVars, clrVars, history, Typed, TypeOK,
         ProfilerTypeOK
<1>7. ASSUME NEW t \in Thread, JitFind(t)
      PROVE  ProfilerTypeOK'
  BY <1>7
     DEF JitFind, rejitVars, clrVars, history, Typed, TypeOK, ProfilerTypeOK
<1>8. ASSUME NEW t \in Thread, JitHook(t)
      PROVE  ProfilerTypeOK'
  BY <1>8, ProfilerAssumption, FrameFacts
     DEF JitHook, rejitVars, clrVars, Typed, TypeOK, ProfilerTypeOK, At,
         Resting
<1>9. ASSUME NEW t \in Thread,
             \/ LoadRegister(t) \/ ShutdownJoin(t) \/ ShutdownDelete(t)
             \/ RejitBegin(t) \/ RejitFind(t) \/ RejitNotify(t)
             \/ RejitRewrite(t) \/ InlineLookup(t) \/ InlineContains(t)
             \/ \E m \in Module : LoadBegin(t, m) \/ UnloadBegin(t, m) \/ JitBegin(t, m)
             \/ \E m \in Module, x \in Method : InlineBegin(t, m, x)
      PROVE  ProfilerTypeOK'
  BY <1>9
     DEF LoadBegin, rejitVars, profilerVars, history, LoadRegister, tables,
         clrVars, UnloadBegin, ShutdownJoin, ShutdownDelete, DeleteHandler,
         RejitBegin, RejitFind, RejitNotify, RejitRewrite, JitBegin,
         InlineBegin, InlineLookup, InlineContains, Typed, TypeOK,
         ProfilerTypeOK
<1>10. ASSUME TakeRequest PROVE ProfilerTypeOK'
  BY <1>10
     DEF TakeRequest, PopItem, tables, profilerVars, clrVars, history, Typed,
         TypeOK, ProfilerTypeOK
<1>11. ASSUME RequestReJIT PROVE ProfilerTypeOK'
  BY <1>11
     DEF RequestReJIT, RequestDone, tables, profilerVars, Typed, TypeOK,
         ProfilerTypeOK
<1> QED
  BY <1>1, <1>2, <1>3, <1>4, <1>5, <1>6, <1>7, <1>8, <1>9, <1>10, <1>11
     DEF Next, Call, Continue, RejitThread

LEMMA CallbackTypeStep ==
  ASSUME Typed, Next
  PROVE  CallbackTypeOK'
<1>1. ASSUME NEW t \in Thread, NEW m \in Module, LoadBegin(t, m)
      PROVE  CallbackTypeOK'
  BY <1>1, LoadBeginMoves
     DEF LoadBegin, rejitVars, profilerVars, history, Typed, Frame, Stays,
         Leaves, TypeOK, CallbackTypeOK
<1>2. ASSUME NEW t \in Thread, LoadLocked(t)
      PROVE  CallbackTypeOK'
  BY <1>2, LoadLockedMoves
     DEF LoadLocked, rejitVars, history, Typed, Frame, Stays, Leaves
<1>3. ASSUME NEW t \in Thread, LoadRegister(t)
      PROVE  CallbackTypeOK'
  BY <1>3, LoadRegisterMoves
     DEF LoadRegister, AddTarget, AddMethod, tables, profilerVars, clrVars,
         Typed, Frame, Stays, Leaves
<1>4. ASSUME NEW t \in Thread, LoadEnqueue(t)
      PROVE  CallbackTypeOK'
  BY <1>4, LoadEnqueueMoves
     DEF LoadEnqueue, Push, tables, Typed, Frame, Stays, Leaves
<1>5. ASSUME NEW t \in Thread, NEW m \in Module, UnloadBegin(t, m)
      PROVE  CallbackTypeOK'
  BY <1>5, UnloadBeginMoves
     DEF UnloadBegin, rejitVars, profilerVars, history, Typed, Frame, Stays,
         Leaves, TypeOK, CallbackTypeOK
<1>6. ASSUME NEW t \in Thread, UnloadLocked(t)
      PROVE  CallbackTypeOK'
  BY <1>6, UnloadLockedMoves
     DEF UnloadLocked, RemoveModule, tables, history, Typed, Frame, Stays,
         Leaves
<1>7. ASSUME NEW t \in Thread, ShutdownBegin(t)
      PROVE  CallbackTypeOK'
  BY <1>7, ShutdownBeginMoves
     DEF ShutdownBegin, Push, tables, clrVars, history, Typed, Frame, Stays,
         Leaves
<1>8. ASSUME NEW t \in Thread, ShutdownJoin(t)
      PROVE  CallbackTypeOK'
  BY <1>8, ShutdownJoinMoves
     DEF ShutdownJoin, ClearModules, profilerVars, clrVars, history, Typed,
         Frame, Stays, Leaves
<1>9. ASSUME NEW t \in Thread, ShutdownDelete(t)
      PROVE  CallbackTypeOK'
  BY <1>9, ShutdownDeleteMoves
     DEF ShutdownDelete, DeleteHandler, ClearModules, profilerVars, clrVars,
         history, Typed, Frame, Stays, Leaves
<1>10. ASSUME NEW t \in Thread, ShutdownEnd(t)
      PROVE  CallbackTypeOK'
  BY <1>10, ShutdownEndMoves
     DEF ShutdownEnd, rejitVars, clrVars, history, Typed, Frame, Stays, Leaves
<1>11. ASSUME NEW t \in Thread, RejitBegin(t)
      PROVE  CallbackTypeOK'
  BY <1>11, RejitBeginMoves
     DEF RejitBegin, rejitVars, profilerVars, history, Typed, Frame, Stays,
         Leaves, TypeOK, CallbackTypeOK
<1>12. ASSUME NEW t \in Thread, RejitFind(t)
      PROVE  CallbackTypeOK'
  BY <1>12, RejitFindMoves
     DEF RejitFind, rejitVars, profilerVars, clrVars, history, Typed, Frame,
         Stays, Leaves
<1>13. ASSUME NEW t \in Thread, RejitNotify(t)
      PROVE  CallbackTypeOK'
  BY <1>13, RejitNotifyMoves
     DEF RejitNotify, AddMethod, Fault, tables, profilerVars, clrVars, Typed,
         Frame, Stays, Leaves
<1>14. ASSUME NEW t \in Thread, RejitRewrite(t)
      PROVE  CallbackTypeOK'
  BY <1>14, RejitRewriteMoves
     DEF RejitRewrite, Fault, rejitVars, profilerVars, clrVars, Typed, Frame,
         Stays, Leaves
<1>15. ASSUME NEW t \in Thread, NEW m \in Module, JitBegin(t, m)
      PROVE  CallbackTypeOK'
  BY <1>15, JitBeginMoves
     DEF JitBegin, rejitVars, profilerVars, clrVars, history, Typed, Frame,
         Stays, Leaves
<1>16. ASSUME NEW t \in Thread, JitFind(t)
      PROVE  CallbackTypeOK'
  BY <1>16, JitFindMoves
     DEF JitFind, rejitVars, clrVars, history, Typed, Frame, Stays, Leaves
<1>17. ASSUME NEW t \in Thread, JitHook(t)
      PROVE  CallbackTypeOK'
  BY <1>17, JitHookMoves
     DEF JitHook, rejitVars, clrVars, Typed, Frame, Stays, Leaves
<1>18. ASSUME NEW t \in Thread, NEW m \in Module, NEW x \in Method, InlineBegin(t, m, x)
      PROVE  CallbackTypeOK'
  BY <1>18, InlineBeginMoves
     DEF InlineBegin, rejitVars, profilerVars, clrVars, history, Typed, Frame,
         Stays, Leaves
<1>19. ASSUME NEW t \in Thread, InlineLookup(t)
      PROVE  CallbackTypeOK'
  BY <1>19, InlineLookupMoves
     DEF InlineLookup, Fault, AllowInlining, rejitVars, profilerVars, clrVars,
         Typed, Frame, Stays, Leaves
<1>20. ASSUME NEW t \in Thread, InlineContains(t)
      PROVE  CallbackTypeOK'
  BY <1>20, InlineContainsMoves
     DEF InlineContains, Fault, AllowInlining, rejitVars, profilerVars,
         clrVars, Typed, Frame, Stays, Leaves
<1>21. ASSUME NEW t \in Thread,
             \/ \E d \in AppDomain : ManagedProfilerLoaded(t, d)
      PROVE  CallbackTypeOK'
  BY <1>21
     DEF ManagedProfilerLoaded, rejitVars, history, Typed, TypeOK,
         CallbackTypeOK
<1>22. ASSUME TakeRequest PROVE CallbackTypeOK'
  BY <1>22
     DEF TakeRequest, PopItem, tables, profilerVars, clrVars, history, Typed,
         TypeOK, CallbackTypeOK
<1>23. ASSUME RequestReJIT PROVE CallbackTypeOK'
  BY <1>23
     DEF RequestReJIT, RequestDone, tables, profilerVars, Typed, TypeOK,
         CallbackTypeOK
<1> QED
  BY <1>1, <1>2, <1>3, <1>4, <1>5, <1>6, <1>7, <1>8, <1>9, <1>10, <1>11,
     <1>12, <1>13, <1>14, <1>15, <1>16, <1>17, <1>18, <1>19, <1>20, <1>21,
     <1>22, <1>23 DEF Next, Call, Continue, RejitThread

LEMMA ClrTypeStep ==
  ASSUME Typed, Next
  PROVE  ClrTypeOK'
<1>1. ASSUME NEW t \in Thread, NEW m \in Module, LoadBegin(t, m)
      PROVE  ClrTypeOK'
  <2>1. PICK n \in Load, T \in SUBSET Method : /\ loads' = [loads EXCEPT ![m] = n]
                                              /\ targets' = [targets EXCEPT ![m][n] = T]
    BY <1>1 DEF LoadBegin
  <2>2. clrModule' \in {[clrModule EXCEPT ![m] = s] : s \in {"loading", "loaded"}}
    BY <1>1 DEF LoadBegin
  <2>3. UNCHANGED <<toCompile, managedIn>>
    BY <1>1 DEF LoadBegin
  <2> QED
    BY <2>1, <2>2, <2>3 DEF Load, Typed, TypeOK, ClrTypeOK
<1>2. ASSUME NEW t \in Thread, LoadLocked(t)
      PROVE  ClrTypeOK'
  BY <1>2
     DEF LoadLocked, rejitVars, history, Typed, TypeOK, ClrTypeOK
<1>3. ASSUME NEW t \in Thread, LoadEnqueue(t)
      PROVE  ClrTypeOK'
  BY <1>3
     DEF LoadEnqueue, Push, tables, Typed, TypeOK, ClrTypeOK
<1>4. ASSUME NEW t \in Thread, NEW m \in Module, UnloadBegin(t, m)
      PROVE  ClrTypeOK'
  BY <1>4
     DEF UnloadBegin, rejitVars, profilerVars, history, Typed, TypeOK,
         ClrTypeOK
<1>5. ASSUME NEW t \in Thread, UnloadLocked(t)
      PROVE  ClrTypeOK'
  BY <1>5
     DEF UnloadLocked, RemoveModule, tables, history, Typed, TypeOK, ClrTypeOK
<1>6. ASSUME NEW t \in Thread, NEW d \in AppDomain, ManagedProfilerLoaded(t, d)
      PROVE  ClrTypeOK'
  BY <1>6
     DEF ManagedProfilerLoaded, rejitVars, history, Typed, TypeOK, ClrTypeOK
<1>7. ASSUME RequestReJIT PROVE ClrTypeOK'
  BY <1>7
     DEF RequestReJIT, RequestDone, tables, profilerVars, Typed, TypeOK,
         ClrTypeOK, RejitTypeOK, RequestTaken, Request
<1>8. ASSUME NEW t \in Thread, RejitBegin(t)
      PROVE  ClrTypeOK'
  BY <1>8
     DEF RejitBegin, rejitVars, profilerVars, history, Typed, TypeOK,
         ClrTypeOK
<1>9. ASSUME NEW t \in Thread,
             \/ LoadRegister(t) \/ ShutdownBegin(t) \/ ShutdownJoin(t)
             \/ ShutdownDelete(t) \/ ShutdownEnd(t) \/ RejitFind(t)
             \/ RejitNotify(t) \/ RejitRewrite(t) \/ JitFind(t)
             \/ JitHook(t) \/ InlineLookup(t) \/ InlineContains(t)
             \/ \E m \in Module : JitBegin(t, m)
             \/ \E m \in Module, x \in Method : InlineBegin(t, m, x)
      PROVE  ClrTypeOK'
  BY <1>9
     DEF LoadRegister, tables, profilerVars, clrVars, ShutdownBegin, history,
         ShutdownJoin, ShutdownDelete, DeleteHandler, ShutdownEnd, rejitVars,
         RejitFind, RejitNotify, RejitRewrite, JitBegin, JitFind, JitHook,
         InlineBegin, InlineLookup, InlineContains, Typed, TypeOK, ClrTypeOK
<1>10. ASSUME TakeRequest PROVE ClrTypeOK'
  BY <1>10
     DEF TakeRequest, PopItem, tables, profilerVars, clrVars, history, Typed,
         TypeOK, ClrTypeOK
<1> QED
  BY <1>1, <1>2, <1>3, <1>4, <1>5, <1>6, <1>7, <1>8, <1>9, <1>10
     DEF Next, Call, Continue, RejitThread

LEMMA HistoryTypeStep ==
  ASSUME Typed, Next
  PROVE  HistoryTypeOK'
<1>1. ASSUME NEW t \in Thread, LoadRegister(t)
      PROVE  HistoryTypeOK'
  BY <1>1
     DEF LoadRegister, AddTarget, AddMethod, tables, profilerVars, clrVars,
         Typed, TypeOK, HistoryTypeOK
<1>2. ASSUME NEW t \in Thread, LoadEnqueue(t)
      PROVE  HistoryTypeOK'
  <2>1. <<callback[t].module, loads[callback[t].module]>> \in Module \X Load
    BY <1>2, FrameFacts DEF LoadEnqueue, At, Resting
  <2> QED
    BY <1>2, <2>1 DEF LoadEnqueue, Typed, TypeOK, HistoryTypeOK
<1>3. ASSUME RequestReJIT PROVE HistoryTypeOK'
  BY <1>3
     DEF RequestReJIT, RequestDone, tables, profilerVars, Typed, TypeOK,
         HistoryTypeOK, RequestTaken, Request, Load
<1>4. ASSUME NEW t \in Thread, RejitNotify(t)
      PROVE  HistoryTypeOK'
  BY <1>4
     DEF RejitNotify, AddMethod, Fault, tables, profilerVars, clrVars, Typed,
         TypeOK, HistoryTypeOK, At
<1>5. ASSUME NEW t \in Thread, RejitRewrite(t)
      PROVE  HistoryTypeOK'
  <2> DEFINE c == callback[t]
             r == <<c.module, c.metadata, c.method>>
  <2>1. r \in Module \X Load \X Method
    BY <1>5, FrameFacts DEF RejitRewrite, At, Resting, RejitSteps
  <2>2. rewritten' \in {rewritten, rewritten \cup {r}}
    BY <1>5 DEF RejitRewrite
  <2>3. faults' \in {faults, faults \cup {"rewrite"}}
    BY <1>5 DEF RejitRewrite, Fault, At
  <2> QED
    BY <1>5, <2>1, <2>2, <2>3 DEF RejitRewrite, Typed, TypeOK, HistoryTypeOK
<1>6. ASSUME NEW t \in Thread, JitHook(t)
      PROVE  HistoryTypeOK'
  BY <1>6, ProfilerAssumption, FrameFacts
     DEF JitHook, rejitVars, clrVars, Typed, TypeOK, HistoryTypeOK, At,
         Resting
<1>7. ASSUME NEW t \in Thread, InlineLookup(t)
      PROVE  HistoryTypeOK'
  <2> DEFINE r == <<callback[t].module, loads[callback[t].module], callback[t].method>>
  <2>1. r \in Module \X Load \X Method
    BY <1>7, FrameFacts DEF InlineLookup, At, Resting, InlineSteps
  <2>2. inlined' \in {inlined, inlined \cup {r}}
    BY <1>7 DEF InlineLookup, AllowInlining
  <2>3. faults' \in {faults, faults \cup {"lookup"}}
    BY <1>7 DEF InlineLookup, Fault, At
  <2> QED
    BY <1>7, <2>1, <2>2, <2>3 DEF InlineLookup, Typed, TypeOK, HistoryTypeOK
<1>8. ASSUME NEW t \in Thread, InlineContains(t)
      PROVE  HistoryTypeOK'
  <2> DEFINE r == <<callback[t].module, loads[callback[t].module], callback[t].method>>
  <2>1. r \in Module \X Load \X Method
    BY <1>8, FrameFacts DEF InlineContains, At, Resting, InlineSteps
  <2>2. inlined' \in {inlined, inlined \cup {r}}
    BY <1>8 DEF InlineContains, AllowInlining
  <2>3. faults' \in {faults, faults \cup {"contains"}}
    BY <1>8 DEF InlineContains, Fault, At
  <2> QED
    BY <1>8, <2>1, <2>2, <2>3 DEF InlineContains, Typed, TypeOK, HistoryTypeOK
<1>9. ASSUME NEW t \in Thread,
             \/ UnloadLocked(t) \/ ShutdownBegin(t)
             \/ ShutdownJoin(t) \/ ShutdownDelete(t) \/ ShutdownEnd(t)
             \/ RejitBegin(t) \/ RejitFind(t) \/ JitFind(t)
             \/ \E m \in Module : LoadBegin(t, m) \/ UnloadBegin(t, m) \/ JitBegin(t, m)
             \/ \E d \in AppDomain : ManagedProfilerLoaded(t, d)
             \/ \E m \in Module, x \in Method : InlineBegin(t, m, x)
      PROVE  HistoryTypeOK'
  BY <1>9
     DEF LoadBegin, rejitVars, profilerVars, history, UnloadBegin,
         UnloadLocked, tables, ManagedProfilerLoaded, ShutdownBegin, clrVars,
         ShutdownJoin, ShutdownDelete, DeleteHandler, ShutdownEnd, RejitBegin,
         RejitFind, JitBegin, JitFind, InlineBegin, Typed, TypeOK,
         HistoryTypeOK
<1>10. ASSUME TakeRequest PROVE HistoryTypeOK'
  BY <1>10
     DEF TakeRequest, PopItem, tables, profilerVars, clrVars, history, Typed,
         TypeOK, HistoryTypeOK
<1>11. ASSUME NEW t \in Thread, LoadLocked(t)
      PROVE  HistoryTypeOK'
  <2>1. DomainOf[callback[t].module] \in AppDomain
    BY <1>11, FrameFacts, ProfilerAssumption DEF LoadLocked, At, Resting
  <2>2. /\ loaderIn' \in {loaderIn, loaderIn \cup {DomainOf[callback[t].module]}}
        /\ UNCHANGED <<hooks, enqueued, requested, rewritten, inlined, faults>>
    BY <1>11 DEF LoadLocked
  <2> QED
    BY <2>1, <2>2 DEF Typed, TypeOK, HistoryTypeOK
<1> QED
  BY <1>1, <1>2, <1>3, <1>4, <1>5, <1>6, <1>7, <1>8, <1>9, <1>10, <1>11
     DEF Next, Call, Continue, RejitThread

(* A step that changes the life of a module is taken when no other thread  *)
(* is in a callback about it.                                              *)
Loading == LoadSteps \cup {"unload"}

LEMMA LoaderAlone ==
  ASSUME Typed, NEW t \in Thread, callback[t].pc \in Loading, NEW u \in Thread \ {t},
         callback[u].module = callback[t].module
  PROVE  callback[u].pc \in Resting
BY FrameFacts
   DEF Typed, OneLoader, FramesTyped, FrameTyped, Loading, LoadSteps, RejitSteps,
       InlineSteps, Step, Resting

LEMMA UnloadedAlone ==
  ASSUME Typed, NEW m \in Module, clrModule[m] = "unloaded", NEW u \in Thread,
         callback[u].module = m
  PROVE  callback[u].pc \in Resting
BY FrameFacts
   DEF Typed, FramesTyped, FrameTyped, LoadSteps, RejitSteps, InlineSteps, Step,
       Resting

LEMMA OtherFrames ==
  ASSUME Typed, NEW t \in Thread, NEW m \in Module,
         \A k \in Module \ {m} : clrModule'[k] = clrModule[k],
         \A u \in Thread \ {t} :
            /\ callback'[u] = callback[u]
            /\ callback[u].module = m => callback[u].pc \in Resting,
         FrameTyped(t)'
  PROVE  FramesTyped'
BY DEF Typed, FramesTyped, FrameTyped, Resting, LoadSteps, RejitSteps, InlineSteps

LEMMA FramesStep ==
  ASSUME Typed, Next
  PROVE  FramesTyped'
<1>1. ASSUME NEW t \in Thread, NEW m \in Module, LoadBegin(t, m)
      PROVE  FramesTyped'
  <2>2. \A k \in Module \ {m} : clrModule'[k] = clrModule[k]
    BY <1>1 DEF LoadBegin, Typed, TypeOK, ClrTypeOK
  <2>3. ASSUME NEW u \in Thread \ {t}, callback[u].module = m
        PROVE  callback[u].pc \in Resting
    BY <1>1, <2>3, UnloadedAlone DEF LoadBegin
  <2>4. CASE ~isAttached /\ callback' = callback
    <3>1. callback[t].pc = "idle"
      BY <1>1 DEF LoadBegin, At
    <3>2. FrameTyped(t)'
      BY <2>4, <3>1 DEF FrameTyped, LoadSteps, RejitSteps, InlineSteps, Resting
    <3> QED
      BY <2>2, <2>3, <2>4, <3>2, OtherFrames
  <2>5. CASE isAttached /\ Frame(t, "load", m, NoMethod, 0)
    <3>1. clrModule'[m] = "loading"
      BY <1>1, <2>5 DEF LoadBegin, Typed, TypeOK, ClrTypeOK
    <3>2. FrameTyped(t)'
      BY <2>5, <3>1
         DEF Frame, FrameTyped, LoadSteps, RejitSteps, InlineSteps, Resting
    <3> QED
      BY <2>2, <2>3, <2>5, <3>2, OtherFrames DEF Frame
  <2> QED
    BY <1>1, <2>4, <2>5, LoadBeginMoves
<1>2. ASSUME NEW t \in Thread, LoadLocked(t)
      PROVE  FramesTyped'
  <2> DEFINE m == callback[t].module
  <2>1. m \in Module /\ clrModule[m] = "loading" /\ callback[t].pc \in Loading
    BY <1>2, FrameFacts
       DEF LoadLocked, At, Resting, Loading, LoadSteps, Typed, FramesTyped, FrameTyped
  <2>2. \A k \in Module \ {m} : clrModule'[k] = clrModule[k]
    BY <1>2 DEF LoadLocked, Typed, TypeOK, ClrTypeOK
  <2>3. ASSUME NEW u \in Thread \ {t}, callback[u].module = m
        PROVE  callback[u].pc \in Resting
    BY <2>1, <2>3, LoaderAlone
  <2>4. FrameTyped(t)'
    BY <1>2, <2>1, LoadLockedMoves
       DEF LoadLocked, Frame, Stays, Leaves, FrameTyped, Resting, LoadSteps,
           RejitSteps, InlineSteps, Typed, TypeOK, ClrTypeOK
  <2>5. \A u \in Thread \ {t} : callback'[u] = callback[u]
    BY <1>2, LoadLockedMoves DEF Frame, Stays, Leaves
  <2> QED
    BY <2>1, <2>2, <2>3, <2>4, <2>5, OtherFrames
<1>3. ASSUME NEW t \in Thread, LoadRegister(t)
      PROVE  FramesTyped'
  BY <1>3, LoadRegisterMoves
     DEF LoadRegister, AddTarget, AddMethod, tables, profilerVars, clrVars,
         Typed, TypeOK, ClrTypeOK, Frame, Stays, Leaves, FramesTyped,
         FrameTyped, Resting, LoadSteps, RejitSteps, InlineSteps, At
<1>4. ASSUME NEW t \in Thread, LoadEnqueue(t)
      PROVE  FramesTyped'
  <2> DEFINE m == callback[t].module
  <2>1. m \in Module /\ clrModule[m] = "loading" /\ callback[t].pc \in Loading
    BY <1>4, FrameFacts
       DEF LoadEnqueue, At, Resting, Loading, LoadSteps, Typed, FramesTyped, FrameTyped
  <2>2. \A k \in Module \ {m} : clrModule'[k] = clrModule[k]
    BY <1>4 DEF LoadEnqueue, Typed, TypeOK, ClrTypeOK
  <2>3. ASSUME NEW u \in Thread \ {t}, callback[u].module = m
        PROVE  callback[u].pc \in Resting
    BY <2>1, <2>3, LoaderAlone
  <2>4. FrameTyped(t)'
    BY <1>4, <2>1, LoadEnqueueMoves
       DEF LoadEnqueue, Frame, Stays, Leaves, FrameTyped, Resting, LoadSteps,
           RejitSteps, InlineSteps, Typed, TypeOK, ClrTypeOK
  <2>5. \A u \in Thread \ {t} : callback'[u] = callback[u]
    BY <1>4, LoadEnqueueMoves DEF Frame, Stays, Leaves
  <2> QED
    BY <2>1, <2>2, <2>3, <2>4, <2>5, OtherFrames
<1>5. ASSUME NEW t \in Thread, NEW m \in Module, UnloadBegin(t, m)
      PROVE  FramesTyped'
  <2>2. \A k \in Module \ {m} : clrModule'[k] = clrModule[k]
    BY <1>5 DEF UnloadBegin, Typed, TypeOK, ClrTypeOK
  <2>3. ASSUME NEW u \in Thread \ {t}, callback[u].module = m
        PROVE  callback[u].pc \in Resting
    BY <1>5, <2>3, FrameFacts
       DEF UnloadBegin, Typed, InUse, FramesTyped, FrameTyped, LoadSteps,
           RejitSteps,
           InlineSteps, Step, Resting
  <2>4. CASE ~isAttached /\ callback' = callback
    <3>1. callback[t].pc = "idle"
      BY <1>5 DEF UnloadBegin, At
    <3>2. FrameTyped(t)'
      BY <2>4, <3>1 DEF FrameTyped, LoadSteps, RejitSteps, InlineSteps, Resting
    <3> QED
      BY <2>2, <2>3, <2>4, <3>2, OtherFrames
  <2>5. CASE isAttached /\ Frame(t, "unload", m, NoMethod, 0)
    <3>1. clrModule'[m] = "unloading"
      BY <1>5, <2>5 DEF UnloadBegin, Typed, TypeOK, ClrTypeOK
    <3>2. FrameTyped(t)'
      BY <2>5, <3>1
         DEF Frame, FrameTyped, LoadSteps, RejitSteps, InlineSteps, Resting
    <3> QED
      BY <2>2, <2>3, <2>5, <3>2, OtherFrames DEF Frame
  <2> QED
    BY <1>5, <2>4, <2>5, UnloadBeginMoves
<1>6. ASSUME NEW t \in Thread, UnloadLocked(t)
      PROVE  FramesTyped'
  <2> DEFINE m == callback[t].module
  <2>1. m \in Module /\ clrModule[m] = "unloading" /\ callback[t].pc \in Loading
    BY <1>6, FrameFacts
       DEF UnloadLocked, At, Resting, Loading, LoadSteps, Typed, FramesTyped, FrameTyped
  <2>2. \A k \in Module \ {m} : clrModule'[k] = clrModule[k]
    BY <1>6 DEF UnloadLocked, Typed, TypeOK, ClrTypeOK
  <2>3. ASSUME NEW u \in Thread \ {t}, callback[u].module = m
        PROVE  callback[u].pc \in Resting
    BY <2>1, <2>3, LoaderAlone
  <2>4. FrameTyped(t)'
    BY <1>6, <2>1, UnloadLockedMoves
       DEF UnloadLocked, Frame, Stays, Leaves, FrameTyped, Resting, LoadSteps,
           RejitSteps, InlineSteps, Typed, TypeOK, ClrTypeOK
  <2>5. \A u \in Thread \ {t} : callback'[u] = callback[u]
    BY <1>6, UnloadLockedMoves DEF Frame, Stays, Leaves
  <2> QED
    BY <2>1, <2>2, <2>3, <2>4, <2>5, OtherFrames
<1>7. ASSUME NEW t \in Thread, ShutdownBegin(t)
      PROVE  FramesTyped'
  BY <1>7, ShutdownBeginMoves
     DEF ShutdownBegin, Push, tables, clrVars, history, Typed, TypeOK,
         ClrTypeOK, Frame, Stays, Leaves, FramesTyped, FrameTyped, Resting,
         LoadSteps, RejitSteps, InlineSteps, At
<1>8. ASSUME NEW t \in Thread, ShutdownJoin(t)
      PROVE  FramesTyped'
  BY <1>8, ShutdownJoinMoves
     DEF ShutdownJoin, ClearModules, profilerVars, clrVars, history, Typed,
         TypeOK, ClrTypeOK, Frame, Stays, Leaves, FramesTyped, FrameTyped,
         Resting, LoadSteps, RejitSteps, InlineSteps, At
<1>9. ASSUME NEW t \in Thread, ShutdownDelete(t)
      PROVE  FramesTyped'
  BY <1>9, ShutdownDeleteMoves
     DEF ShutdownDelete, DeleteHandler, ClearModules, profilerVars, clrVars,
         history, Typed, TypeOK, ClrTypeOK, Frame, Stays, Leaves, FramesTyped,
         FrameTyped, Resting, LoadSteps, RejitSteps, InlineSteps, At
<1>10. ASSUME NEW t \in Thread, ShutdownEnd(t)
      PROVE  FramesTyped'
  BY <1>10, ShutdownEndMoves
     DEF ShutdownEnd, rejitVars, clrVars, history, Typed, TypeOK, ClrTypeOK,
         Frame, Stays, Leaves, FramesTyped, FrameTyped, Resting, LoadSteps,
         RejitSteps, InlineSteps, At
<1>11. ASSUME NEW t \in Thread, RejitBegin(t)
      PROVE  FramesTyped'
  <2>1. FrameTyped(t)'
    BY <1>11, RejitBeginMoves, FrameFacts
       DEF RejitBegin, TypeOK, ClrTypeOK, At, Frame, Stays, Leaves, Typed,
           Resting, FramesTyped, FrameTyped, LoadSteps, RejitSteps, InlineSteps
  <2>2. clrModule' = clrModule /\ \A u \in Thread \ {t} : callback'[u] = callback[u]
    BY <1>11, RejitBeginMoves DEF RejitBegin, Frame, Stays, Leaves
  <2> QED
    BY <2>1, <2>2 DEF Typed, FramesTyped, FrameTyped
<1>12. ASSUME NEW t \in Thread, RejitFind(t)
      PROVE  FramesTyped'
  <2>1. FrameTyped(t)'
    BY <1>12, RejitFindMoves, FrameFacts
       DEF RejitFind, TypeOK, ProfilerTypeOK, Load, clrVars, At, Frame, Stays,
           Leaves, Typed, Resting, FramesTyped, FrameTyped, LoadSteps,
           RejitSteps, InlineSteps
  <2>2. clrModule' = clrModule /\ \A u \in Thread \ {t} : callback'[u] = callback[u]
    BY <1>12, RejitFindMoves DEF RejitFind, clrVars, Frame, Stays, Leaves
  <2> QED
    BY <2>1, <2>2 DEF Typed, FramesTyped, FrameTyped
<1>13. ASSUME NEW t \in Thread, RejitNotify(t)
      PROVE  FramesTyped'
  <2>1. FrameTyped(t)'
    BY <1>13, RejitNotifyMoves, FrameFacts
       DEF RejitNotify, clrVars, At, Frame, Stays, Leaves, Typed, Resting,
           FramesTyped, FrameTyped, LoadSteps, RejitSteps, InlineSteps
  <2>2. clrModule' = clrModule /\ \A u \in Thread \ {t} : callback'[u] = callback[u]
    BY <1>13, RejitNotifyMoves DEF RejitNotify, clrVars, Frame, Stays, Leaves
  <2> QED
    BY <2>1, <2>2 DEF Typed, FramesTyped, FrameTyped
<1>14. ASSUME NEW t \in Thread, RejitRewrite(t)
      PROVE  FramesTyped'
  BY <1>14, RejitRewriteMoves
     DEF RejitRewrite, Fault, rejitVars, profilerVars, clrVars, Typed, TypeOK,
         ClrTypeOK, Frame, Stays, Leaves, FramesTyped, FrameTyped, Resting,
         LoadSteps, RejitSteps, InlineSteps, At
<1>15. ASSUME NEW t \in Thread, NEW m \in Module, JitBegin(t, m)
      PROVE  FramesTyped'
  <2>1. FrameTyped(t)'
    BY <1>15, JitBeginMoves, FrameFacts
       DEF JitBegin, clrVars, At, Frame, Stays, Leaves, Typed, Resting,
           FramesTyped, FrameTyped, LoadSteps, RejitSteps, InlineSteps
  <2>2. clrModule' = clrModule /\ \A u \in Thread \ {t} : callback'[u] = callback[u]
    BY <1>15, JitBeginMoves DEF JitBegin, clrVars, Frame, Stays, Leaves
  <2> QED
    BY <2>1, <2>2 DEF Typed, FramesTyped, FrameTyped
<1>16. ASSUME NEW t \in Thread, JitFind(t)
      PROVE  FramesTyped'
  BY <1>16, JitFindMoves
     DEF JitFind, rejitVars, clrVars, history, Typed, TypeOK, ClrTypeOK,
         Frame, Stays, Leaves, FramesTyped, FrameTyped, Resting, LoadSteps,
         RejitSteps, InlineSteps, At
<1>17. ASSUME NEW t \in Thread, JitHook(t)
      PROVE  FramesTyped'
  <2>1. FrameTyped(t)'
    BY <1>17, JitHookMoves, FrameFacts
       DEF JitHook, clrVars, At, Frame, Stays, Leaves, Typed, Resting,
           FramesTyped, FrameTyped, LoadSteps, RejitSteps, InlineSteps
  <2>2. clrModule' = clrModule /\ \A u \in Thread \ {t} : callback'[u] = callback[u]
    BY <1>17, JitHookMoves DEF JitHook, clrVars, Frame, Stays, Leaves
  <2> QED
    BY <2>1, <2>2 DEF Typed, FramesTyped, FrameTyped
<1>18. ASSUME NEW t \in Thread, NEW m \in Module, NEW x \in Method, InlineBegin(t, m, x)
      PROVE  FramesTyped'
  BY <1>18, InlineBeginMoves
     DEF InlineBegin, rejitVars, profilerVars, clrVars, history, Typed,
         TypeOK, ClrTypeOK, Frame, Stays, Leaves, FramesTyped, FrameTyped,
         Resting, LoadSteps, RejitSteps, InlineSteps, At
<1>19. ASSUME NEW t \in Thread, InlineLookup(t)
      PROVE  FramesTyped'
  <2>1. FrameTyped(t)'
    BY <1>19, InlineLookupMoves, FrameFacts
       DEF InlineLookup, clrVars, At, Frame, Stays, Leaves, Typed, Resting,
           FramesTyped, FrameTyped, LoadSteps, RejitSteps, InlineSteps
  <2>2. clrModule' = clrModule /\ \A u \in Thread \ {t} : callback'[u] = callback[u]
    BY <1>19, InlineLookupMoves DEF InlineLookup, clrVars, Frame, Stays, Leaves
  <2> QED
    BY <2>1, <2>2 DEF Typed, FramesTyped, FrameTyped
<1>20. ASSUME NEW t \in Thread, InlineContains(t)
      PROVE  FramesTyped'
  BY <1>20, InlineContainsMoves
     DEF InlineContains, Fault, AllowInlining, rejitVars, profilerVars,
         clrVars, Typed, TypeOK, ClrTypeOK, Frame, Stays, Leaves, FramesTyped,
         FrameTyped, Resting, LoadSteps, RejitSteps, InlineSteps, At
<1>21. ASSUME NEW t \in Thread,
             \/ \E d \in AppDomain : ManagedProfilerLoaded(t, d)
      PROVE  FramesTyped'
  BY <1>21
     DEF ManagedProfilerLoaded, rejitVars, history, Typed, FramesTyped,
         FrameTyped, Resting, LoadSteps, RejitSteps, InlineSteps, At
<1>22. ASSUME TakeRequest PROVE FramesTyped'
  BY <1>22
     DEF TakeRequest, PopItem, tables, profilerVars, clrVars, history, Typed,
         FramesTyped, FrameTyped, Resting, LoadSteps, RejitSteps, InlineSteps,
         At
<1>23. ASSUME RequestReJIT PROVE FramesTyped'
  BY <1>23
     DEF RequestReJIT, RequestDone, tables, profilerVars, Typed, FramesTyped,
         FrameTyped, Resting, LoadSteps, RejitSteps, InlineSteps, At
<1> QED
  BY <1>1, <1>2, <1>3, <1>4, <1>5, <1>6, <1>7, <1>8, <1>9, <1>10, <1>11,
     <1>12, <1>13, <1>14, <1>15, <1>16, <1>17, <1>18, <1>19, <1>20, <1>21,
     <1>22, <1>23 DEF Next, Call, Continue, RejitThread

(* Only LoadBegin and UnloadBegin make a thread the loader of a module.    *)
LEMMA OneLoaderKept ==
  ASSUME OneLoader, NEW t \in Thread,
         \A u \in Thread \ {t} : callback'[u] = callback[u],
         callback'[t].pc \in Loading =>
            callback[t].pc \in Loading /\ callback'[t].module = callback[t].module
  PROVE  OneLoader'
BY DEF OneLoader, Loading

LEMMA OneLoaderStep ==
  ASSUME Typed, Next
  PROVE  OneLoader'
<1>1. ASSUME NEW t \in Thread, NEW m \in Module, LoadBegin(t, m)
      PROVE  OneLoader'
  <2>1. CASE callback' = callback
    BY <2>1 DEF Typed, OneLoader
  <2>2. CASE Frame(t, "load", m, NoMethod, 0)
    <3>1. ASSUME NEW u \in Thread \ {t}, callback[u].pc \in Loading
          PROVE  callback[u].module # m
      BY <1>1, <3>1
         DEF LoadBegin, Typed, FramesTyped, FrameTyped, Loading, LoadSteps
    <3> QED
      BY <2>2, <3>1 DEF Typed, OneLoader, Frame, Loading
  <2> QED
    BY <1>1, <2>1, <2>2, LoadBeginMoves
<1>2. ASSUME NEW t \in Thread, LoadLocked(t)
      PROVE  OneLoader'
  <2>1. \A u \in Thread \ {t} : callback'[u] = callback[u]
    BY <1>2, LoadLockedMoves DEF Frame, Stays, Leaves
  <2>2. callback'[t].pc \in Loading =>
           callback[t].pc \in Loading /\ callback'[t].module = callback[t].module
    BY <1>2, LoadLockedMoves
       DEF LoadLocked, Frame, Stays, Leaves, At, Loading, LoadSteps
  <2> QED
    BY <2>1, <2>2, OneLoaderKept DEF Typed
<1>3. ASSUME NEW t \in Thread, LoadRegister(t)
      PROVE  OneLoader'
  <2>1. \A u \in Thread \ {t} : callback'[u] = callback[u]
    BY <1>3, LoadRegisterMoves DEF Frame, Stays, Leaves
  <2>2. callback'[t].pc \in Loading =>
           callback[t].pc \in Loading /\ callback'[t].module = callback[t].module
    BY <1>3, LoadRegisterMoves
       DEF LoadRegister, Frame, Stays, Leaves, At, Loading, LoadSteps
  <2> QED
    BY <2>1, <2>2, OneLoaderKept DEF Typed
<1>4. ASSUME NEW t \in Thread, LoadEnqueue(t)
      PROVE  OneLoader'
  <2>1. \A u \in Thread \ {t} : callback'[u] = callback[u]
    BY <1>4, LoadEnqueueMoves DEF Frame, Stays, Leaves
  <2>2. callback'[t].pc \in Loading =>
           callback[t].pc \in Loading /\ callback'[t].module = callback[t].module
    BY <1>4, LoadEnqueueMoves
       DEF LoadEnqueue, Frame, Stays, Leaves, At, Loading, LoadSteps
  <2> QED
    BY <2>1, <2>2, OneLoaderKept DEF Typed
<1>5. ASSUME NEW t \in Thread, NEW m \in Module, UnloadBegin(t, m)
      PROVE  OneLoader'
  <2>1. CASE callback' = callback
    BY <2>1 DEF Typed, OneLoader
  <2>2. CASE Frame(t, "unload", m, NoMethod, 0)
    <3>1. ASSUME NEW u \in Thread \ {t}, callback[u].pc \in Loading
          PROVE  callback[u].module # m
      BY <1>5, <3>1
         DEF UnloadBegin, Typed, FramesTyped, FrameTyped, Loading, LoadSteps
    <3> QED
      BY <2>2, <3>1 DEF Typed, OneLoader, Frame, Loading
  <2> QED
    BY <1>5, <2>1, <2>2, UnloadBeginMoves
<1>6. ASSUME NEW t \in Thread, UnloadLocked(t)
      PROVE  OneLoader'
  <2>1. \A u \in Thread \ {t} : callback'[u] = callback[u]
    BY <1>6, UnloadLockedMoves DEF Frame, Stays, Leaves
  <2>2. callback'[t].pc \in Loading =>
           callback[t].pc \in Loading /\ callback'[t].module = callback[t].module
    BY <1>6, UnloadLockedMoves
       DEF UnloadLocked, Frame, Stays, Leaves, At, Loading, LoadSteps
  <2> QED
    BY <2>1, <2>2, OneLoaderKept DEF Typed
<1>7. ASSUME NEW t \in Thread, ShutdownBegin(t)
      PROVE  OneLoader'
  BY <1>7, ShutdownBeginMoves
     DEF ShutdownBegin, Push, tables, clrVars, history, Typed, OneLoader,
         Frame, Stays, Leaves, LoadSteps
<1>8. ASSUME NEW t \in Thread, ShutdownJoin(t)
      PROVE  OneLoader'
  BY <1>8, ShutdownJoinMoves
     DEF ShutdownJoin, ClearModules, profilerVars, clrVars, history, Typed,
         OneLoader, Frame, Stays, Leaves, LoadSteps
<1>9. ASSUME NEW t \in Thread, ShutdownDelete(t)
      PROVE  OneLoader'
  BY <1>9, ShutdownDeleteMoves
     DEF ShutdownDelete, DeleteHandler, ClearModules, profilerVars, clrVars,
         history, Typed, OneLoader, Frame, Stays, Leaves, LoadSteps
<1>10. ASSUME NEW t \in Thread, ShutdownEnd(t)
      PROVE  OneLoader'
  <2>1. \A u \in Thread \ {t} : callback'[u] = callback[u]
    BY <1>10, ShutdownEndMoves DEF Frame, Stays, Leaves
  <2>2. callback'[t].pc \in Loading =>
           callback[t].pc \in Loading /\ callback'[t].module = callback[t].module
    BY <1>10, ShutdownEndMoves
       DEF ShutdownEnd, Frame, Stays, Leaves, At, Loading, LoadSteps
  <2> QED
    BY <2>1, <2>2, OneLoaderKept DEF Typed
<1>11. ASSUME NEW t \in Thread, RejitBegin(t)
      PROVE  OneLoader'
  BY <1>11, RejitBeginMoves
     DEF RejitBegin, rejitVars, profilerVars, history, Typed, OneLoader,
         Frame, Stays, Leaves, LoadSteps
<1>12. ASSUME NEW t \in Thread, RejitFind(t)
      PROVE  OneLoader'
  BY <1>12, RejitFindMoves
     DEF RejitFind, clrVars, Typed, OneLoader, Frame, Stays, Leaves, LoadSteps
<1>13. ASSUME NEW t \in Thread, RejitNotify(t)
      PROVE  OneLoader'
  BY <1>13, RejitNotifyMoves
     DEF RejitNotify, AddMethod, Fault, tables, profilerVars, clrVars, Typed,
         OneLoader, Frame, Stays, Leaves, LoadSteps
<1>14. ASSUME NEW t \in Thread, RejitRewrite(t)
      PROVE  OneLoader'
  BY <1>14, RejitRewriteMoves
     DEF RejitRewrite, Fault, rejitVars, profilerVars, clrVars, Typed,
         OneLoader, Frame, Stays, Leaves, LoadSteps
<1>15. ASSUME NEW t \in Thread, NEW m \in Module, JitBegin(t, m)
      PROVE  OneLoader'
  BY <1>15, JitBeginMoves
     DEF JitBegin, rejitVars, profilerVars, clrVars, history, Typed,
         OneLoader, Frame, Stays, Leaves, LoadSteps
<1>16. ASSUME NEW t \in Thread, JitFind(t)
      PROVE  OneLoader'
  BY <1>16, JitFindMoves
     DEF JitFind, rejitVars, clrVars, history, Typed, OneLoader, Frame, Stays,
         Leaves, LoadSteps
<1>17. ASSUME NEW t \in Thread, JitHook(t)
      PROVE  OneLoader'
  <2>1. \A u \in Thread \ {t} : callback'[u] = callback[u]
    BY <1>17, JitHookMoves DEF Frame, Stays, Leaves
  <2>2. callback'[t].pc \in Loading =>
           callback[t].pc \in Loading /\ callback'[t].module = callback[t].module
    BY <1>17, JitHookMoves DEF JitHook, Frame, Stays, Leaves, At, Loading, LoadSteps
  <2> QED
    BY <2>1, <2>2, OneLoaderKept DEF Typed
<1>18. ASSUME NEW t \in Thread, NEW m \in Module, NEW x \in Method, InlineBegin(t, m, x)
      PROVE  OneLoader'
  BY <1>18, InlineBeginMoves
     DEF InlineBegin, rejitVars, profilerVars, clrVars, history, Typed,
         OneLoader, Frame, Stays, Leaves, LoadSteps
<1>19. ASSUME NEW t \in Thread, InlineLookup(t)
      PROVE  OneLoader'
  BY <1>19, InlineLookupMoves
     DEF InlineLookup, Fault, AllowInlining, rejitVars, profilerVars, clrVars,
         Typed, OneLoader, Frame, Stays, Leaves, LoadSteps
<1>20. ASSUME NEW t \in Thread, InlineContains(t)
      PROVE  OneLoader'
  BY <1>20, InlineContainsMoves
     DEF InlineContains, Fault, AllowInlining, rejitVars, profilerVars,
         clrVars, Typed, OneLoader, Frame, Stays, Leaves, LoadSteps
<1>21. ASSUME NEW t \in Thread,
             \/ \E d \in AppDomain : ManagedProfilerLoaded(t, d)
      PROVE  OneLoader'
  BY <1>21
     DEF ManagedProfilerLoaded, rejitVars, history, Typed, OneLoader
<1>22. ASSUME TakeRequest PROVE OneLoader'
  BY <1>22
     DEF TakeRequest, PopItem, tables, profilerVars, clrVars, history, Typed,
         OneLoader
<1>23. ASSUME RequestReJIT PROVE OneLoader'
  BY <1>23
     DEF RequestReJIT, RequestDone, tables, profilerVars, Typed, OneLoader
<1> QED
  BY <1>1, <1>2, <1>3, <1>4, <1>5, <1>6, <1>7, <1>8, <1>9, <1>10, <1>11,
     <1>12, <1>13, <1>14, <1>15, <1>16, <1>17, <1>18, <1>19, <1>20, <1>21,
     <1>22, <1>23 DEF Next, Call, Continue, RejitThread

LEMMA LoadsStep ==
  ASSUME Typed, Next
  PROVE  LoadsCounted'
<1>1. ASSUME NEW t \in Thread, NEW m \in Module, LoadBegin(t, m)
      PROVE  LoadsCounted'
  <2>1. PICK n \in Load : /\ loads' = [loads EXCEPT ![m] = n]
                         /\ \A k \in Module : loads[k] < n
    BY <1>1 DEF LoadBegin, NextLoad
  <2>2. \A k \in Module \ {m} : clrModule'[k] = clrModule[k]
    BY <1>1 DEF LoadBegin, Typed, TypeOK, ClrTypeOK
  <2>3. \A k \in Module : loads'[k] = (IF k = m THEN n ELSE loads[k])
    BY <2>1 DEF Typed, TypeOK, ClrTypeOK
  <2>4. infoMap' = infoMap /\ infoMap[m] <= loads[m] /\ loads[m] < n
    BY <1>1, <2>1 DEF LoadBegin, profilerVars, Typed, LoadsCounted
  <2>5. infoMap[m] \in Int /\ loads[m] \in Int /\ n \in Int
    BY RejitAssumption DEF Load, Typed, TypeOK, ClrTypeOK, ProfilerTypeOK
  <2> QED
    BY <2>2, <2>3, <2>4, <2>5 DEF Typed, LoadsCounted
<1>2. ASSUME NEW t \in Thread, LoadLocked(t)
      PROVE  LoadsCounted'
  <2> DEFINE m == callback[t].module
  <2>1. m \in Module /\ loads[m] \in Load
    BY <1>2, FrameFacts DEF LoadLocked, At, Resting
  <2>2. \A k \in Module : \/ infoMap'[k] = infoMap[k]
                          \/ k = m /\ infoMap'[k] = loads[m]
    <3>1. infoMap' = infoMap \/ infoMap' = [infoMap EXCEPT ![m] = loads[m]]
      BY <1>2 DEF LoadLocked
    <3> QED
      BY <2>1, <3>1 DEF Typed, TypeOK, ProfilerTypeOK, ClrTypeOK
  <2>3. \A k \in Module : clrModule'[k] # "unloaded" => k = m \/ clrModule[k] # "unloaded"
    BY <1>2, <2>1 DEF LoadLocked, Typed, TypeOK, ClrTypeOK
  <2>4. loads' = loads
    BY <1>2 DEF LoadLocked
  <2> QED
    BY <2>1, <2>2, <2>3, <2>4 DEF Load, Typed, LoadsCounted
<1>3. ASSUME NEW t \in Thread, LoadEnqueue(t)
      PROVE  LoadsCounted'
  BY <1>3, FrameFacts
     DEF LoadEnqueue, Push, tables, Typed, LoadsCounted, TypeOK, ClrTypeOK,
         At, Resting
<1>4. ASSUME NEW t \in Thread, NEW m \in Module, UnloadBegin(t, m)
      PROVE  LoadsCounted'
  BY <1>4
     DEF UnloadBegin, rejitVars, profilerVars, history, Typed, LoadsCounted,
         TypeOK, ClrTypeOK
<1>5. ASSUME NEW t \in Thread, UnloadLocked(t)
      PROVE  LoadsCounted'
  <2> DEFINE m == callback[t].module
  <2>1. m \in Module
    BY <1>5, FrameFacts DEF UnloadLocked, At, Resting
  <2>2. \A k \in Module : infoMap'[k] = infoMap[k] \/ infoMap'[k] = 0
    <3>1. infoMap' = infoMap \/ infoMap' = [infoMap EXCEPT ![m] = 0]
      BY <1>5 DEF UnloadLocked
    <3> QED
      BY <2>1, <3>1 DEF Typed, TypeOK, ProfilerTypeOK
  <2>3. \A k \in Module : clrModule'[k] # "unloaded" => clrModule[k] # "unloaded"
    BY <1>5, <2>1 DEF UnloadLocked, Typed, TypeOK, ClrTypeOK
  <2>4. loads' = loads /\ loads \in [Module -> 0 .. MaxLoads]
    BY <1>5 DEF UnloadLocked, Typed, TypeOK, ClrTypeOK
  <2> QED
    BY <2>2, <2>3, <2>4 DEF Typed, LoadsCounted
<1>6. ASSUME NEW t \in Thread,
             \/ LoadRegister(t) \/ ShutdownBegin(t) \/ ShutdownJoin(t)
             \/ ShutdownDelete(t) \/ ShutdownEnd(t) \/ RejitBegin(t)
             \/ RejitFind(t) \/ RejitNotify(t) \/ RejitRewrite(t)
             \/ JitFind(t) \/ JitHook(t) \/ InlineLookup(t)
             \/ InlineContains(t) \/ \E m \in Module : JitBegin(t, m)
             \/ \E d \in AppDomain : ManagedProfilerLoaded(t, d)
             \/ \E m \in Module, x \in Method : InlineBegin(t, m, x)
      PROVE  LoadsCounted'
  BY <1>6
     DEF LoadRegister, tables, profilerVars, clrVars, ManagedProfilerLoaded,
         rejitVars, history, ShutdownBegin, ShutdownJoin, ShutdownDelete,
         DeleteHandler, ShutdownEnd, RejitBegin, RejitFind, RejitNotify,
         RejitRewrite, JitBegin, JitFind, JitHook, InlineBegin, InlineLookup,
         InlineContains, Typed, LoadsCounted
<1>7. ASSUME TakeRequest PROVE LoadsCounted'
  BY <1>7
     DEF TakeRequest, PopItem, tables, profilerVars, clrVars, history, Typed,
         LoadsCounted
<1>8. ASSUME RequestReJIT PROVE LoadsCounted'
  BY <1>8
     DEF RequestReJIT, RequestDone, tables, profilerVars, Typed, LoadsCounted
<1> QED
  BY <1>1, <1>2, <1>3, <1>4, <1>5, <1>6, <1>7, <1>8
     DEF Next, Call, Continue, RejitThread

LEMMA RequestStep ==
  ASSUME Typed, Next
  PROVE  RequestTaken'
<1>1. ASSUME TakeRequest PROVE RequestTaken'
  BY <1>1
     DEF TakeRequest, PopItem, tables, profilerVars, clrVars, history, Typed,
         TypeOK, RejitTypeOK, Item, RequestTaken
<1>2. ASSUME RequestReJIT PROVE RequestTaken'
  BY <1>2
     DEF RequestReJIT, RequestDone, tables, profilerVars, Typed, TypeOK,
         RejitTypeOK, Item, RequestTaken
<1>3. ASSUME NEW t \in Thread,
             \/ LoadLocked(t) \/ LoadRegister(t) \/ LoadEnqueue(t)
             \/ UnloadLocked(t) \/ ShutdownBegin(t) \/ ShutdownJoin(t)
             \/ ShutdownDelete(t) \/ ShutdownEnd(t) \/ RejitBegin(t)
             \/ RejitFind(t) \/ RejitNotify(t) \/ RejitRewrite(t)
             \/ JitFind(t) \/ JitHook(t) \/ InlineLookup(t)
             \/ InlineContains(t)
             \/ \E m \in Module : LoadBegin(t, m) \/ UnloadBegin(t, m) \/ JitBegin(t, m)
             \/ \E d \in AppDomain : ManagedProfilerLoaded(t, d)
             \/ \E m \in Module, x \in Method : InlineBegin(t, m, x)
      PROVE  RequestTaken'
  BY <1>3
     DEF LoadBegin, rejitVars, profilerVars, history, LoadLocked,
         LoadRegister, tables, clrVars, LoadEnqueue, UnloadBegin,
         UnloadLocked, ManagedProfilerLoaded, ShutdownBegin, ShutdownJoin,
         ShutdownDelete, DeleteHandler, ShutdownEnd, RejitBegin, RejitFind,
         RejitNotify, RejitRewrite, JitBegin, JitFind, JitHook, InlineBegin,
         InlineLookup, InlineContains, Typed, RequestTaken
<1> QED
  BY <1>1, <1>2, <1>3 DEF Next, Call, Continue, RejitThread

-----------------------------------------------------------------------------
LEMMA InitTyped == Init => Typed
<1> SUFFICES ASSUME Init PROVE Typed
  OBVIOUS
<1> USE RejitAssumption, ProfilerAssumption DEF Init, RejitInit
<1>0. <<>> \in Seq(Item)
  OBVIOUS
<1>1. RejitTypeOK
  BY <1>0 DEF RejitTypeOK, Item
<1>2. ProfilerTypeOK
  BY DEF ProfilerTypeOK
<1>3. CallbackTypeOK
  BY DEF CallbackTypeOK, Callback, Step, Idle
<1>4. ClrTypeOK
  BY DEF ClrTypeOK
<1>5. HistoryTypeOK
  BY DEF HistoryTypeOK
<1>6. \A t \in Thread : callback[t].pc = "idle"
  BY DEF Idle
<1>7. FramesTyped /\ OneLoader
  BY <1>6
     DEF FramesTyped, FrameTyped, OneLoader, Resting, LoadSteps, RejitSteps,
         InlineSteps
<1>8. LoadsCounted /\ RequestTaken
  BY DEF LoadsCounted, RequestTaken
<1> QED
  BY <1>1, <1>2, <1>3, <1>4, <1>5, <1>7, <1>8 DEF Typed, TypeOK

LEMMA NextTyped ==
  ASSUME Typed, [Next]_vars
  PROVE  Typed'
<1>1. CASE Next
  BY <1>1, RejitTypeStep, ProfilerTypeStep, CallbackTypeStep, ClrTypeStep,
     HistoryTypeStep,
     FramesStep, OneLoaderStep, LoadsStep, RequestStep DEF Typed, TypeOK
<1>2. CASE UNCHANGED vars
  BY <1>2 DEF vars, rejitVars, profilerVars, clrVars, history, tables,
     Typed, TypeOK, RejitTypeOK, ProfilerTypeOK, CallbackTypeOK, ClrTypeOK, HistoryTypeOK,
     FramesTyped, FrameTyped, OneLoader, LoadsCounted, RequestTaken
<1> QED
  BY <1>1, <1>2

(* Every variable keeps its type, whatever the threads of the CLR call and   *)
(* the ReJIT thread does.                                                    *)
THEOREM TypeCorrect == Spec => []TypeOK
<1>1. Typed => TypeOK
  BY DEF Typed
<1> QED
  BY <1>1, InitTyped, NextTyped, PTL DEF Spec

-----------------------------------------------------------------------------
(* The safety properties of the native profiler, from the parts of its     *)
(* inductive invariant.                                                    *)

(* Who holds the lock is at the step the lock is held for; nobody shuts     *)
(* down when it is free.                                                   *)
LEMMA OwnerStep ==
  ASSUME LockHeld, NEW t \in Thread, callback[t].pc \in LockSteps
  PROVE  lock = t /\ \A s : ShuttingDown(s) <=> callback[t].pc \in s
BY DEF LockHeld, ShuttingDown

LEMMA FreeLock ==
  ASSUME lock = NoThread
  PROVE  \A s : ~ShuttingDown(s)
BY ProfilerAssumption DEF ShuttingDown

(* The steps that leave the lock alone, taken by a thread that does not     *)
(* hold it.                                                                *)
Outside(t) ==
  \/ \E m \in Module : LoadBegin(t, m) \/ UnloadBegin(t, m) \/ JitBegin(t, m)
  \/ \E m \in Module, x \in Method : InlineBegin(t, m, x)
  \/ \E d \in AppDomain : ManagedProfilerLoaded(t, d)
  \/ RejitBegin(t) \/ UnloadLocked(t)
  \/ RejitFind(t) \/ RejitNotify(t) \/ RejitRewrite(t)
  \/ InlineLookup(t) \/ InlineContains(t)

LEMMA OutsideMoves ==
  ASSUME Typed, LockHeld, NEW t \in Thread, Outside(t)
  PROVE  /\ \A s : ShuttingDown(s)' <=> ShuttingDown(s)
         /\ UNCHANGED <<rejitHandler, isAttached, rejitThread, queue, popped, lock>>
         /\ \A u \in Thread \ {t} : callback'[u] = callback[u]
         /\ callback[t].pc \notin LockSteps
<1>1. /\ callback[t].pc \notin LockSteps
      /\ UNCHANGED <<rejitHandler, isAttached, rejitThread, queue, popped, lock>>
  BY DEF Outside, LoadBegin, UnloadBegin, JitBegin, InlineBegin, ManagedProfilerLoaded,
         RejitBegin, UnloadLocked, RejitFind, RejitNotify, RejitRewrite, InlineLookup,
         InlineContains, rejitVars, profilerVars, At, LockSteps
<1>2. \A u \in Thread \ {t} : callback'[u] = callback[u]
  BY LoadBeginMoves, UnloadBeginMoves, JitBeginMoves, InlineBeginMoves, RejitBeginMoves,
     UnloadLockedMoves, RejitFindMoves, RejitNotifyMoves, RejitRewriteMoves,
     InlineLookupMoves, InlineContainsMoves
     DEF Outside, ManagedProfilerLoaded, Frame, Stays, Leaves
<1>3. lock \in Thread => lock # t
  BY <1>1 DEF LockHeld
<1> QED
  BY <1>1, <1>2, <1>3 DEF ShuttingDown

(* The lock is held exactly at the steps that say so. *)
(* Taking the lock, giving it back and going on with or without it. *)
LEMMA LockMoves ==
  ASSUME Typed, LockHeld, NEW t \in Thread,
         \A u \in Thread \ {t} : callback'[u] = callback[u],
         \/ lock = NoThread /\ lock' = t /\ callback'[t].pc \in LockSteps
         \/ lock = t /\ lock' = NoThread /\ callback'[t].pc \notin LockSteps
         \/ lock' = lock /\ (callback'[t].pc \in LockSteps <=> callback[t].pc \in LockSteps)
  PROVE  LockHeld'
BY ProfilerAssumption DEF LockHeld

LEMMA LockHeldStep ==
  ASSUME Typed, LockHeld, Next
  PROVE  LockHeld'
<1>1. ASSUME NEW t \in Thread, NEW m \in Module, LoadBegin(t, m)
      PROVE  LockHeld'
  <2>1. CASE callback' = callback
    BY <1>1, <2>1 DEF LoadBegin, profilerVars, LockHeld
  <2>2. CASE \E m1 \in Module, x \in Method \cup {NoMethod} : Frame(t, "load", m1, x, 0)
    <3>1. /\ lock' = lock /\ \A u \in Thread \ {t} : callback'[u] = callback[u]
          /\ callback'[t].pc \notin LockSteps /\ callback[t].pc \notin LockSteps
      BY <1>1, <2>2 DEF LoadBegin, profilerVars, At, Frame, LockSteps
    <3> QED
      BY <3>1, LockMoves
  <2> QED
    BY <1>1, <2>1, <2>2, LoadBeginMoves DEF Typed, TypeOK, ClrTypeOK
<1>2. ASSUME NEW t \in Thread, LoadLocked(t)
      PROVE  LockHeld'
  <2>1. \A u \in Thread \ {t} : callback'[u] = callback[u]
    BY <1>2, LoadLockedMoves DEF Frame, Stays, Leaves
  <2>2. \/ lock = NoThread /\ lock' = t /\ callback'[t].pc \in LockSteps
        \/ lock' = lock /\ callback[t].pc \notin LockSteps /\ callback'[t].pc \notin LockSteps
    BY <1>2, LoadLockedMoves DEF LoadLocked, At, Frame, Stays, Leaves, LockSteps
  <2> QED
    BY <2>1, <2>2, LockMoves
<1>3. ASSUME NEW t \in Thread, LoadRegister(t)
      PROVE  LockHeld'
  <2>1. \A u \in Thread \ {t} : callback'[u] = callback[u]
    BY <1>3, LoadRegisterMoves DEF Frame, Stays, Leaves
  <2>2. lock' = lock /\ (callback'[t].pc \in LockSteps <=> callback[t].pc \in LockSteps)
    BY <1>3, LoadRegisterMoves DEF LoadRegister, At, Frame, Stays, Leaves, LockSteps, profilerVars
  <2> QED
    BY <2>1, <2>2, LockMoves
<1>4. ASSUME NEW t \in Thread, LoadEnqueue(t)
      PROVE  LockHeld'
  <2>1. \A u \in Thread \ {t} : callback'[u] = callback[u]
    BY <1>4, LoadEnqueueMoves DEF Frame, Stays, Leaves
  <2>2. callback[t].pc \in LockSteps /\ lock' = NoThread /\ callback'[t].pc \notin LockSteps
    BY <1>4, LoadEnqueueMoves DEF LoadEnqueue, At, Frame, Leaves, LockSteps
  <2> QED
    BY <2>1, <2>2, LockMoves DEF LockHeld
<1>5. ASSUME NEW t \in Thread, NEW m \in Module, UnloadBegin(t, m)
      PROVE  LockHeld'
  <2>1. CASE callback' = callback
    BY <1>5, <2>1 DEF UnloadBegin, profilerVars, LockHeld
  <2>2. CASE \E m1 \in Module, x \in Method \cup {NoMethod} : Frame(t, "unload", m1, x, 0)
    <3>1. /\ lock' = lock /\ \A u \in Thread \ {t} : callback'[u] = callback[u]
          /\ callback'[t].pc \notin LockSteps /\ callback[t].pc \notin LockSteps
      BY <1>5, <2>2 DEF UnloadBegin, profilerVars, At, Frame, LockSteps
    <3> QED
      BY <3>1, LockMoves
  <2> QED
    BY <1>5, <2>1, <2>2, UnloadBeginMoves DEF Typed, TypeOK, ClrTypeOK
<1>6. ASSUME NEW t \in Thread, UnloadLocked(t)
      PROVE  LockHeld'
  <2>1. \A u \in Thread \ {t} : callback'[u] = callback[u]
    BY <1>6, UnloadLockedMoves DEF Frame, Stays, Leaves
  <2>2. lock' = lock /\ (callback'[t].pc \in LockSteps <=> callback[t].pc \in LockSteps)
    BY <1>6, UnloadLockedMoves DEF UnloadLocked, At, Frame, Stays, Leaves, LockSteps
  <2> QED
    BY <2>1, <2>2, LockMoves
<1>7. ASSUME NEW t \in Thread, ShutdownBegin(t)
      PROVE  LockHeld'
  <2>1. \A u \in Thread \ {t} : callback'[u] = callback[u]
    BY <1>7, ShutdownBeginMoves DEF Frame
  <2>2. lock = NoThread /\ lock' = t /\ callback'[t].pc \in LockSteps
    BY <1>7, ShutdownBeginMoves DEF ShutdownBegin, Frame, LockSteps
  <2> QED
    BY <2>1, <2>2, LockMoves
<1>8. ASSUME NEW t \in Thread, ShutdownJoin(t)
      PROVE  LockHeld'
  <2>1. \A u \in Thread \ {t} : callback'[u] = callback[u]
    BY <1>8, ShutdownJoinMoves DEF Frame, Stays, Leaves
  <2>2. lock' = lock /\ (callback'[t].pc \in LockSteps <=> callback[t].pc \in LockSteps)
    BY <1>8, ShutdownJoinMoves DEF ShutdownJoin, At, Frame, Stays, Leaves, LockSteps, profilerVars
  <2> QED
    BY <2>1, <2>2, LockMoves
<1>9. ASSUME NEW t \in Thread, ShutdownDelete(t)
      PROVE  LockHeld'
  <2>1. \A u \in Thread \ {t} : callback'[u] = callback[u]
    BY <1>9, ShutdownDeleteMoves DEF Frame, Stays, Leaves
  <2>2. lock' = lock /\ (callback'[t].pc \in LockSteps <=> callback[t].pc \in LockSteps)
    BY <1>9, ShutdownDeleteMoves DEF ShutdownDelete, At, Frame, Stays, Leaves, LockSteps, profilerVars
  <2> QED
    BY <2>1, <2>2, LockMoves
<1>10. ASSUME NEW t \in Thread, ShutdownEnd(t)
      PROVE  LockHeld'
  <2>1. \A u \in Thread \ {t} : callback'[u] = callback[u]
    BY <1>10, ShutdownEndMoves DEF Frame, Stays, Leaves
  <2>2. callback[t].pc \in LockSteps /\ lock' = NoThread /\ callback'[t].pc \notin LockSteps
    BY <1>10, ShutdownEndMoves DEF ShutdownEnd, At, Frame, Leaves, LockSteps
  <2> QED
    BY <2>1, <2>2, LockMoves DEF LockHeld
<1>11. ASSUME NEW t \in Thread, RejitBegin(t)
      PROVE  LockHeld'
  <2>1. CASE callback' = callback
    BY <1>11, <2>1 DEF RejitBegin, profilerVars, LockHeld
  <2>2. CASE \E m1 \in Module, x \in Method \cup {NoMethod} : Frame(t, "find", m1, x, 0)
    <3>1. /\ lock' = lock /\ \A u \in Thread \ {t} : callback'[u] = callback[u]
          /\ callback'[t].pc \notin LockSteps /\ callback[t].pc \notin LockSteps
      BY <1>11, <2>2 DEF RejitBegin, profilerVars, At, Frame, LockSteps
    <3> QED
      BY <3>1, LockMoves
  <2> QED
    BY <1>11, <2>1, <2>2, RejitBeginMoves DEF Typed, TypeOK, ClrTypeOK
<1>12. ASSUME NEW t \in Thread, RejitFind(t)
      PROVE  LockHeld'
  <2>1. \A u \in Thread \ {t} : callback'[u] = callback[u]
    BY <1>12, RejitFindMoves DEF Frame, Stays, Leaves
  <2>2. lock' = lock /\ (callback'[t].pc \in LockSteps <=> callback[t].pc \in LockSteps)
    BY <1>12, RejitFindMoves DEF RejitFind, At, Frame, Stays, Leaves, LockSteps, profilerVars
  <2> QED
    BY <2>1, <2>2, LockMoves
<1>13. ASSUME NEW t \in Thread, RejitNotify(t)
      PROVE  LockHeld'
  <2>1. \A u \in Thread \ {t} : callback'[u] = callback[u]
    BY <1>13, RejitNotifyMoves DEF Frame, Stays, Leaves
  <2>2. lock' = lock /\ (callback'[t].pc \in LockSteps <=> callback[t].pc \in LockSteps)
    BY <1>13, RejitNotifyMoves DEF RejitNotify, At, Frame, Stays, Leaves, LockSteps, profilerVars
  <2> QED
    BY <2>1, <2>2, LockMoves
<1>14. ASSUME NEW t \in Thread, RejitRewrite(t)
      PROVE  LockHeld'
  <2>1. \A u \in Thread \ {t} : callback'[u] = callback[u]
    BY <1>14, RejitRewriteMoves DEF Frame, Stays, Leaves
  <2>2. lock' = lock /\ (callback'[t].pc \in LockSteps <=> callback[t].pc \in LockSteps)
    BY <1>14, RejitRewriteMoves DEF RejitRewrite, At, Frame, Stays, Leaves, LockSteps, profilerVars
  <2> QED
    BY <2>1, <2>2, LockMoves
<1>15. ASSUME NEW t \in Thread, NEW m \in Module, JitBegin(t, m)
      PROVE  LockHeld'
  <2>1. \A u \in Thread \ {t} : callback'[u] = callback[u]
    BY <1>15, JitBeginMoves DEF Frame, Stays, Leaves
  <2>2. lock' = lock /\ (callback'[t].pc \in LockSteps <=> callback[t].pc \in LockSteps)
    BY <1>15, JitBeginMoves DEF JitBegin, At, Frame, Stays, Leaves, LockSteps, profilerVars
  <2> QED
    BY <2>1, <2>2, LockMoves
<1>16. ASSUME NEW t \in Thread, JitFind(t)
      PROVE  LockHeld'
  <2>1. \A u \in Thread \ {t} : callback'[u] = callback[u]
    BY <1>16, JitFindMoves DEF Frame, Stays, Leaves
  <2>2. \/ lock = NoThread /\ lock' = t /\ callback'[t].pc \in LockSteps
        \/ lock' = lock /\ callback[t].pc \notin LockSteps /\ callback'[t].pc \notin LockSteps
    BY <1>16, JitFindMoves DEF JitFind, At, Frame, Stays, Leaves, LockSteps
  <2> QED
    BY <2>1, <2>2, LockMoves
<1>17. ASSUME NEW t \in Thread, JitHook(t)
      PROVE  LockHeld'
  <2>1. \A u \in Thread \ {t} : callback'[u] = callback[u]
    BY <1>17, JitHookMoves DEF Frame, Stays, Leaves
  <2>2. callback[t].pc \in LockSteps /\ lock' = NoThread /\ callback'[t].pc \notin LockSteps
    BY <1>17, JitHookMoves DEF JitHook, At, Frame, Leaves, LockSteps
  <2> QED
    BY <2>1, <2>2, LockMoves DEF LockHeld
<1>18. ASSUME NEW t \in Thread, NEW m \in Module, NEW x \in Method, InlineBegin(t, m, x)
      PROVE  LockHeld'
  <2>1. \A u \in Thread \ {t} : callback'[u] = callback[u]
    BY <1>18, InlineBeginMoves DEF Frame, Stays, Leaves
  <2>2. lock' = lock /\ (callback'[t].pc \in LockSteps <=> callback[t].pc \in LockSteps)
    BY <1>18, InlineBeginMoves DEF InlineBegin, At, Frame, Stays, Leaves, LockSteps, profilerVars
  <2> QED
    BY <2>1, <2>2, LockMoves
<1>19. ASSUME NEW t \in Thread, InlineLookup(t)
      PROVE  LockHeld'
  <2>1. \A u \in Thread \ {t} : callback'[u] = callback[u]
    BY <1>19, InlineLookupMoves DEF Frame, Stays, Leaves
  <2>2. lock' = lock /\ (callback'[t].pc \in LockSteps <=> callback[t].pc \in LockSteps)
    BY <1>19, InlineLookupMoves DEF InlineLookup, At, Frame, Stays, Leaves, LockSteps, profilerVars
  <2> QED
    BY <2>1, <2>2, LockMoves
<1>20. ASSUME NEW t \in Thread, InlineContains(t)
      PROVE  LockHeld'
  <2>1. \A u \in Thread \ {t} : callback'[u] = callback[u]
    BY <1>20, InlineContainsMoves DEF Frame, Stays, Leaves
  <2>2. lock' = lock /\ (callback'[t].pc \in LockSteps <=> callback[t].pc \in LockSteps)
    BY <1>20, InlineContainsMoves DEF InlineContains, At, Frame, Stays, Leaves, LockSteps, profilerVars
  <2> QED
    BY <2>1, <2>2, LockMoves
<1>21. ASSUME NEW t \in Thread,
             \/ \E d \in AppDomain : ManagedProfilerLoaded(t, d)
      PROVE  LockHeld'
  BY <1>21
     DEF ManagedProfilerLoaded, rejitVars, history, LockHeld
<1>22. ASSUME TakeRequest PROVE LockHeld'
  BY <1>22
     DEF TakeRequest, PopItem, tables, profilerVars, clrVars, history,
         LockHeld
<1>23. ASSUME RequestReJIT PROVE LockHeld'
  BY <1>23
     DEF RequestReJIT, RequestDone, tables, profilerVars, LockHeld
<1> QED
  BY <1>1, <1>2, <1>3, <1>4, <1>5, <1>6, <1>7, <1>8, <1>9, <1>10, <1>11,
     <1>12, <1>13, <1>14, <1>15, <1>16, <1>17, <1>18, <1>19, <1>20, <1>21,
     <1>22, <1>23 DEF Next, Call, Continue, RejitThread

(* Only Shutdown takes the handler away, and it holds the lock meanwhile. *)
LEMMA LivesStep ==
  ASSUME Typed, LockHeld, Lives, EndsQueue, Next
  PROVE  Lives'
<1>1. ASSUME NEW t \in Thread, LoadLocked(t)
      PROVE  Lives'
  <2>1. /\ lock = NoThread /\ UNCHANGED <<rejitHandler, isAttached, rejitThread>>
        /\ \/ lock' = lock
           \/ lock' = t /\ callback'[t].pc = "register" /\ isAttached
    BY <1>1, LoadLockedMoves DEF LoadLocked, rejitVars, Frame, Stays, Leaves
  <2>2. \A s : ~ShuttingDown(s)
    BY <2>1, FreeLock
  <2> QED
    BY <2>1, <2>2, ProfilerAssumption DEF ShuttingDown, Lives
<1>2. ASSUME NEW t \in Thread, LoadRegister(t)
      PROVE  Lives'
  <2>1. /\ callback[t].pc = "register" /\ callback'[t].pc = "register" /\ lock' = lock
        /\ UNCHANGED <<rejitHandler, isAttached, rejitThread>>
    BY <1>2, LoadRegisterMoves DEF LoadRegister, At, Frame, Stays, profilerVars, rejitVars
  <2>2. lock = t /\ \A s : ShuttingDown(s) <=> "register" \in s
    BY <2>1, OwnerStep DEF LockSteps
  <2> QED
    BY <2>1, <2>2 DEF ShuttingDown, Lives
<1>3. ASSUME NEW t \in Thread, LoadEnqueue(t)
      PROVE  Lives'
  <2>1. /\ callback[t].pc = "register" /\ lock' = NoThread
        /\ UNCHANGED <<rejitHandler, isAttached, rejitThread>>
    BY <1>3 DEF LoadEnqueue, At
  <2>2. \A s : ShuttingDown(s) <=> "register" \in s
    BY <2>1, OwnerStep DEF LockSteps
  <2> QED
    BY <2>1, <2>2, ProfilerAssumption DEF ShuttingDown, Lives
<1>4. ASSUME NEW t \in Thread, ShutdownBegin(t)
      PROVE  Lives'
  <2>1. /\ lock = NoThread /\ lock' = t /\ callback'[t].pc = "shutdown"
        /\ rejitHandler = "live" /\ UNCHANGED <<rejitHandler, isAttached, rejitThread>>
    BY <1>4, ShutdownBeginMoves DEF ShutdownBegin, Frame
  <2>2. \A s : ~ShuttingDown(s)
    BY <2>1, FreeLock
  <2> QED
    BY <2>1, <2>2 DEF ShuttingDown, Lives
<1>5. ASSUME NEW t \in Thread, ShutdownJoin(t)
      PROVE  Lives'
  <2>1. /\ callback[t].pc = "shutdown" /\ callback'[t].pc = "delete" /\ lock' = lock
        /\ rejitThread = "exited" /\ UNCHANGED <<rejitHandler, isAttached, rejitThread>>
    BY <1>5, ShutdownJoinMoves DEF ShutdownJoin, At, Frame, Stays, profilerVars, rejitVars
  <2>2. lock = t /\ \A s : ShuttingDown(s) <=> "shutdown" \in s
    BY <2>1, OwnerStep DEF LockSteps
  <2> QED
    BY <2>1, <2>2 DEF ShuttingDown, Lives
<1>6. ASSUME NEW t \in Thread, ShutdownDelete(t)
      PROVE  Lives'
  <2>1. /\ callback[t].pc = "delete" /\ callback'[t].pc = "detach" /\ lock' = lock
        /\ rejitHandler' = "deleted" /\ UNCHANGED <<isAttached, rejitThread>>
    BY <1>6, ShutdownDeleteMoves DEF ShutdownDelete, At, Frame, Stays, profilerVars, rejitVars, DeleteHandler
  <2>2. lock = t /\ \A s : ShuttingDown(s) <=> "delete" \in s
    BY <2>1, OwnerStep DEF LockSteps
  <2> QED
    BY <2>1, <2>2 DEF ShuttingDown, Lives
<1>7. ASSUME NEW t \in Thread, ShutdownEnd(t)
      PROVE  Lives'
  <2>1. /\ callback[t].pc = "detach" /\ lock' = NoThread /\ isAttached' = FALSE
        /\ UNCHANGED <<rejitHandler, rejitThread>>
    BY <1>7 DEF ShutdownEnd, At, rejitVars
  <2>2. \A s : ShuttingDown(s) <=> "detach" \in s
    BY <2>1, OwnerStep DEF LockSteps
  <2> QED
    BY <2>1, <2>2, ProfilerAssumption DEF ShuttingDown, Lives
<1>8. ASSUME TakeRequest PROVE Lives'
  <2>1. /\ rejitThread = "pop" /\ UNCHANGED <<rejitHandler, isAttached, lock, callback>>
        /\ rejitThread' = "exited" => queue # <<>> /\ Head(queue) = EndRejitThread
    BY <1>8 DEF TakeRequest, PopItem, profilerVars
  <2>2. rejitHandler = "live" /\ ~ShuttingDown({"delete"})
    BY <2>1 DEF Typed, TypeOK, RejitTypeOK, Lives
  <2>3. rejitThread' = "exited" => ShuttingDown({"shutdown"})
    BY <2>1, HeadTailProperties, LenProperties, EmptySeq DEF Typed, TypeOK, RejitTypeOK, EndsQueue
  <2> QED
    BY <2>1, <2>2, <2>3 DEF ShuttingDown, Lives
<1>9. ASSUME RequestReJIT PROVE Lives'
  <2>1. /\ rejitThread = "request" /\ rejitThread' = "pop"
        /\ UNCHANGED <<rejitHandler, isAttached, lock, callback>>
    BY <1>9 DEF RequestReJIT, RequestDone, profilerVars
  <2> QED
    BY <2>1 DEF ShuttingDown, Lives
<1>10. ASSUME NEW t \in Thread, JitFind(t)
      PROVE  Lives'
  <2>1. /\ lock = NoThread /\ UNCHANGED <<rejitHandler, isAttached, rejitThread>>
        /\ \/ lock' = lock
           \/ lock' = t /\ callback'[t].pc = "hook" /\ isAttached
    BY <1>10, JitFindMoves DEF JitFind, rejitVars, Frame, Stays, Leaves
  <2>2. \A s : ~ShuttingDown(s)
    BY <2>1, FreeLock
  <2> QED
    BY <2>1, <2>2, ProfilerAssumption DEF ShuttingDown, Lives
<1>11. ASSUME NEW t \in Thread, JitHook(t)
      PROVE  Lives'
  <2>1. /\ callback[t].pc = "hook" /\ lock' = NoThread
        /\ UNCHANGED <<rejitHandler, isAttached, rejitThread>>
    BY <1>11 DEF JitHook, At, rejitVars
  <2>2. \A s : ShuttingDown(s) <=> "hook" \in s
    BY <2>1, OwnerStep DEF LockSteps
  <2> QED
    BY <2>1, <2>2, ProfilerAssumption DEF ShuttingDown, Lives
<1>12. ASSUME NEW t \in Thread, Outside(t) PROVE Lives'
  BY <1>12, OutsideMoves DEF Lives
<1> QED
  BY <1>1, <1>2, <1>3, <1>4, <1>5, <1>6, <1>7, <1>8, <1>9, <1>10, <1>11, <1>12 DEF Next, Call, Continue, RejitThread, Outside

(* The end item is pushed by Shutdown only, and nothing is pushed after it. *)
LEMMA EndsQueueStep ==
  ASSUME Typed, LockHeld, Lives, EndsQueue, Next
  PROVE  EndsQueue'
<1>1. ASSUME NEW t \in Thread, LoadLocked(t)
      PROVE  EndsQueue'
  <2>1. lock = NoThread /\ UNCHANGED <<queue, rejitThread>>
    BY <1>1 DEF LoadLocked, rejitVars
  <2> QED
    BY <2>1, FreeLock DEF EndsQueue
<1>2. ASSUME NEW t \in Thread, LoadRegister(t)
      PROVE  EndsQueue'
  <2>1. callback[t].pc = "register" /\ UNCHANGED <<queue, rejitThread>>
    BY <1>2 DEF LoadRegister, At, rejitVars
  <2>2. \A s : ShuttingDown(s) <=> "register" \in s
    BY <2>1, OwnerStep DEF LockSteps
  <2>3. \A i \in 1 .. Len(queue) : queue[i] # EndRejitThread
    BY <2>2 DEF EndsQueue, Lives
  <2> QED
    BY <2>1, <2>3 DEF EndsQueue
<1>3. ASSUME NEW t \in Thread, LoadEnqueue(t)
      PROVE  EndsQueue'
  <2> DEFINE m == callback[t].module
             r == [module |-> m, load |-> loads[m], methods |-> targets[m][loads[m]]]
  <2>1. callback[t].pc = "register" /\ rejitThread' = rejitThread
    BY <1>3 DEF LoadEnqueue, At
  <2>2. \A s : ShuttingDown(s) <=> "register" \in s
    BY <2>1, OwnerStep DEF LockSteps
  <2>3. \A i \in 1 .. Len(queue) : queue[i] # EndRejitThread
    BY <2>2 DEF EndsQueue
  <2>4. CASE queue' = queue
    BY <2>1, <2>3, <2>4 DEF EndsQueue
  <2>5. CASE rejitHandler = "live" /\ queue' = Append(queue, r)
    <3>1. rejitThread # "exited"
      BY <2>2, <2>5 DEF Lives
    <3>2. m \in Module
      BY <2>1, FrameFacts DEF Resting
    <3>3. r # EndRejitThread
      BY <3>2, RejitAssumption DEF EndRejitThread
    <3> HIDE DEF r
    <3>4. /\ Len(queue') = Len(queue) + 1 /\ queue'[Len(queue) + 1] = r
          /\ \A i \in 1 .. Len(queue) : queue'[i] = queue[i]
      BY <2>5, AppendProperties DEF Typed, TypeOK, RejitTypeOK
    <3>5. Len(queue) \in Nat
      BY DEF Typed, TypeOK, RejitTypeOK
    <3> QED
      BY <2>1, <2>3, <3>1, <3>3, <3>4, <3>5 DEF EndsQueue
  <2> QED
    BY <1>3, <2>4, <2>5 DEF LoadEnqueue, Push
<1>4. ASSUME NEW t \in Thread, ShutdownBegin(t)
      PROVE  EndsQueue'
  <2>1. /\ lock = NoThread /\ lock' = t /\ callback'[t].pc = "shutdown"
        /\ rejitHandler = "live" /\ rejitThread' = rejitThread
        /\ queue' = Append(queue, EndRejitThread)
    BY <1>4, ShutdownBeginMoves DEF ShutdownBegin, Push, Frame
  <2>2. \A s : ~ShuttingDown(s)
    BY <2>1, FreeLock
  <2>3. rejitThread # "exited"
    BY <2>1, <2>2 DEF Lives
  <2>4. \A i \in 1 .. Len(queue) : queue[i] # EndRejitThread
    BY <2>2 DEF EndsQueue
  <2>5. ShuttingDown({"shutdown"})'
    BY <2>1 DEF ShuttingDown
  <2>6. Len(queue') = Len(queue) + 1 /\ \A i \in 1 .. Len(queue) : queue'[i] = queue[i]
    BY <2>1, AppendProperties DEF Typed, TypeOK, RejitTypeOK, Item
  <2>7. Len(queue) \in Nat
    BY DEF Typed, TypeOK, RejitTypeOK
  <2> QED
    BY <2>1, <2>3, <2>4, <2>5, <2>6, <2>7 DEF EndsQueue
<1>5. ASSUME NEW t \in Thread, ShutdownJoin(t)
      PROVE  EndsQueue'
  <2>1. callback[t].pc = "shutdown" /\ UNCHANGED <<queue, rejitThread>>
    BY <1>5 DEF ShutdownJoin, At, rejitVars
  <2>2. rejitThread = "exited"
    BY <1>5 DEF ShutdownJoin
  <2> QED
    BY <2>1, <2>2 DEF EndsQueue
<1>6. ASSUME NEW t \in Thread, ShutdownDelete(t)
      PROVE  EndsQueue'
  <2>1. callback[t].pc = "delete" /\ UNCHANGED <<queue, rejitThread>>
    BY <1>6 DEF ShutdownDelete, At, rejitVars
  <2>2. rejitThread = "exited"
    BY <2>1, OwnerStep DEF LockSteps, Lives
  <2> QED
    BY <2>1, <2>2 DEF EndsQueue
<1>7. ASSUME NEW t \in Thread, ShutdownEnd(t)
      PROVE  EndsQueue'
  <2>1. callback[t].pc = "detach" /\ UNCHANGED <<queue, rejitThread>>
    BY <1>7 DEF ShutdownEnd, At, rejitVars
  <2>2. rejitThread = "exited"
    BY <2>1, OwnerStep DEF LockSteps, Lives
  <2> QED
    BY <2>1, <2>2 DEF EndsQueue
<1>8. ASSUME TakeRequest PROVE EndsQueue'
  <2>1. /\ queue # <<>> /\ queue' = Tail(queue) /\ UNCHANGED <<lock, callback>>
        /\ rejitThread' = "exited" => Head(queue) = EndRejitThread
    BY <1>8 DEF TakeRequest, PopItem, profilerVars
  <2>2. /\ queue \in Seq(Item) /\ Len(queue) \in Nat /\ Head(queue) = queue[1]
        /\ Len(queue') = Len(queue) - 1 /\ Len(queue) > 0
        /\ \A i \in 1 .. Len(queue) - 1 : queue'[i] = queue[i + 1]
    BY <2>1, HeadTailProperties, LenProperties, EmptySeq DEF Typed, TypeOK, RejitTypeOK
  <2>3. ASSUME NEW i \in 1 .. Len(queue'), queue'[i] = EndRejitThread
        PROVE  i = Len(queue') /\ ShuttingDown({"shutdown"})'
    <3>1. i + 1 \in 1 .. Len(queue) /\ queue[i + 1] = EndRejitThread
      BY <2>2, <2>3
    <3>2. i + 1 = Len(queue) /\ ShuttingDown({"shutdown"})
      BY <3>1 DEF EndsQueue
    <3>3. i = Len(queue')
      BY <2>2, <2>3, <3>2
    <3>4. ShuttingDown({"shutdown"})'
      BY <2>1, <3>2 DEF ShuttingDown
    <3> QED
      BY <3>3, <3>4
  <2>4. ASSUME rejitThread' = "exited" PROVE queue' = <<>>
    <3>1. 1 \in 1 .. Len(queue) /\ queue[1] = EndRejitThread
      BY <2>1, <2>2, <2>4
    <3>2. Len(queue) = 1
      BY <3>1 DEF EndsQueue
    <3> QED
      BY <2>1, <2>2, <3>2, HeadTailProperties, EmptySeq
  <2> QED
    BY <2>3, <2>4 DEF EndsQueue
<1>9. ASSUME RequestReJIT PROVE EndsQueue'
  <2>1. rejitThread' = "pop" /\ UNCHANGED <<queue, lock, callback>>
    BY <1>9 DEF RequestReJIT, RequestDone, profilerVars
  <2> QED
    BY <2>1 DEF ShuttingDown, EndsQueue
<1>10. ASSUME NEW t \in Thread, JitFind(t)
      PROVE  EndsQueue'
  <2>1. lock = NoThread /\ UNCHANGED <<queue, rejitThread>>
    BY <1>10 DEF JitFind, rejitVars
  <2> QED
    BY <2>1, FreeLock DEF EndsQueue
<1>11. ASSUME NEW t \in Thread, JitHook(t)
      PROVE  EndsQueue'
  <2>1. callback[t].pc = "hook" /\ UNCHANGED <<queue, rejitThread>>
    BY <1>11 DEF JitHook, At, rejitVars
  <2>2. \A s : ShuttingDown(s) <=> "hook" \in s
    BY <2>1, OwnerStep DEF LockSteps
  <2>3. \A i \in 1 .. Len(queue) : queue[i] # EndRejitThread
    BY <2>2 DEF EndsQueue, Lives
  <2> QED
    BY <2>1, <2>3 DEF EndsQueue
<1>12. ASSUME NEW t \in Thread, Outside(t) PROVE EndsQueue'
  BY <1>12, OutsideMoves DEF EndsQueue
<1> QED
  BY <1>1, <1>2, <1>3, <1>4, <1>5, <1>6, <1>7, <1>8, <1>9, <1>10, <1>11, <1>12 DEF Next, Call, Continue, RejitThread, Outside

(* The domain is marked in the step that inserts the hook. *)
LEMMA HookMarkedStep ==
  ASSUME Typed, LockHeld, HookMarked, Next
  PROVE  HookMarked'
<1>1. ASSUME NEW t \in Thread, LoadLocked(t)
      PROVE  HookMarked'
  <2>1. /\ UNCHANGED hooks /\ firstJit \subseteq firstJit'
        /\ loaderIn' \subseteq firstJit'
    BY <1>1 DEF LoadLocked, HookMarked
  <2>2. \A d \in AppDomain : hooks'[d] <= IF d \in firstJit' THEN 1 ELSE 0
    <3> SUFFICES ASSUME NEW d \in AppDomain
                 PROVE  hooks'[d] <= IF d \in firstJit' THEN 1 ELSE 0
      OBVIOUS
    <3>1. hooks[d] \in Nat /\ hooks[d] <= IF d \in firstJit THEN 1 ELSE 0
      BY DEF Typed, TypeOK, HistoryTypeOK, HookMarked
    <3>2. CASE d \in firstJit
      BY <2>1, <3>1, <3>2
    <3>3. CASE d \notin firstJit
      BY <2>1, <3>1, <3>3
    <3> QED
      BY <3>2, <3>3
  <2>3. \A u \in Thread : callback'[u].pc # "hook"
    <3>1. lock = NoThread
      BY <1>1 DEF LoadLocked
    <3>2. \A u \in Thread : callback[u].pc # "hook"
      BY <3>1, ProfilerAssumption DEF LockHeld, LockSteps
    <3> QED
      BY <1>1, <3>2, LoadLockedMoves DEF Frame, Stays, Leaves
  <2> QED
    BY <2>1, <2>2, <2>3 DEF HookMarked
<1>2. ASSUME NEW t \in Thread, LoadRegister(t)
      PROVE  HookMarked'
  <2>1. UNCHANGED <<firstJit, hooks, loaderIn>> /\ callback'[t].pc # "hook"
    BY <1>2, LoadRegisterMoves DEF LoadRegister, AddTarget, AddMethod, profilerVars, Frame, Stays, Leaves
  <2>2. \A u \in Thread \ {t} : callback'[u] = callback[u]
    BY <1>2, LoadRegisterMoves DEF Frame, Stays, Leaves
  <2> QED
    BY <2>1, <2>2 DEF HookMarked
<1>3. ASSUME NEW t \in Thread, LoadEnqueue(t)
      PROVE  HookMarked'
  <2>1. UNCHANGED <<firstJit, hooks, loaderIn>> /\ callback'[t].pc # "hook"
    BY <1>3, LoadEnqueueMoves DEF LoadEnqueue, Push, Frame, Stays, Leaves
  <2>2. \A u \in Thread \ {t} : callback'[u] = callback[u]
    BY <1>3, LoadEnqueueMoves DEF Frame, Stays, Leaves
  <2> QED
    BY <2>1, <2>2 DEF HookMarked
<1>4. ASSUME NEW t \in Thread, ShutdownBegin(t)
      PROVE  HookMarked'
  <2>1. UNCHANGED <<firstJit, hooks, loaderIn>> /\ callback'[t].pc # "hook"
    BY <1>4, ShutdownBeginMoves DEF ShutdownBegin, Push, history, Frame, Stays, Leaves
  <2>2. \A u \in Thread \ {t} : callback'[u] = callback[u]
    BY <1>4, ShutdownBeginMoves DEF Frame, Stays, Leaves
  <2> QED
    BY <2>1, <2>2 DEF HookMarked
<1>5. ASSUME NEW t \in Thread, ShutdownJoin(t)
      PROVE  HookMarked'
  <2>1. UNCHANGED <<firstJit, hooks, loaderIn>> /\ callback'[t].pc # "hook"
    BY <1>5, ShutdownJoinMoves DEF ShutdownJoin, ClearModules, history, profilerVars, Frame, Stays, Leaves
  <2>2. \A u \in Thread \ {t} : callback'[u] = callback[u]
    BY <1>5, ShutdownJoinMoves DEF Frame, Stays, Leaves
  <2> QED
    BY <2>1, <2>2 DEF HookMarked
<1>6. ASSUME NEW t \in Thread, ShutdownDelete(t)
      PROVE  HookMarked'
  <2>1. UNCHANGED <<firstJit, hooks, loaderIn>> /\ callback'[t].pc # "hook"
    BY <1>6, ShutdownDeleteMoves DEF ShutdownDelete, DeleteHandler, ClearModules, history, profilerVars, Frame, Stays, Leaves
  <2>2. \A u \in Thread \ {t} : callback'[u] = callback[u]
    BY <1>6, ShutdownDeleteMoves DEF Frame, Stays, Leaves
  <2> QED
    BY <2>1, <2>2 DEF HookMarked
<1>7. ASSUME NEW t \in Thread, ShutdownEnd(t)
      PROVE  HookMarked'
  <2>1. UNCHANGED <<firstJit, hooks, loaderIn>> /\ callback'[t].pc # "hook"
    BY <1>7, ShutdownEndMoves DEF ShutdownEnd, history, Frame, Stays, Leaves
  <2>2. \A u \in Thread \ {t} : callback'[u] = callback[u]
    BY <1>7, ShutdownEndMoves DEF Frame, Stays, Leaves
  <2> QED
    BY <2>1, <2>2 DEF HookMarked
<1>8. ASSUME NEW t \in Thread, JitFind(t)
      PROVE  HookMarked'
  <2>1. UNCHANGED <<firstJit, hooks, loaderIn>> /\ \A u \in Thread \ {t} : callback'[u] = callback[u]
    BY <1>8, JitFindMoves DEF JitFind, history, Frame, Stays, Leaves
  <2>2. callback'[t].pc = "hook" => DomainOf[callback'[t].module] \notin firstJit
    BY <1>8, JitFindMoves DEF Frame, Stays, Leaves
  <2> QED
    BY <2>1, <2>2 DEF HookMarked
<1>9. ASSUME NEW t \in Thread, JitHook(t)
      PROVE  HookMarked'
  <2> DEFINE d == DomainOf[callback[t].module]
  <2>1. callback[t].pc = "hook"
    BY <1>9 DEF JitHook, At
  <2>2. d \in AppDomain /\ d \notin firstJit
    BY <2>1, FrameFacts, ProfilerAssumption DEF Resting, HookMarked
  <2> HIDE DEF d
  <2>3. hooks' = [hooks EXCEPT ![d] = @ + 1] /\ firstJit' = firstJit \cup {d}
    BY <1>9 DEF JitHook, d
  <2>4. \A e \in AppDomain : hooks'[e] <= IF e \in firstJit' THEN 1 ELSE 0
    <3> SUFFICES ASSUME NEW e \in AppDomain
                 PROVE  hooks'[e] <= IF e \in firstJit' THEN 1 ELSE 0
      OBVIOUS
    <3>1. hooks \in [AppDomain -> Nat] /\ hooks[e] <= IF e \in firstJit THEN 1 ELSE 0
      BY DEF Typed, TypeOK, HistoryTypeOK, HookMarked
    <3>2. CASE e = d
      BY <2>2, <2>3, <3>1, <3>2
    <3>3. CASE e # d
      BY <2>3, <3>1, <3>3
    <3> QED
      BY <3>2, <3>3
  <2>5. \A u \in Thread : callback'[u].pc # "hook"
    <3>1. lock = t
      BY <2>1 DEF LockHeld, LockSteps
    <3>2. \A u \in Thread \ {t} : callback[u].pc # "hook"
      BY <3>1 DEF LockHeld, LockSteps
    <3> QED
      BY <1>9, <3>2, JitHookMoves DEF Frame, Leaves
  <2>6. loaderIn' \subseteq firstJit'
    BY <1>9, <2>3 DEF JitHook, HookMarked
  <2> QED
    BY <2>4, <2>5, <2>6 DEF HookMarked
<1>10. ASSUME NEW t \in Thread, Outside(t) PROVE HookMarked'
  <2>1. UNCHANGED <<firstJit, hooks, loaderIn>> /\ callback'[t].pc # "hook"
    BY <1>10, LoadBeginMoves, UnloadBeginMoves, JitBeginMoves, InlineBeginMoves,
       RejitBeginMoves, UnloadLockedMoves, RejitFindMoves, RejitNotifyMoves,
       RejitRewriteMoves, InlineLookupMoves, InlineContainsMoves, OutsideMoves
       DEF Outside, LoadBegin, UnloadBegin, JitBegin, InlineBegin, ManagedProfilerLoaded,
           RejitBegin, UnloadLocked, RejitFind, RejitNotify, RejitRewrite, InlineLookup,
           InlineContains, profilerVars, history, Frame, Stays, Leaves, LockSteps
  <2>2. \A u \in Thread \ {t} : callback'[u] = callback[u]
    BY <1>10, OutsideMoves
  <2> QED
    BY <2>1, <2>2 DEF HookMarked
<1>11. ASSUME TakeRequest PROVE HookMarked'
  BY <1>11
     DEF TakeRequest, PopItem, tables, profilerVars, clrVars, history,
         HookMarked
<1>12. ASSUME RequestReJIT PROVE HookMarked'
  BY <1>12
     DEF RequestReJIT, RequestDone, tables, profilerVars, HookMarked
<1> QED
  BY <1>1, <1>2, <1>3, <1>4, <1>5, <1>6, <1>7, <1>8, <1>9, <1>10, <1>11, <1>12 DEF Next, Call, Continue, RejitThread, Outside

(* A module's metadata changes only when it is loaded or unloaded, and then  *)
(* no other thread is in a callback about it.                              *)
LEMMA InfoKeptStep ==
  ASSUME Typed, InfoKept, Next
  PROVE  InfoKept'
<1>1. ASSUME NEW t \in Thread, NEW m \in Module, LoadBegin(t, m)
      PROVE  InfoKept'
  <2>1. UNCHANGED <<infoMap, isAttached>> /\ clrModule[m] = "unloaded"
    BY <1>1 DEF LoadBegin, profilerVars
  <2>2. \A k \in Module \ {m} : loads'[k] = loads[k]
    BY <1>1 DEF LoadBegin, Typed, TypeOK, ClrTypeOK
  <2>3. \A k \in Module : clrModule'[k] = "unloaded" => clrModule[k] = "unloaded"
    BY <1>1 DEF LoadBegin, Typed, TypeOK, ClrTypeOK
  <2>4. ASSUME NEW u \in Thread, callback'[u] = callback[u] PROVE InfoFrame(u)'
    <3>1. callback[u].pc = "register" => callback[u].module # m /\ callback[u].module \in Module
      BY <2>1, UnloadedAlone, FrameFacts DEF Resting
    <3> QED
      BY <2>1, <2>2, <2>4, <3>1 DEF InfoFrame, InfoKept
  <2>5. InfoFrame(t)' /\ \A u \in Thread \ {t} : callback'[u] = callback[u]
    <3>1. CASE ~isAttached /\ callback' = callback
      BY <2>4, <3>1
    <3>2. CASE isAttached /\ Frame(t, "load", m, NoMethod, 0)
      BY <2>1, <3>2 DEF Frame, InfoFrame, InfoKept
    <3> QED
      BY <1>1, <3>1, <3>2, LoadBeginMoves
  <2> QED
    BY <2>1, <2>3, <2>4, <2>5 DEF InfoKept
<1>2. ASSUME NEW t \in Thread, LoadLocked(t)
      PROVE  InfoKept'
  <2> DEFINE m == callback[t].module
  <2>1. m \in Module /\ callback[t].pc \in Loading /\ callback[t].pc = "load"
    BY <1>2, FrameFacts DEF LoadLocked, At, Resting, Loading, LoadSteps
  <2>2. /\ UNCHANGED <<loads, isAttached>>
        /\ \A k \in Module \ {m} : infoMap'[k] = infoMap[k]
    BY <1>2 DEF LoadLocked, Typed, TypeOK, ProfilerTypeOK
  <2>3. ASSUME NEW u \in Thread \ {t} PROVE InfoFrame(u)'
    <3>1. callback'[u] = callback[u]
      BY <1>2, LoadLockedMoves DEF Frame, Stays, Leaves
    <3>2. callback[u].module = m => callback[u].pc \in Resting
      BY <2>1, LoaderAlone
    <3>3. callback[u].pc \notin Resting => callback[u].module \in Module
      BY FrameFacts
    <3> QED
      BY <2>2, <3>1, <3>2, <3>3 DEF InfoFrame, InfoKept, Resting
  <2>4. CASE /\ Stays(t, "register") /\ clrModule' = clrModule
             /\ infoMap' = [infoMap EXCEPT ![m] = loads[m]]
    <3>1. infoMap'[m] = loads[m] /\ clrModule[m] = "loading"
      BY <2>1, <2>4 DEF Typed, TypeOK, ProfilerTypeOK, FramesTyped, FrameTyped, LoadSteps
    <3>2. InfoFrame(t)'
      BY <2>2, <2>4, <3>1 DEF Stays, Frame, InfoFrame
    <3> QED
      BY <2>2, <2>3, <2>4, <3>1, <3>2 DEF InfoKept
  <2>5. CASE /\ Leaves(t) /\ infoMap' = infoMap
             /\ clrModule' = [clrModule EXCEPT ![m] = "loaded"]
    <3>1. \A k \in Module : clrModule'[k] = "unloaded" => clrModule[k] = "unloaded"
      BY <2>1, <2>5 DEF Typed, TypeOK, ClrTypeOK
    <3>2. InfoFrame(t)'
      BY <2>5 DEF Leaves, Frame, InfoFrame
    <3> QED
      BY <2>2, <2>3, <2>5, <3>1, <3>2 DEF InfoKept
  <2> QED
    BY <1>2, <2>4, <2>5, LoadLockedMoves
<1>3. ASSUME NEW t \in Thread, LoadRegister(t)
      PROVE  InfoKept'
  <2>1. UNCHANGED <<infoMap, loads, isAttached, clrModule>>
    BY <1>3 DEF LoadRegister, profilerVars, clrVars
  <2>2. \A u \in Thread \ {t} : callback'[u] = callback[u]
    BY <1>3, LoadRegisterMoves DEF Frame, Stays, Leaves
  <2>3. InfoFrame(t)'
    BY <1>3, <2>1, LoadRegisterMoves DEF LoadRegister, At, Frame, Stays, Leaves, InfoFrame, InfoKept
  <2> QED
    BY <2>1, <2>2, <2>3 DEF InfoFrame, InfoKept
<1>4. ASSUME NEW t \in Thread, LoadEnqueue(t)
      PROVE  InfoKept'
  <2> DEFINE m == callback[t].module
  <2>1. UNCHANGED <<infoMap, loads, isAttached>> /\ m \in Module
    BY <1>4, FrameFacts DEF LoadEnqueue, At, Resting
  <2>2. \A k \in Module : clrModule'[k] = "unloaded" => clrModule[k] = "unloaded"
    BY <1>4, <2>1 DEF LoadEnqueue, Typed, TypeOK, ClrTypeOK
  <2>3. /\ \A u \in Thread \ {t} : callback'[u] = callback[u]
        /\ callback'[t].pc = "idle"
    BY <1>4, LoadEnqueueMoves DEF Frame, Leaves
  <2> QED
    BY <2>1, <2>2, <2>3 DEF InfoFrame, InfoKept
<1>5. ASSUME NEW t \in Thread, NEW m \in Module, UnloadBegin(t, m)
      PROVE  InfoKept'
  <2>1. UNCHANGED <<infoMap, loads, isAttached>>
    BY <1>5 DEF UnloadBegin, profilerVars
  <2>2. isAttached =>
           \A k \in Module : clrModule'[k] = "unloaded" => clrModule[k] = "unloaded"
    BY <1>5 DEF UnloadBegin, Typed, TypeOK, ClrTypeOK
  <2>3. callback' = callback \/ Frame(t, "unload", m, NoMethod, 0)
    BY <1>5, UnloadBeginMoves
  <2> QED
    BY <2>1, <2>2, <2>3 DEF Frame, InfoFrame, InfoKept
<1>6. ASSUME NEW t \in Thread, UnloadLocked(t)
      PROVE  InfoKept'
  <2> DEFINE m == callback[t].module
  <2>1. m \in Module /\ callback[t].pc \in Loading
    BY <1>6, FrameFacts DEF UnloadLocked, At, Resting, Loading
  <2>2. /\ UNCHANGED <<loads, isAttached>>
        /\ \A k \in Module \ {m} : infoMap'[k] = infoMap[k] /\ clrModule'[k] = clrModule[k]
    BY <1>6 DEF UnloadLocked, Typed, TypeOK, ProfilerTypeOK, ClrTypeOK
  <2>3. ASSUME NEW u \in Thread \ {t} PROVE InfoFrame(u)'
    <3>1. callback'[u] = callback[u]
      BY <1>6, UnloadLockedMoves DEF Frame, Stays, Leaves
    <3>2. callback[u].module = m => callback[u].pc \in Resting
      BY <2>1, LoaderAlone
    <3>3. callback[u].pc \notin Resting => callback[u].module \in Module
      BY FrameFacts
    <3> QED
      BY <2>2, <3>1, <3>2, <3>3 DEF InfoFrame, InfoKept, Resting
  <2>4. InfoFrame(t)'
    BY <1>6, UnloadLockedMoves DEF Leaves, Frame, InfoFrame
  <2>5. isAttached => infoMap'[m] = 0
    BY <1>6, <2>1 DEF UnloadLocked, Typed, TypeOK, ProfilerTypeOK
  <2> QED
    BY <2>2, <2>3, <2>4, <2>5 DEF InfoKept
<1>7. ASSUME NEW t \in Thread, ShutdownBegin(t)
      PROVE  InfoKept'
  <2>1. UNCHANGED <<infoMap, loads, isAttached, clrModule>>
    BY <1>7 DEF ShutdownBegin, clrVars
  <2>2. \A u \in Thread \ {t} : callback'[u] = callback[u]
    BY <1>7, ShutdownBeginMoves DEF Frame, Stays, Leaves
  <2>3. InfoFrame(t)'
    BY <1>7, <2>1, ShutdownBeginMoves DEF ShutdownBegin, At, Frame, Stays, Leaves, InfoFrame, InfoKept
  <2> QED
    BY <2>1, <2>2, <2>3 DEF InfoFrame, InfoKept
<1>8. ASSUME NEW t \in Thread, ShutdownJoin(t)
      PROVE  InfoKept'
  <2>1. UNCHANGED <<infoMap, loads, isAttached, clrModule>>
    BY <1>8 DEF ShutdownJoin, ClearModules, profilerVars, clrVars
  <2>2. \A u \in Thread \ {t} : callback'[u] = callback[u]
    BY <1>8, ShutdownJoinMoves DEF Frame, Stays, Leaves
  <2>3. InfoFrame(t)'
    BY <1>8, <2>1, ShutdownJoinMoves DEF ShutdownJoin, At, Frame, Stays, Leaves, InfoFrame, InfoKept
  <2> QED
    BY <2>1, <2>2, <2>3 DEF InfoFrame, InfoKept
<1>9. ASSUME NEW t \in Thread, ShutdownDelete(t)
      PROVE  InfoKept'
  <2>1. UNCHANGED <<infoMap, loads, isAttached, clrModule>>
    BY <1>9 DEF ShutdownDelete, DeleteHandler, ClearModules, profilerVars, clrVars
  <2>2. \A u \in Thread \ {t} : callback'[u] = callback[u]
    BY <1>9, ShutdownDeleteMoves DEF Frame, Stays, Leaves
  <2>3. InfoFrame(t)'
    BY <1>9, <2>1, ShutdownDeleteMoves DEF ShutdownDelete, At, Frame, Stays, Leaves, InfoFrame, InfoKept
  <2> QED
    BY <2>1, <2>2, <2>3 DEF InfoFrame, InfoKept
<1>10. ASSUME NEW t \in Thread, ShutdownEnd(t)
      PROVE  InfoKept'
  <2>1. UNCHANGED <<infoMap, loads, clrModule>> /\ isAttached' = FALSE
    BY <1>10 DEF ShutdownEnd, clrVars
  <2>2. /\ \A u \in Thread \ {t} : callback'[u] = callback[u]
        /\ callback'[t].pc = "idle"
    BY <1>10, ShutdownEndMoves DEF Frame, Leaves
  <2> QED
    BY <2>1, <2>2 DEF InfoFrame, InfoKept
<1>11. ASSUME NEW t \in Thread, RejitBegin(t)
      PROVE  InfoKept'
  <2>1. UNCHANGED <<infoMap, loads, isAttached, clrModule>>
    BY <1>11 DEF RejitBegin, profilerVars
  <2>2. CASE callback' = callback
    BY <2>1, <2>2 DEF InfoFrame, InfoKept
  <2>3. CASE \E c \in toCompile : Frame(t, "find", c[1], c[2], 0)
    BY <2>1, <2>3 DEF Frame, InfoFrame, InfoKept
  <2> QED
    BY <1>11, <2>2, <2>3, RejitBeginMoves
<1>12. ASSUME NEW t \in Thread, RejitFind(t)
      PROVE  InfoKept'
  <2>1. UNCHANGED <<infoMap, loads, isAttached, clrModule>>
    BY <1>12 DEF RejitFind, profilerVars, clrVars
  <2>2. \A u \in Thread \ {t} : callback'[u] = callback[u]
    BY <1>12, RejitFindMoves DEF Frame, Stays, Leaves
  <2>3. InfoFrame(t)'
    BY <1>12, <2>1, RejitFindMoves DEF RejitFind, At, Frame, Stays, Leaves, InfoFrame, InfoKept
  <2> QED
    BY <2>1, <2>2, <2>3 DEF InfoFrame, InfoKept
<1>13. ASSUME NEW t \in Thread, RejitNotify(t)
      PROVE  InfoKept'
  <2>1. UNCHANGED <<infoMap, loads, isAttached, clrModule>>
    BY <1>13 DEF RejitNotify, Fault, profilerVars, clrVars
  <2>2. \A u \in Thread \ {t} : callback'[u] = callback[u]
    BY <1>13, RejitNotifyMoves DEF Frame, Stays, Leaves
  <2>3. InfoFrame(t)'
    BY <1>13, <2>1, RejitNotifyMoves DEF RejitNotify, At, Frame, Stays, Leaves, InfoFrame, InfoKept
  <2> QED
    BY <2>1, <2>2, <2>3 DEF InfoFrame, InfoKept
<1>14. ASSUME NEW t \in Thread, RejitRewrite(t)
      PROVE  InfoKept'
  <2>1. UNCHANGED <<infoMap, loads, isAttached, clrModule>>
    BY <1>14 DEF RejitRewrite, Fault, profilerVars, clrVars
  <2>2. \A u \in Thread \ {t} : callback'[u] = callback[u]
    BY <1>14, RejitRewriteMoves DEF Frame, Stays, Leaves
  <2>3. InfoFrame(t)'
    BY <1>14, <2>1, RejitRewriteMoves DEF RejitRewrite, At, Frame, Stays, Leaves, InfoFrame, InfoKept
  <2> QED
    BY <2>1, <2>2, <2>3 DEF InfoFrame, InfoKept
<1>15. ASSUME NEW t \in Thread, NEW m \in Module, JitBegin(t, m)
      PROVE  InfoKept'
  <2>1. UNCHANGED <<infoMap, loads, isAttached, clrModule>>
    BY <1>15 DEF JitBegin, profilerVars, clrVars
  <2>2. \A u \in Thread \ {t} : callback'[u] = callback[u]
    BY <1>15, JitBeginMoves DEF Frame, Stays, Leaves
  <2>3. InfoFrame(t)'
    BY <1>15, <2>1, JitBeginMoves DEF JitBegin, At, Frame, Stays, Leaves, InfoFrame, InfoKept
  <2> QED
    BY <2>1, <2>2, <2>3 DEF InfoFrame, InfoKept
<1>16. ASSUME NEW t \in Thread, JitFind(t)
      PROVE  InfoKept'
  <2>1. UNCHANGED <<infoMap, loads, isAttached, clrModule>>
    BY <1>16 DEF JitFind, clrVars
  <2>2. \A u \in Thread \ {t} : callback'[u] = callback[u]
    BY <1>16, JitFindMoves DEF Frame, Stays, Leaves
  <2>3. InfoFrame(t)'
    BY <1>16, <2>1, JitFindMoves DEF JitFind, At, Frame, Stays, Leaves, InfoFrame, InfoKept
  <2> QED
    BY <2>1, <2>2, <2>3 DEF InfoFrame, InfoKept
<1>17. ASSUME NEW t \in Thread, JitHook(t)
      PROVE  InfoKept'
  <2>1. UNCHANGED <<infoMap, loads, isAttached, clrModule>>
    BY <1>17 DEF JitHook, clrVars
  <2>2. \A u \in Thread \ {t} : callback'[u] = callback[u]
    BY <1>17, JitHookMoves DEF Frame, Stays, Leaves
  <2>3. InfoFrame(t)'
    BY <1>17, <2>1, JitHookMoves DEF JitHook, At, Frame, Stays, Leaves, InfoFrame, InfoKept
  <2> QED
    BY <2>1, <2>2, <2>3 DEF InfoFrame, InfoKept
<1>18. ASSUME NEW t \in Thread, NEW m \in Module, NEW x \in Method, InlineBegin(t, m, x)
      PROVE  InfoKept'
  <2>1. UNCHANGED <<infoMap, loads, isAttached, clrModule>>
    BY <1>18 DEF InlineBegin, profilerVars, clrVars
  <2>2. \A u \in Thread \ {t} : callback'[u] = callback[u]
    BY <1>18, InlineBeginMoves DEF Frame, Stays, Leaves
  <2>3. InfoFrame(t)'
    BY <1>18, <2>1, InlineBeginMoves DEF InlineBegin, At, Frame, Stays, Leaves, InfoFrame, InfoKept
  <2> QED
    BY <2>1, <2>2, <2>3 DEF InfoFrame, InfoKept
<1>19. ASSUME NEW t \in Thread, InlineLookup(t)
      PROVE  InfoKept'
  <2>1. UNCHANGED <<infoMap, loads, isAttached, clrModule>>
    BY <1>19 DEF InlineLookup, Fault, profilerVars, clrVars
  <2>2. \A u \in Thread \ {t} : callback'[u] = callback[u]
    BY <1>19, InlineLookupMoves DEF Frame, Stays, Leaves
  <2>3. InfoFrame(t)'
    BY <1>19, <2>1, InlineLookupMoves DEF InlineLookup, At, Frame, Stays, Leaves, InfoFrame, InfoKept
  <2> QED
    BY <2>1, <2>2, <2>3 DEF InfoFrame, InfoKept
<1>20. ASSUME NEW t \in Thread, InlineContains(t)
      PROVE  InfoKept'
  <2>1. UNCHANGED <<infoMap, loads, isAttached, clrModule>>
    BY <1>20 DEF InlineContains, Fault, profilerVars, clrVars
  <2>2. \A u \in Thread \ {t} : callback'[u] = callback[u]
    BY <1>20, InlineContainsMoves DEF Frame, Stays, Leaves
  <2>3. InfoFrame(t)'
    BY <1>20, <2>1, InlineContainsMoves DEF InlineContains, At, Frame, Stays, Leaves, InfoFrame, InfoKept
  <2> QED
    BY <2>1, <2>2, <2>3 DEF InfoFrame, InfoKept
<1>21. ASSUME NEW t \in Thread,
             \/ \E d \in AppDomain : ManagedProfilerLoaded(t, d)
      PROVE  InfoKept'
  BY <1>21
     DEF ManagedProfilerLoaded, rejitVars, history, InfoFrame, InfoKept
<1>22. ASSUME TakeRequest PROVE InfoKept'
  BY <1>22
     DEF TakeRequest, PopItem, tables, profilerVars, clrVars, history,
         InfoFrame, InfoKept
<1>23. ASSUME RequestReJIT PROVE InfoKept'
  BY <1>23
     DEF RequestReJIT, RequestDone, tables, profilerVars, InfoFrame, InfoKept
<1> QED
  BY <1>1, <1>2, <1>3, <1>4, <1>5, <1>6, <1>7, <1>8, <1>9, <1>10, <1>11,
     <1>12, <1>13, <1>14, <1>15, <1>16, <1>17, <1>18, <1>19, <1>20, <1>21,
     <1>22, <1>23 DEF Next, Call, Continue, RejitThread

(* A load is newer than every load before it, and changes no other's targets. *)
LEMMA NewLoad ==
  ASSUME Typed, NEW t \in Thread, NEW m \in Module, LoadBegin(t, m)
  PROVE  \E n \in Load :
            /\ \A k \in Module : loads[k] < n
            /\ \A k \in Module : loads'[k] = IF k = m THEN n ELSE loads[k]
            /\ \A k \in Module, i \in Load : i # n => targets'[k][i] = targets[k][i]
            /\ \A k \in Module \ {m} : targets'[k] = targets[k]
<1>1. PICK n \in Load, T \in SUBSET Method :
         /\ \A k \in Module : loads[k] < n
         /\ loads' = [loads EXCEPT ![m] = n]
         /\ targets' = [targets EXCEPT ![m][n] = T]
  BY DEF LoadBegin, NextLoad
<1>2. \A k \in Module : loads'[k] = IF k = m THEN n ELSE loads[k]
  BY <1>1 DEF Typed, TypeOK, ClrTypeOK
<1>3. \A k \in Module \ {m} : targets'[k] = targets[k]
  BY <1>1 DEF Typed, TypeOK, ClrTypeOK
<1>4. \A i \in Load : i # n => targets'[m][i] = targets[m][i]
  BY <1>1 DEF Typed, TypeOK, ClrTypeOK
<1> QED
  BY <1>1, <1>2, <1>3, <1>4

(* What is yet to be registered is matched. *)
LEMMA TodoMatchedStep ==
  ASSUME Typed, TodoMatched, Next
  PROVE  TodoMatched'
<1>1. ASSUME NEW t \in Thread, NEW m \in Module, LoadBegin(t, m)
      PROVE  TodoMatched'
  <2>1. PICK n \in Load :
             /\ \A k \in Module : loads'[k] = IF k = m THEN n ELSE loads[k]
             /\ \A k \in Module \ {m} : targets'[k] = targets[k]
    BY <1>1, NewLoad
  <2>2. ASSUME NEW u \in Thread, callback'[u] = callback[u], callback[u].pc = "register"
        PROVE  callback[u].module # m /\ callback[u].module \in Module
    BY <1>1, <2>2, UnloadedAlone, FrameFacts DEF LoadBegin, Resting
  <2>3. \A u \in Thread : callback'[u] = callback[u] \/ callback'[u].pc # "register"
    BY <1>1, LoadBeginMoves DEF Frame
  <2> QED
    BY <2>1, <2>2, <2>3 DEF TodoMatched
<1>2. ASSUME NEW t \in Thread, LoadLocked(t)
      PROVE  TodoMatched'
  <2>1. UNCHANGED <<targets, loads>>
    BY <1>2 DEF LoadLocked
  <2>2. \A u \in Thread \ {t} : callback'[u] = callback[u]
    BY <1>2, LoadLockedMoves DEF Frame, Stays, Leaves
  <2>3. LET c == callback'[t] IN
        c.pc = "register" => c.todo \subseteq targets[c.module][loads[c.module]]
    BY <1>2, LoadLockedMoves DEF Frame, Stays, Leaves
  <2> QED
    BY <2>1, <2>2, <2>3 DEF TodoMatched
<1>3. ASSUME NEW t \in Thread, LoadRegister(t)
      PROVE  TodoMatched'
  <2>1. UNCHANGED <<targets, loads>>
    BY <1>3 DEF LoadRegister, clrVars
  <2>2. \A u \in Thread \ {t} : callback'[u] = callback[u]
    BY <1>3, LoadRegisterMoves DEF Frame, Stays
  <2>3. /\ callback[t].pc = "register" /\ callback'[t].module = callback[t].module
        /\ callback'[t].todo \subseteq callback[t].todo
    BY <1>3, LoadRegisterMoves DEF LoadRegister, At, Frame, Stays
  <2> QED
    BY <2>1, <2>2, <2>3 DEF TodoMatched
<1>4. ASSUME NEW t \in Thread, LoadEnqueue(t)
      PROVE  TodoMatched'
  <2>1. UNCHANGED <<targets, loads>>
    BY <1>4 DEF LoadEnqueue
  <2>2. \A u \in Thread \ {t} : callback'[u] = callback[u]
    BY <1>4, LoadEnqueueMoves DEF Frame, Stays, Leaves
  <2>3. callback'[t].pc # "register"
    BY <1>4, LoadEnqueueMoves DEF Frame, Stays, Leaves
  <2> QED
    BY <2>1, <2>2, <2>3 DEF TodoMatched
<1>5. ASSUME NEW t \in Thread, NEW m \in Module, UnloadBegin(t, m)
      PROVE  TodoMatched'
  <2>1. UNCHANGED <<targets, loads>>
    BY <1>5 DEF UnloadBegin
  <2>2. CASE callback' = callback
    BY <2>1, <2>2 DEF TodoMatched
  <2>3. CASE \E k, x : Frame(t, "unload", k, x, 0)
    BY <2>1, <2>3 DEF Frame, TodoMatched
  <2> QED
    BY <1>5, <2>2, <2>3, UnloadBeginMoves
<1>6. ASSUME NEW t \in Thread, UnloadLocked(t)
      PROVE  TodoMatched'
  <2>1. UNCHANGED <<targets, loads>>
    BY <1>6 DEF UnloadLocked
  <2>2. \A u \in Thread \ {t} : callback'[u] = callback[u]
    BY <1>6, UnloadLockedMoves DEF Frame, Stays, Leaves
  <2>3. callback'[t].pc # "register"
    BY <1>6, UnloadLockedMoves DEF Frame, Stays, Leaves
  <2> QED
    BY <2>1, <2>2, <2>3 DEF TodoMatched
<1>7. ASSUME NEW t \in Thread, ShutdownBegin(t)
      PROVE  TodoMatched'
  <2>1. UNCHANGED <<targets, loads>>
    BY <1>7 DEF ShutdownBegin, clrVars
  <2>2. \A u \in Thread \ {t} : callback'[u] = callback[u]
    BY <1>7, ShutdownBeginMoves DEF Frame, Stays, Leaves
  <2>3. callback'[t].pc # "register"
    BY <1>7, ShutdownBeginMoves DEF Frame, Stays, Leaves
  <2> QED
    BY <2>1, <2>2, <2>3 DEF TodoMatched
<1>8. ASSUME NEW t \in Thread, ShutdownJoin(t)
      PROVE  TodoMatched'
  <2>1. UNCHANGED <<targets, loads>>
    BY <1>8 DEF ShutdownJoin, clrVars
  <2>2. \A u \in Thread \ {t} : callback'[u] = callback[u]
    BY <1>8, ShutdownJoinMoves DEF Frame, Stays, Leaves
  <2>3. callback'[t].pc # "register"
    BY <1>8, ShutdownJoinMoves DEF Frame, Stays, Leaves
  <2> QED
    BY <2>1, <2>2, <2>3 DEF TodoMatched
<1>9. ASSUME NEW t \in Thread, ShutdownDelete(t)
      PROVE  TodoMatched'
  <2>1. UNCHANGED <<targets, loads>>
    BY <1>9 DEF ShutdownDelete, clrVars
  <2>2. \A u \in Thread \ {t} : callback'[u] = callback[u]
    BY <1>9, ShutdownDeleteMoves DEF Frame, Stays, Leaves
  <2>3. callback'[t].pc # "register"
    BY <1>9, ShutdownDeleteMoves DEF Frame, Stays, Leaves
  <2> QED
    BY <2>1, <2>2, <2>3 DEF TodoMatched
<1>10. ASSUME NEW t \in Thread, ShutdownEnd(t)
      PROVE  TodoMatched'
  <2>1. UNCHANGED <<targets, loads>>
    BY <1>10 DEF ShutdownEnd, clrVars
  <2>2. \A u \in Thread \ {t} : callback'[u] = callback[u]
    BY <1>10, ShutdownEndMoves DEF Frame, Stays, Leaves
  <2>3. callback'[t].pc # "register"
    BY <1>10, ShutdownEndMoves DEF Frame, Stays, Leaves
  <2> QED
    BY <2>1, <2>2, <2>3 DEF TodoMatched
<1>11. ASSUME NEW t \in Thread, RejitBegin(t)
      PROVE  TodoMatched'
  <2>1. UNCHANGED <<targets, loads>>
    BY <1>11 DEF RejitBegin
  <2>2. CASE callback' = callback
    BY <2>1, <2>2 DEF TodoMatched
  <2>3. CASE \E k, x : Frame(t, "find", k, x, 0)
    BY <2>1, <2>3 DEF Frame, TodoMatched
  <2> QED
    BY <1>11, <2>2, <2>3, RejitBeginMoves
<1>12. ASSUME NEW t \in Thread, RejitFind(t)
      PROVE  TodoMatched'
  <2>1. UNCHANGED <<targets, loads>>
    BY <1>12 DEF RejitFind, clrVars
  <2>2. \A u \in Thread \ {t} : callback'[u] = callback[u]
    BY <1>12, RejitFindMoves DEF Frame, Stays, Leaves
  <2>3. callback'[t].pc # "register"
    BY <1>12, RejitFindMoves DEF Frame, Stays, Leaves
  <2> QED
    BY <2>1, <2>2, <2>3 DEF TodoMatched
<1>13. ASSUME NEW t \in Thread, RejitNotify(t)
      PROVE  TodoMatched'
  <2>1. UNCHANGED <<targets, loads>>
    BY <1>13 DEF RejitNotify, clrVars
  <2>2. \A u \in Thread \ {t} : callback'[u] = callback[u]
    BY <1>13, RejitNotifyMoves DEF Frame, Stays, Leaves
  <2>3. callback'[t].pc # "register"
    BY <1>13, RejitNotifyMoves DEF Frame, Stays, Leaves
  <2> QED
    BY <2>1, <2>2, <2>3 DEF TodoMatched
<1>14. ASSUME NEW t \in Thread, RejitRewrite(t)
      PROVE  TodoMatched'
  <2>1. UNCHANGED <<targets, loads>>
    BY <1>14 DEF RejitRewrite, clrVars
  <2>2. \A u \in Thread \ {t} : callback'[u] = callback[u]
    BY <1>14, RejitRewriteMoves DEF Frame, Stays, Leaves
  <2>3. callback'[t].pc # "register"
    BY <1>14, RejitRewriteMoves DEF Frame, Stays, Leaves
  <2> QED
    BY <2>1, <2>2, <2>3 DEF TodoMatched
<1>15. ASSUME NEW t \in Thread, NEW m \in Module, JitBegin(t, m)
      PROVE  TodoMatched'
  <2>1. UNCHANGED <<targets, loads>>
    BY <1>15 DEF JitBegin, clrVars
  <2>2. \A u \in Thread \ {t} : callback'[u] = callback[u]
    BY <1>15, JitBeginMoves DEF Frame, Stays, Leaves
  <2>3. callback'[t].pc # "register"
    BY <1>15, JitBeginMoves DEF Frame, Stays, Leaves
  <2> QED
    BY <2>1, <2>2, <2>3 DEF TodoMatched
<1>16. ASSUME NEW t \in Thread, JitFind(t)
      PROVE  TodoMatched'
  <2>1. UNCHANGED <<targets, loads>>
    BY <1>16 DEF JitFind, clrVars
  <2>2. \A u \in Thread \ {t} : callback'[u] = callback[u]
    BY <1>16, JitFindMoves DEF Frame, Stays, Leaves
  <2>3. callback'[t].pc # "register"
    BY <1>16, JitFindMoves DEF Frame, Stays, Leaves
  <2> QED
    BY <2>1, <2>2, <2>3 DEF TodoMatched
<1>17. ASSUME NEW t \in Thread, JitHook(t)
      PROVE  TodoMatched'
  <2>1. UNCHANGED <<targets, loads>>
    BY <1>17 DEF JitHook, clrVars
  <2>2. \A u \in Thread \ {t} : callback'[u] = callback[u]
    BY <1>17, JitHookMoves DEF Frame, Stays, Leaves
  <2>3. callback'[t].pc # "register"
    BY <1>17, JitHookMoves DEF Frame, Stays, Leaves
  <2> QED
    BY <2>1, <2>2, <2>3 DEF TodoMatched
<1>18. ASSUME NEW t \in Thread, NEW m \in Module, NEW x \in Method, InlineBegin(t, m, x)
      PROVE  TodoMatched'
  <2>1. UNCHANGED <<targets, loads>>
    BY <1>18 DEF InlineBegin, clrVars
  <2>2. \A u \in Thread \ {t} : callback'[u] = callback[u]
    BY <1>18, InlineBeginMoves DEF Frame, Stays, Leaves
  <2>3. callback'[t].pc # "register"
    BY <1>18, InlineBeginMoves DEF Frame, Stays, Leaves
  <2> QED
    BY <2>1, <2>2, <2>3 DEF TodoMatched
<1>19. ASSUME NEW t \in Thread, InlineLookup(t)
      PROVE  TodoMatched'
  <2>1. UNCHANGED <<targets, loads>>
    BY <1>19 DEF InlineLookup, clrVars
  <2>2. \A u \in Thread \ {t} : callback'[u] = callback[u]
    BY <1>19, InlineLookupMoves DEF Frame, Stays, Leaves
  <2>3. callback'[t].pc # "register"
    BY <1>19, InlineLookupMoves DEF Frame, Stays, Leaves
  <2> QED
    BY <2>1, <2>2, <2>3 DEF TodoMatched
<1>20. ASSUME NEW t \in Thread, InlineContains(t)
      PROVE  TodoMatched'
  <2>1. UNCHANGED <<targets, loads>>
    BY <1>20 DEF InlineContains, clrVars
  <2>2. \A u \in Thread \ {t} : callback'[u] = callback[u]
    BY <1>20, InlineContainsMoves DEF Frame, Stays, Leaves
  <2>3. callback'[t].pc # "register"
    BY <1>20, InlineContainsMoves DEF Frame, Stays, Leaves
  <2> QED
    BY <2>1, <2>2, <2>3 DEF TodoMatched
<1>21. ASSUME NEW t \in Thread,
             \/ \E d \in AppDomain : ManagedProfilerLoaded(t, d)
      PROVE  TodoMatched'
  BY <1>21
     DEF ManagedProfilerLoaded, rejitVars, history, TodoMatched
<1>22. ASSUME TakeRequest PROVE TodoMatched'
  BY <1>22
     DEF TakeRequest, PopItem, tables, profilerVars, clrVars, history,
         TodoMatched
<1>23. ASSUME RequestReJIT PROVE TodoMatched'
  BY <1>23
     DEF RequestReJIT, RequestDone, tables, profilerVars, TodoMatched
<1> QED
  BY <1>1, <1>2, <1>3, <1>4, <1>5, <1>6, <1>7, <1>8, <1>9, <1>10, <1>11,
     <1>12, <1>13, <1>14, <1>15, <1>16, <1>17, <1>18, <1>19, <1>20, <1>21,
     <1>22, <1>23 DEF Next, Call, Continue, RejitThread

(* A method handler is filled by LoadRegister and emptied with the metadata. *)
LEMMA DescribedMatchedStep ==
  ASSUME Typed, Lives, InfoKept, TodoMatched, DescribedMatched, Next
  PROVE  DescribedMatched'
<1>1. ASSUME NEW t \in Thread, NEW m \in Module, LoadBegin(t, m)
      PROVE  DescribedMatched'
  <2>1. PICK n \in Load :
             /\ \A k \in Module : loads[k] < n
             /\ \A k \in Module, i \in Load : i # n => targets'[k][i] = targets[k][i]
    BY <1>1, NewLoad
  <2>2. UNCHANGED <<described, infoMap>>
    BY <1>1 DEF LoadBegin, rejitVars, profilerVars
  <2>3. ASSUME NEW k \in Module, infoMap[k] # 0
        PROVE  targets'[k][infoMap[k]] = targets[k][infoMap[k]]
    <3>1. infoMap[k] \in 0 .. MaxLoads /\ loads[k] \in 0 .. MaxLoads
      BY DEF Typed, TypeOK, ProfilerTypeOK, ClrTypeOK
    <3>2. infoMap[k] <= loads[k] /\ loads[k] < n
      BY <2>1 DEF Typed, LoadsCounted
    <3>3. infoMap[k] \in Load /\ infoMap[k] # n
      BY <2>3, <3>1, <3>2, RejitAssumption DEF Load
    <3> QED
      BY <2>1, <3>3
  <2> QED
    BY <2>2, <2>3 DEF DescribedMatched
<1>2. ASSUME NEW t \in Thread, LoadLocked(t)
      PROVE  DescribedMatched'
  <2> DEFINE m == callback[t].module
  <2>1. callback[t].pc = "load" /\ m \in Module /\ UNCHANGED <<described, targets>>
    BY <1>2, FrameFacts DEF LoadLocked, At, Resting, rejitVars, tables
  <2>2. CASE infoMap' = infoMap
    BY <2>1, <2>2 DEF DescribedMatched
  <2>3. CASE isAttached /\ infoMap' = [infoMap EXCEPT ![m] = loads[m]]
    <3>1. infoMap[m] = 0
      BY <2>1, <2>3 DEF InfoKept, InfoFrame
    <3>2. described[m] = {}
      BY <2>1, <3>1 DEF DescribedMatched
    <3>3. \A k \in Module \ {m} : infoMap'[k] = infoMap[k]
      BY <2>3 DEF Typed, TypeOK, ProfilerTypeOK
    <3> QED
      BY <2>1, <3>2, <3>3 DEF DescribedMatched
  <2> QED
    BY <1>2, <2>2, <2>3 DEF LoadLocked
<1>3. ASSUME NEW t \in Thread, LoadRegister(t)
      PROVE  DescribedMatched'
  <2> DEFINE m == callback[t].module
  <2>1. /\ callback[t].pc = "register" /\ m \in Module /\ loads[m] \in Load
        /\ UNCHANGED <<infoMap, targets>>
    BY <1>3, FrameFacts DEF LoadRegister, At, Resting, profilerVars, clrVars
  <2>2. /\ infoMap[m] = loads[m] /\ infoMap[m] # 0
        /\ callback[t].todo \subseteq targets[m][infoMap[m]]
    BY <2>1 DEF InfoKept, InfoFrame, TodoMatched, Load
  <2> HIDE DEF m
  <2>3. ASSUME NEW x \in callback[t].todo, AddTarget(m, loads[m], x)
        PROVE  DescribedMatched'
    <3>1. /\ \A k \in Module \ {m} : described'[k] = described[k]
          /\ described'[m] = described[m] \cup {x}
      BY <2>1, <2>3 DEF AddTarget, Typed, TypeOK, RejitTypeOK
    <3> QED
      BY <2>1, <2>2, <3>1 DEF DescribedMatched
  <2>4. CASE described' = described
    BY <2>1, <2>4 DEF DescribedMatched
  <2> QED
    BY <1>3, <2>3, <2>4 DEF LoadRegister, tables, m
<1>4. ASSUME NEW t \in Thread, UnloadLocked(t)
      PROVE  DescribedMatched'
  <2> DEFINE m == callback[t].module
  <2>1. m \in Module /\ lock = NoThread /\ targets' = targets
    BY <1>4, FrameFacts DEF UnloadLocked, At, Resting
  <2>2. CASE ~(isAttached /\ infoMap[m] # 0)
    <3>1. UNCHANGED <<infoMap, described>>
      BY <1>4, <2>2 DEF UnloadLocked, tables
    <3> QED
      BY <2>1, <3>1 DEF DescribedMatched
  <2>3. CASE isAttached /\ infoMap[m] # 0
    <3>1. rejitHandler = "live"
      BY <2>1, <2>3, FreeLock DEF Lives, Typed, TypeOK, RejitTypeOK
    <3>2. RemoveModule(m) /\ infoMap' = [infoMap EXCEPT ![m] = 0]
      BY <1>4, <2>3, <3>1 DEF UnloadLocked
    <3> HIDE DEF m
    <3>3. /\ described'[m] = {}
          /\ \A k \in Module \ {m} : described'[k] = described[k] /\ infoMap'[k] = infoMap[k]
      BY <2>1, <3>2 DEF RemoveModule, Typed, TypeOK, RejitTypeOK, ProfilerTypeOK
    <3> QED
      BY <2>1, <3>3 DEF DescribedMatched
  <2> QED
    BY <2>2, <2>3
<1>5. ASSUME NEW t \in Thread, ShutdownJoin(t)
      PROVE  DescribedMatched'
  BY <1>5 DEF ShutdownJoin, ClearModules, DescribedMatched
<1>6. ASSUME NEW t \in Thread, ShutdownDelete(t)
      PROVE  DescribedMatched'
  BY <1>6 DEF ShutdownDelete, DeleteHandler, ClearModules, DescribedMatched
<1>7. ASSUME NEW t \in Thread, RejitNotify(t)
      PROVE  DescribedMatched'
  BY <1>7 DEF RejitNotify, tables, profilerVars, clrVars, DescribedMatched
<1>8. ASSUME NEW t \in Thread,
             \/ LoadEnqueue(t) \/ ShutdownBegin(t) \/ ShutdownEnd(t)
             \/ RejitBegin(t) \/ RejitFind(t) \/ RejitRewrite(t)
             \/ JitFind(t) \/ JitHook(t) \/ InlineLookup(t)
             \/ InlineContains(t)
             \/ \E m \in Module : UnloadBegin(t, m) \/ JitBegin(t, m)
             \/ \E d \in AppDomain : ManagedProfilerLoaded(t, d)
             \/ \E m \in Module, x \in Method : InlineBegin(t, m, x)
      PROVE  DescribedMatched'
  BY <1>8
     DEF LoadEnqueue, tables, UnloadBegin, rejitVars, profilerVars, history,
         ManagedProfilerLoaded, ShutdownBegin, clrVars, ShutdownEnd,
         RejitBegin, RejitFind, RejitRewrite, JitBegin, JitFind, JitHook,
         InlineBegin, InlineLookup, InlineContains, DescribedMatched
<1>9. ASSUME TakeRequest PROVE DescribedMatched'
  BY <1>9
     DEF TakeRequest, PopItem, tables, profilerVars, clrVars, history,
         DescribedMatched
<1>10. ASSUME RequestReJIT PROVE DescribedMatched'
  BY <1>10
     DEF RequestReJIT, RequestDone, tables, profilerVars, DescribedMatched
<1> QED
  BY <1>1, <1>2, <1>3, <1>4, <1>5, <1>6, <1>7, <1>8, <1>9, <1>10 DEF Next, Call, Continue, RejitThread

(* A rewrite uses the metadata the method was described for. *)
LEMMA RewrittenMatchedStep ==
  ASSUME Typed, InfoKept, DescribedMatched, RewrittenMatched, Next
  PROVE  RewrittenMatched'
<1>1. ASSUME NEW t \in Thread, NEW m \in Module, LoadBegin(t, m)
      PROVE  RewrittenMatched'
  <2>1. PICK n \in Load :
             /\ \A k \in Module : loads[k] < n
             /\ \A k \in Module : loads'[k] = IF k = m THEN n ELSE loads[k]
             /\ \A k \in Module, i \in Load : i # n => targets'[k][i] = targets[k][i]
    BY <1>1, NewLoad
  <2>2. rewritten' = rewritten
    BY <1>1 DEF LoadBegin, history
  <2>3. ASSUME NEW r \in rewritten
        PROVE  r[2] <= loads'[r[1]] /\ r[3] \in targets'[r[1]][r[2]]
    <3>1. r[1] \in Module /\ r[2] \in Load /\ loads[r[1]] \in 0 .. MaxLoads
      BY DEF Typed, TypeOK, ClrTypeOK, HistoryTypeOK
    <3>2. r[2] <= loads[r[1]] /\ loads[r[1]] < n
      BY <2>1, <3>1 DEF RewrittenMatched
    <3>3. r[2] # n /\ r[2] <= n
      BY <3>1, <3>2, RejitAssumption DEF Load
    <3>4. targets'[r[1]][r[2]] = targets[r[1]][r[2]]
      BY <2>1, <3>1, <3>3
    <3>5. r[2] <= loads'[r[1]]
      BY <2>1, <3>1, <3>2, <3>3
    <3> QED
      BY <3>4, <3>5 DEF RewrittenMatched
  <2> QED
    BY <2>2, <2>3 DEF RewrittenMatched
<1>2. ASSUME NEW t \in Thread, RejitRewrite(t)
      PROVE  RewrittenMatched'
  <2> DEFINE c == callback[t]
             r == <<c.module, c.metadata, c.method>>
  <2>1. c.pc = "rewrite" /\ c.module \in Module /\ UNCHANGED <<loads, targets>>
    BY <1>2, FrameFacts DEF RejitRewrite, At, Resting, clrVars
  <2>2. \/ rewritten' = rewritten
        \/ rewritten' = rewritten \cup {r} /\ c.method \in described[c.module]
    BY <1>2 DEF RejitRewrite
  <2>3. c.method \in described[c.module] => r[2] <= loads[r[1]] /\ r[3] \in targets[r[1]][r[2]]
    <3>1. infoMap[c.module] = c.metadata /\ infoMap[c.module] <= loads[c.module]
      BY <2>1 DEF InfoKept, InfoFrame, Typed, LoadsCounted
    <3>2. c.method \in described[c.module] => c.method \in targets[c.module][infoMap[c.module]]
      BY <2>1 DEF DescribedMatched
    <3> QED
      BY <3>1, <3>2
  <2> QED
    BY <2>1, <2>2, <2>3 DEF RewrittenMatched
<1>3. ASSUME NEW t \in Thread,
             \/ LoadLocked(t) \/ LoadRegister(t) \/ LoadEnqueue(t)
             \/ UnloadLocked(t) \/ ShutdownBegin(t) \/ ShutdownJoin(t)
             \/ ShutdownDelete(t) \/ ShutdownEnd(t) \/ RejitBegin(t)
             \/ RejitFind(t) \/ RejitNotify(t) \/ JitFind(t)
             \/ JitHook(t) \/ InlineLookup(t) \/ InlineContains(t)
             \/ \E m \in Module : UnloadBegin(t, m) \/ JitBegin(t, m)
             \/ \E d \in AppDomain : ManagedProfilerLoaded(t, d)
             \/ \E m \in Module, x \in Method : InlineBegin(t, m, x)
      PROVE  RewrittenMatched'
  BY <1>3
     DEF LoadLocked, rejitVars, history, LoadRegister, tables, profilerVars,
         clrVars, LoadEnqueue, UnloadBegin, UnloadLocked,
         ManagedProfilerLoaded, ShutdownBegin, ShutdownJoin, ShutdownDelete,
         DeleteHandler, ShutdownEnd, RejitBegin, RejitFind, RejitNotify,
         JitBegin, JitFind, JitHook, InlineBegin, InlineLookup,
         InlineContains, RewrittenMatched
<1>4. ASSUME TakeRequest PROVE RewrittenMatched'
  BY <1>4
     DEF TakeRequest, PopItem, tables, profilerVars, clrVars, history,
         RewrittenMatched
<1>5. ASSUME RequestReJIT PROVE RewrittenMatched'
  BY <1>5
     DEF RequestReJIT, RequestDone, tables, profilerVars, RewrittenMatched
<1> QED
  BY <1>1, <1>2, <1>3, <1>4, <1>5 DEF Next, Call, Continue, RejitThread

LEMMA MethodsOfModulesStep ==
  ASSUME Typed, MethodsOfModules, Next
  PROVE  MethodsOfModules'
<1>1. ASSUME NEW t \in Thread, LoadRegister(t)
      PROVE  MethodsOfModules'
  <2> DEFINE m == callback[t].module
  <2>1. m \in Module
    BY <1>1, FrameFacts DEF LoadRegister, At, Resting
  <2>2. CASE UNCHANGED tables
    BY <2>2 DEF tables, MethodsOfModules
  <2> HIDE DEF m
  <2>3. ASSUME NEW x, AddMethod(m, loads[m], x) PROVE MethodsOfModules'
    BY <2>1, <2>3 DEF AddMethod, MethodsOfModules, Typed, TypeOK, RejitTypeOK
  <2> QED
    BY <1>1, <2>2, <2>3 DEF LoadRegister, AddTarget, m
<1>2. ASSUME NEW t \in Thread, UnloadLocked(t)
      PROVE  MethodsOfModules'
  <2> DEFINE m == callback[t].module
  <2>1. m \in Module
    BY <1>2, FrameFacts DEF UnloadLocked, At, Resting
  <2>2. CASE UNCHANGED tables
    BY <2>2 DEF tables, MethodsOfModules
  <2> HIDE DEF m
  <2>3. CASE RemoveModule(m)
    BY <2>1, <2>3 DEF RemoveModule, MethodsOfModules, Typed, TypeOK, RejitTypeOK
  <2> QED
    BY <1>2, <2>2, <2>3 DEF UnloadLocked, m
<1>3. ASSUME NEW t \in Thread, ShutdownJoin(t)
      PROVE  MethodsOfModules'
  BY <1>3 DEF ShutdownJoin, ClearModules, MethodsOfModules
<1>4. ASSUME NEW t \in Thread, ShutdownDelete(t)
      PROVE  MethodsOfModules'
  BY <1>4 DEF ShutdownDelete, DeleteHandler, ClearModules, MethodsOfModules
<1>5. ASSUME NEW t \in Thread, RejitNotify(t)
      PROVE  MethodsOfModules'
  <2> DEFINE c == callback[t]
  <2>1. c.module \in Module
    BY <1>5, FrameFacts DEF RejitNotify, At, Resting
  <2>2. CASE UNCHANGED tables
    BY <2>2 DEF tables, MethodsOfModules
  <2>3. ASSUME NEW m \in Module, AddMethod(m, c.metadata, c.method) PROVE MethodsOfModules'
    BY <2>3 DEF AddMethod, MethodsOfModules, Typed, TypeOK, RejitTypeOK
  <2> QED
    BY <1>5, <2>1, <2>2, <2>3 DEF RejitNotify
<1>6. ASSUME NEW t \in Thread,
             \/ LoadLocked(t) \/ LoadEnqueue(t) \/ ShutdownBegin(t)
             \/ ShutdownEnd(t) \/ RejitBegin(t) \/ RejitFind(t)
             \/ RejitRewrite(t) \/ JitFind(t) \/ JitHook(t)
             \/ InlineLookup(t) \/ InlineContains(t)
             \/ \E m \in Module : LoadBegin(t, m) \/ UnloadBegin(t, m) \/ JitBegin(t, m)
             \/ \E d \in AppDomain : ManagedProfilerLoaded(t, d)
             \/ \E m \in Module, x \in Method : InlineBegin(t, m, x)
      PROVE  MethodsOfModules'
  BY <1>6
     DEF LoadBegin, rejitVars, profilerVars, history, LoadLocked, LoadEnqueue,
         tables, UnloadBegin, ManagedProfilerLoaded, ShutdownBegin, clrVars,
         ShutdownEnd, RejitBegin, RejitFind, RejitRewrite, JitBegin, JitFind,
         JitHook, InlineBegin, InlineLookup, InlineContains, MethodsOfModules
<1>7. ASSUME TakeRequest PROVE MethodsOfModules'
  BY <1>7
     DEF TakeRequest, PopItem, tables, profilerVars, clrVars, history,
         MethodsOfModules
<1>8. ASSUME RequestReJIT PROVE MethodsOfModules'
  BY <1>8
     DEF RequestReJIT, RequestDone, tables, profilerVars, MethodsOfModules
<1> QED
  BY <1>1, <1>2, <1>3, <1>4, <1>5, <1>6, <1>7, <1>8 DEF Next, Call, Continue, RejitThread

(* Until the ReJIT thread has ended, a target of a loaded module is found. *)
LEMMA TargetsKnownStep ==
  ASSUME Typed, LockHeld, Lives, TargetsKnown, Next
  PROVE  TargetsKnown'
<1>1. ASSUME NEW t \in Thread, NEW m \in Module, LoadBegin(t, m)
      PROVE  TargetsKnown'
  <2>1. PICK n \in Load :
             /\ \A k \in Module : loads'[k] = IF k = m THEN n ELSE loads[k]
             /\ \A k \in Module \ {m} : targets'[k] = targets[k]
    BY <1>1, NewLoad
  <2>2. UNCHANGED <<rejitThread, methods, modules>> /\ clrModule[m] = "unloaded"
    BY <1>1 DEF LoadBegin, rejitVars, tables
  <2>3. rejitThread # "exited" => isAttached
    BY DEF Lives
  <2>4. \A k \in Module \ {m} : clrModule'[k] = clrModule[k]
    BY <1>1 DEF LoadBegin, Typed, TypeOK, ClrTypeOK
  <2>5. isAttached => clrModule'[m] = "loading" /\ Frame(t, "load", m, NoMethod, 0)
    BY <1>1, LoadBeginMoves DEF LoadBegin, Typed, TypeOK, ClrTypeOK
  <2>6. ASSUME NEW u \in Thread, callback'[u] = callback[u], HandlerFrame(u)
        PROVE  HandlerFrame(u)'
    <3>1. callback[u].pc = "register" => callback[u].module # m /\ callback[u].module \in Module
      BY <2>2, UnloadedAlone, FrameFacts DEF Resting
    <3> QED
      BY <2>1, <2>2, <2>6, <3>1 DEF HandlerFrame
  <2>7. isAttached => HandlerFrame(t)' /\ \A u \in Thread \ {t} : callback'[u] = callback[u]
    BY <2>5 DEF Frame, HandlerFrame
  <2> QED
    BY <2>1, <2>2, <2>3, <2>4, <2>5, <2>6, <2>7 DEF TargetsKnown
<1>2. ASSUME NEW t \in Thread, LoadLocked(t)
      PROVE  TargetsKnown'
  <2> DEFINE m == callback[t].module
  <2>1. m \in Module /\ UNCHANGED <<rejitThread, methods, modules, targets, loads>>
    BY <1>2, FrameFacts DEF LoadLocked, At, Resting, rejitVars, tables
  <2>2. rejitThread # "exited" => isAttached
    BY DEF Lives
  <2>3. \A u \in Thread \ {t} : callback'[u] = callback[u]
    BY <1>2, LoadLockedMoves DEF Frame, Stays, Leaves
  <2>4. HandlerFrame(t)'
    BY <1>2, <2>1, LoadLockedMoves DEF Frame, Stays, Leaves, HandlerFrame
  <2>5. ASSUME isAttached, NEW k \in Module, clrModule'[k] = "loaded"
        PROVE  clrModule[k] = "loaded" \/ targets[k][loads[k]] = {}
    BY <1>2, <2>1, <2>5, LoadLockedMoves DEF Typed, TypeOK, ClrTypeOK
  <2> QED
    BY <2>1, <2>2, <2>3, <2>4, <2>5 DEF HandlerFrame, TargetsKnown
<1>3. ASSUME NEW t \in Thread, LoadRegister(t)
      PROVE  TargetsKnown'
  <2> DEFINE m == callback[t].module
  <2>1. /\ callback[t].pc = "register" /\ m \in Module
        /\ UNCHANGED <<rejitThread, clrModule, targets, loads>>
    BY <1>3, FrameFacts DEF LoadRegister, At, Resting, clrVars
  <2>2. rejitHandler = "live"
    BY <2>1, OwnerStep DEF LockSteps, Lives, Typed, TypeOK, RejitTypeOK
  <2>3. PICK x \in callback[t].todo :
             /\ callback' = [callback EXCEPT ![t].todo = @ \ {x}]
             /\ AddMethod(m, loads[m], x)
    BY <1>3, <2>2 DEF LoadRegister, AddTarget
  <2>4. /\ \A k \in Module : methods[k] \subseteq methods'[k]
        /\ x \in methods'[m] /\ modules \subseteq modules'
    <3> HIDE DEF m
    <3> QED
      BY <2>1, <2>3 DEF AddMethod, Typed, TypeOK, RejitTypeOK
  <2>5. /\ \A u \in Thread \ {t} : callback'[u] = callback[u]
        /\ callback'[t].pc = "register" /\ callback'[t].module = m
        /\ callback'[t].todo = callback[t].todo \ {x}
    BY <2>1, <2>3 DEF Typed, TypeOK, CallbackTypeOK, Callback
  <2>6. ASSUME NEW u \in Thread \ {t}, HandlerFrame(u) PROVE HandlerFrame(u)'
    BY <2>1, <2>4, <2>5, <2>6, FrameFacts DEF HandlerFrame, Resting
  <2>7. HandlerFrame(t) => HandlerFrame(t)'
    BY <2>1, <2>4, <2>5 DEF HandlerFrame
  <2> QED
    BY <2>1, <2>4, <2>6, <2>7 DEF TargetsKnown
<1>4. ASSUME NEW t \in Thread, LoadEnqueue(t)
      PROVE  TargetsKnown'
  <2> DEFINE m == callback[t].module
  <2>1. /\ callback[t].pc = "register" /\ callback[t].todo = {} /\ m \in Module
        /\ UNCHANGED <<rejitThread, methods, modules, targets, loads>>
    BY <1>4, FrameFacts DEF LoadEnqueue, At, Resting, tables
  <2>2. /\ \A u \in Thread \ {t} : callback'[u] = callback[u]
        /\ callback'[t].pc = "idle"
    BY <1>4, LoadEnqueueMoves DEF Frame, Leaves
  <2>3. \A k \in Module : clrModule'[k] = "loaded" => clrModule[k] = "loaded" \/ k = m
    BY <1>4, <2>1 DEF LoadEnqueue, Typed, TypeOK, ClrTypeOK
  <2>4. HandlerFrame(t) => targets[m][loads[m]] \subseteq methods[m]
    BY <2>1 DEF HandlerFrame
  <2> QED
    BY <2>1, <2>2, <2>3, <2>4 DEF HandlerFrame, TargetsKnown
<1>5. ASSUME NEW t \in Thread, NEW m \in Module, UnloadBegin(t, m)
      PROVE  TargetsKnown'
  <2>1. UNCHANGED <<rejitThread, methods, modules, targets, loads>>
    BY <1>5 DEF UnloadBegin, rejitVars, tables
  <2>2. \A k \in Module : clrModule'[k] = "loaded" => clrModule[k] = "loaded"
    BY <1>5 DEF UnloadBegin, Typed, TypeOK, ClrTypeOK
  <2>3. callback' = callback \/ Frame(t, "unload", m, NoMethod, 0)
    BY <1>5, UnloadBeginMoves
  <2> QED
    BY <2>1, <2>2, <2>3 DEF Frame, HandlerFrame, TargetsKnown
<1>6. ASSUME NEW t \in Thread, UnloadLocked(t)
      PROVE  TargetsKnown'
  <2> DEFINE m == callback[t].module
  <2>1. m \in Module /\ callback[t].pc \in Loading /\ UNCHANGED <<rejitThread, targets, loads>>
    BY <1>6, FrameFacts DEF UnloadLocked, At, Resting, Loading
  <2>2. UNCHANGED tables \/ RemoveModule(m)
    BY <1>6 DEF UnloadLocked
  <2>3. /\ \A k \in Module \ {m} : methods'[k] = methods[k]
        /\ modules \subseteq modules' \cup {m}
    <3> HIDE DEF m
    <3> QED
      BY <2>1, <2>2 DEF tables, RemoveModule, Typed, TypeOK, RejitTypeOK
  <2>4. clrModule'[m] # "loaded" /\ \A k \in Module \ {m} : clrModule'[k] = clrModule[k]
    BY <1>6, <2>1 DEF UnloadLocked, Typed, TypeOK, ClrTypeOK
  <2>5. /\ \A u \in Thread \ {t} : callback'[u] = callback[u]
        /\ callback'[t].pc = "idle"
    BY <1>6, UnloadLockedMoves DEF Frame, Leaves
  <2>6. ASSUME NEW u \in Thread \ {t}, HandlerFrame(u) PROVE HandlerFrame(u)'
    <3>1. callback[u].pc \notin Resting => callback[u].module # m /\ callback[u].module \in Module
      BY <2>1, LoaderAlone, FrameFacts
    <3> QED
      BY <2>1, <2>3, <2>5, <2>6, <3>1 DEF HandlerFrame, Resting
  <2> QED
    BY <2>1, <2>3, <2>4, <2>5, <2>6 DEF HandlerFrame, TargetsKnown
<1>7. ASSUME NEW t \in Thread, ShutdownBegin(t)
      PROVE  TargetsKnown'
  <2>1. UNCHANGED <<rejitThread, clrModule, targets, loads, methods, modules>>
    BY <1>7 DEF ShutdownBegin, tables, clrVars
  <2>2. \A u \in Thread \ {t} : callback'[u] = callback[u]
    BY <1>7, ShutdownBeginMoves DEF Frame, Stays, Leaves
  <2>3. HandlerFrame(t)'
    BY <1>7, <2>1, ShutdownBeginMoves DEF Frame, Stays, Leaves, HandlerFrame
  <2> QED
    BY <2>1, <2>2, <2>3 DEF HandlerFrame, TargetsKnown
<1>8. ASSUME NEW t \in Thread, ShutdownJoin(t)
      PROVE  TargetsKnown'
  BY <1>8 DEF ShutdownJoin, TargetsKnown
<1>9. ASSUME NEW t \in Thread, ShutdownDelete(t)
      PROVE  TargetsKnown'
  <2>1. rejitThread = "exited"
    BY <1>9, OwnerStep DEF ShutdownDelete, At, LockSteps, Lives
  <2> QED
    BY <1>9, <2>1 DEF ShutdownDelete, TargetsKnown
<1>10. ASSUME NEW t \in Thread, ShutdownEnd(t)
      PROVE  TargetsKnown'
  <2>1. UNCHANGED <<rejitThread, clrModule, targets, loads, methods, modules>>
    BY <1>10 DEF ShutdownEnd, rejitVars, tables, clrVars
  <2>2. \A u \in Thread \ {t} : callback'[u] = callback[u]
    BY <1>10, ShutdownEndMoves DEF Frame, Stays, Leaves
  <2>3. HandlerFrame(t)'
    BY <1>10, <2>1, ShutdownEndMoves DEF Frame, Stays, Leaves, HandlerFrame
  <2> QED
    BY <2>1, <2>2, <2>3 DEF HandlerFrame, TargetsKnown
<1>11. ASSUME TakeRequest PROVE TargetsKnown'
  BY <1>11 DEF TakeRequest, PopItem, tables, clrVars, HandlerFrame, TargetsKnown
<1>12. ASSUME RequestReJIT PROVE TargetsKnown'
  BY <1>12 DEF RequestReJIT, RequestDone, tables, HandlerFrame, TargetsKnown
<1>13. ASSUME NEW t \in Thread, RejitBegin(t)
      PROVE  TargetsKnown'
  <2>1. UNCHANGED <<rejitThread, clrModule, targets, loads, methods, modules>>
    BY <1>13 DEF RejitBegin, rejitVars, tables
  <2>2. CASE callback' = callback
    BY <2>1, <2>2 DEF HandlerFrame, TargetsKnown
  <2>3. CASE \E k, x : Frame(t, "find", k, x, 0)
    BY <2>1, <2>3 DEF Frame, HandlerFrame, TargetsKnown
  <2> QED
    BY <1>13, <2>2, <2>3, RejitBeginMoves
<1>14. ASSUME NEW t \in Thread, RejitFind(t)
      PROVE  TargetsKnown'
  <2>1. UNCHANGED <<rejitThread, clrModule, targets, loads, methods, modules>>
    BY <1>14 DEF RejitFind, rejitVars, tables, clrVars
  <2>2. \A u \in Thread \ {t} : callback'[u] = callback[u]
    BY <1>14, RejitFindMoves DEF Frame, Stays, Leaves
  <2>3. HandlerFrame(t)'
    BY <1>14, <2>1, RejitFindMoves DEF Frame, Stays, Leaves, HandlerFrame
  <2> QED
    BY <2>1, <2>2, <2>3 DEF HandlerFrame, TargetsKnown
<1>15. ASSUME NEW t \in Thread, RejitNotify(t)
      PROVE  TargetsKnown'
  <2> DEFINE c == callback[t]
  <2>1. /\ c.module \in Module /\ UNCHANGED <<rejitThread, clrModule, targets, loads>>
        /\ \A u \in Thread \ {t} : callback'[u] = callback[u]
    BY <1>15, FrameFacts, RejitNotifyMoves
       DEF RejitNotify, At, Resting, clrVars, Frame, Stays, Leaves
  <2>2. CASE UNCHANGED tables /\ Leaves(t)
    BY <2>1, <2>2 DEF tables, Leaves, Frame, HandlerFrame, TargetsKnown
  <2>3. CASE AddMethod(c.module, c.metadata, c.method) /\ Stays(t, "rewrite")
    <3>1. /\ \A k \in Module : methods[k] \subseteq methods'[k]
          /\ modules \subseteq modules' /\ c.module \in modules'
      BY <2>1, <2>3 DEF AddMethod, Typed, TypeOK, RejitTypeOK
    <3>2. HandlerFrame(t)'
      BY <2>3, <3>1 DEF Stays, Frame, HandlerFrame
    <3>3. ASSUME NEW u \in Thread \ {t}, HandlerFrame(u) PROVE HandlerFrame(u)'
      BY <2>1, <3>1, <3>3, FrameFacts DEF HandlerFrame, Resting
    <3> QED
      BY <2>1, <3>1, <3>2, <3>3 DEF TargetsKnown
  <2> QED
    BY <1>15, <2>2, <2>3, RejitNotifyMoves DEF RejitNotify
<1>16. ASSUME NEW t \in Thread, RejitRewrite(t)
      PROVE  TargetsKnown'
  <2>1. UNCHANGED <<rejitThread, clrModule, targets, loads, methods, modules>>
    BY <1>16 DEF RejitRewrite, rejitVars, tables, clrVars
  <2>2. \A u \in Thread \ {t} : callback'[u] = callback[u]
    BY <1>16, RejitRewriteMoves DEF Frame, Stays, Leaves
  <2>3. HandlerFrame(t)'
    BY <1>16, <2>1, RejitRewriteMoves DEF Frame, Stays, Leaves, HandlerFrame
  <2> QED
    BY <2>1, <2>2, <2>3 DEF HandlerFrame, TargetsKnown
<1>17. ASSUME NEW t \in Thread, NEW m \in Module, JitBegin(t, m)
      PROVE  TargetsKnown'
  <2>1. UNCHANGED <<rejitThread, clrModule, targets, loads, methods, modules>>
    BY <1>17 DEF JitBegin, rejitVars, tables, clrVars
  <2>2. \A u \in Thread \ {t} : callback'[u] = callback[u]
    BY <1>17, JitBeginMoves DEF Frame, Stays, Leaves
  <2>3. HandlerFrame(t)'
    BY <1>17, <2>1, JitBeginMoves DEF Frame, Stays, Leaves, HandlerFrame
  <2> QED
    BY <2>1, <2>2, <2>3 DEF HandlerFrame, TargetsKnown
<1>18. ASSUME NEW t \in Thread, JitFind(t)
      PROVE  TargetsKnown'
  <2>1. UNCHANGED <<rejitThread, clrModule, targets, loads, methods, modules>>
    BY <1>18 DEF JitFind, rejitVars, tables, clrVars
  <2>2. \A u \in Thread \ {t} : callback'[u] = callback[u]
    BY <1>18, JitFindMoves DEF Frame, Stays, Leaves
  <2>3. HandlerFrame(t)'
    BY <1>18, <2>1, JitFindMoves DEF Frame, Stays, Leaves, HandlerFrame
  <2> QED
    BY <2>1, <2>2, <2>3 DEF HandlerFrame, TargetsKnown
<1>19. ASSUME NEW t \in Thread, JitHook(t)
      PROVE  TargetsKnown'
  <2>1. UNCHANGED <<rejitThread, clrModule, targets, loads, methods, modules>>
    BY <1>19 DEF JitHook, rejitVars, tables, clrVars
  <2>2. \A u \in Thread \ {t} : callback'[u] = callback[u]
    BY <1>19, JitHookMoves DEF Frame, Stays, Leaves
  <2>3. HandlerFrame(t)'
    BY <1>19, <2>1, JitHookMoves DEF Frame, Stays, Leaves, HandlerFrame
  <2> QED
    BY <2>1, <2>2, <2>3 DEF HandlerFrame, TargetsKnown
<1>20. ASSUME NEW t \in Thread, NEW m \in Module, NEW x \in Method, InlineBegin(t, m, x)
      PROVE  TargetsKnown'
  <2>1. UNCHANGED <<rejitThread, clrModule, targets, loads, methods, modules>>
    BY <1>20 DEF InlineBegin, rejitVars, tables, clrVars
  <2>2. \A u \in Thread \ {t} : callback'[u] = callback[u]
    BY <1>20, InlineBeginMoves DEF Frame, Stays, Leaves
  <2>3. HandlerFrame(t)'
    BY <1>20, <2>1, InlineBeginMoves DEF Frame, Stays, Leaves, HandlerFrame
  <2> QED
    BY <2>1, <2>2, <2>3 DEF HandlerFrame, TargetsKnown
<1>21. ASSUME NEW t \in Thread, InlineLookup(t)
      PROVE  TargetsKnown'
  <2>1. UNCHANGED <<rejitThread, clrModule, targets, loads, methods, modules>>
    BY <1>21 DEF InlineLookup, rejitVars, tables, clrVars
  <2>2. \A u \in Thread \ {t} : callback'[u] = callback[u]
    BY <1>21, InlineLookupMoves DEF Frame, Stays, Leaves
  <2>3. HandlerFrame(t)'
    BY <1>21, <2>1, InlineLookupMoves DEF Frame, Stays, Leaves, HandlerFrame
  <2> QED
    BY <2>1, <2>2, <2>3 DEF HandlerFrame, TargetsKnown
<1>22. ASSUME NEW t \in Thread, InlineContains(t)
      PROVE  TargetsKnown'
  <2>1. UNCHANGED <<rejitThread, clrModule, targets, loads, methods, modules>>
    BY <1>22 DEF InlineContains, rejitVars, tables, clrVars
  <2>2. \A u \in Thread \ {t} : callback'[u] = callback[u]
    BY <1>22, InlineContainsMoves DEF Frame, Stays, Leaves
  <2>3. HandlerFrame(t)'
    BY <1>22, <2>1, InlineContainsMoves DEF Frame, Stays, Leaves, HandlerFrame
  <2> QED
    BY <2>1, <2>2, <2>3 DEF HandlerFrame, TargetsKnown
<1>23. ASSUME NEW t \in Thread,
             \/ \E d \in AppDomain : ManagedProfilerLoaded(t, d)
      PROVE  TargetsKnown'
  BY <1>23
     DEF ManagedProfilerLoaded, rejitVars, history, tables, HandlerFrame,
         TargetsKnown
<1> QED
  BY <1>1, <1>2, <1>3, <1>4, <1>5, <1>6, <1>7, <1>8, <1>9, <1>10, <1>11,
     <1>12, <1>13, <1>14, <1>15, <1>16, <1>17, <1>18, <1>19, <1>20, <1>21,
     <1>22, <1>23 DEF Next, Call, Continue, RejitThread

(* Inlining is allowed for what is not found, before the thread has ended. *)
Inlining == InlinedLoaded /\ TargetsNotInlined

LEMMA InliningStep ==
  ASSUME Typed, MethodsOfModules, TargetsKnown, Inlining, Next
  PROVE  Inlining'
<1>1. ASSUME NEW t \in Thread, NEW m \in Module, LoadBegin(t, m)
      PROVE  Inlining'
  <2>1. PICK n \in Load :
             /\ \A k \in Module : loads[k] < n
             /\ \A k \in Module : loads'[k] = IF k = m THEN n ELSE loads[k]
             /\ \A k \in Module, i \in Load : i # n => targets'[k][i] = targets[k][i]
    BY <1>1, NewLoad
  <2>2. UNCHANGED <<inlined, rejitThread>>
    BY <1>1 DEF LoadBegin, history, rejitVars
  <2>3. ASSUME NEW r \in inlined
        PROVE  r[2] <= loads'[r[1]] /\ targets'[r[1]][r[2]] = targets[r[1]][r[2]]
    <3>1. r[1] \in Module /\ r[2] \in Load /\ loads[r[1]] \in 0 .. MaxLoads
      BY DEF Typed, TypeOK, ClrTypeOK, HistoryTypeOK
    <3>2. r[2] <= loads[r[1]] /\ loads[r[1]] < n
      BY <2>1, <3>1 DEF Inlining, InlinedLoaded
    <3>3. r[2] # n /\ r[2] <= n
      BY <3>1, <3>2, RejitAssumption DEF Load
    <3> QED
      BY <2>1, <3>1, <3>2, <3>3
  <2> QED
    BY <2>2, <2>3 DEF InlinedLoaded, TargetsNotInlined, Inlining
<1>2. ASSUME TakeRequest PROVE Inlining'
  BY <1>2 DEF TakeRequest, PopItem, clrVars, history, Inlining, InlinedLoaded, TargetsNotInlined
<1>3. ASSUME RequestReJIT PROVE Inlining'
  BY <1>3 DEF RequestReJIT, RequestDone, Inlining, InlinedLoaded, TargetsNotInlined
<1>4. ASSUME NEW t \in Thread, InlineLookup(t)
      PROVE  Inlining'
  <2> DEFINE c == callback[t]
             r == <<c.module, loads[c.module], c.method>>
  <2>1. /\ c.pc = "lookup" /\ c.module \in Module /\ loads[c.module] \in Load
        /\ UNCHANGED <<targets, loads, rejitThread>>
    BY <1>4, FrameFacts DEF InlineLookup, At, Resting, clrVars, rejitVars
  <2>2. \/ inlined' = inlined
        \/ inlined' = inlined \cup {r} /\ c.module \notin modules
    BY <1>4 DEF InlineLookup, AllowInlining
  <2>3. clrModule[c.module] = "loaded"
    BY <2>1 DEF Typed, FramesTyped, FrameTyped, InlineSteps
  <2>4. /\ rejitThread # "exited"
        /\ c.module \notin modules
        => r[3] \notin targets[r[1]][r[2]]
    BY <2>1, <2>3 DEF TargetsKnown, MethodsOfModules
  <2>5. r[2] <= loads[r[1]]
    BY <2>1 DEF Load
  <2> QED
    BY <2>1, <2>2, <2>4, <2>5 DEF InlinedLoaded, TargetsNotInlined, Inlining
<1>5. ASSUME NEW t \in Thread, InlineContains(t)
      PROVE  Inlining'
  <2> DEFINE c == callback[t]
             r == <<c.module, loads[c.module], c.method>>
  <2>1. /\ c.pc = "contains" /\ c.module \in Module /\ loads[c.module] \in Load
        /\ UNCHANGED <<targets, loads, rejitThread>>
    BY <1>5, FrameFacts DEF InlineContains, At, Resting, clrVars, rejitVars
  <2>2. \/ inlined' = inlined
        \/ inlined' = inlined \cup {r} /\ c.method \notin methods[c.module]
    BY <1>5 DEF InlineContains, AllowInlining
  <2>3. clrModule[c.module] = "loaded"
    BY <2>1 DEF Typed, FramesTyped, FrameTyped, InlineSteps
  <2>4. /\ rejitThread # "exited"
        /\ c.method \notin methods[c.module]
        => r[3] \notin targets[r[1]][r[2]]
    BY <2>1, <2>3 DEF TargetsKnown
  <2>5. r[2] <= loads[r[1]]
    BY <2>1 DEF Load
  <2> QED
    BY <2>1, <2>2, <2>4, <2>5 DEF InlinedLoaded, TargetsNotInlined, Inlining
<1>6. ASSUME NEW t \in Thread,
             \/ LoadLocked(t) \/ LoadRegister(t) \/ LoadEnqueue(t)
             \/ UnloadLocked(t) \/ ShutdownBegin(t) \/ ShutdownJoin(t)
             \/ ShutdownDelete(t) \/ ShutdownEnd(t) \/ RejitBegin(t)
             \/ RejitFind(t) \/ RejitNotify(t) \/ RejitRewrite(t)
             \/ JitFind(t) \/ JitHook(t)
             \/ \E m \in Module : UnloadBegin(t, m) \/ JitBegin(t, m)
             \/ \E d \in AppDomain : ManagedProfilerLoaded(t, d)
             \/ \E m \in Module, x \in Method : InlineBegin(t, m, x)
      PROVE  Inlining'
  BY <1>6
     DEF LoadLocked, rejitVars, history, LoadRegister, tables, profilerVars,
         clrVars, LoadEnqueue, UnloadBegin, UnloadLocked,
         ManagedProfilerLoaded, ShutdownBegin, ShutdownJoin, ShutdownDelete,
         DeleteHandler, ShutdownEnd, RejitBegin, RejitFind, RejitNotify,
         RejitRewrite, JitBegin, JitFind, JitHook, InlineBegin, Inlining,
         InlinedLoaded, TargetsNotInlined
<1> QED
  BY <1>1, <1>2, <1>3, <1>4, <1>5, <1>6 DEF Next, Call, Continue, RejitThread

(* A callback that holds the lock finds the handler; one that does not finds *)
(* it until the ReJIT thread has ended.                                    *)
LEMMA LockProtectsStep ==
  ASSUME Typed, LockHeld, Lives, InfoKept, TargetsKnown, LockProtects, Next
  PROVE  LockProtects'
<1>1. ASSUME NEW t \in Thread, LoadRegister(t)
      PROVE  LockProtects'
  <2>1. callback[t].pc = "register" /\ rejitThread' = rejitThread
    BY <1>1 DEF LoadRegister, At
  <2>2. rejitHandler = "live"
    BY <2>1, OwnerStep DEF LockSteps, Lives, Typed, TypeOK, RejitTypeOK
  <2> QED
    BY <1>1, <2>1, <2>2 DEF LoadRegister, LockProtects
<1>2. ASSUME TakeRequest PROVE LockProtects'
  BY <1>2 DEF TakeRequest, PopItem, history, LockProtects
<1>3. ASSUME RequestReJIT PROVE LockProtects'
  BY <1>3 DEF RequestReJIT, RequestDone, LockProtects
<1>4. ASSUME NEW t \in Thread, RejitNotify(t)
      PROVE  LockProtects'
  <2>1. callback[t].pc = "notify" /\ rejitThread' = rejitThread
    BY <1>4 DEF RejitNotify, At
  <2>2. rejitHandler # "live" => rejitThread = "exited"
    BY DEF Lives, Typed, TypeOK, RejitTypeOK
  <2>3. \/ faults' = faults
        \/ rejitHandler # "live" /\ faults' = faults \cup {callback[t].pc}
    BY <1>4 DEF RejitNotify, Fault
  <2> QED
    BY <2>1, <2>2, <2>3 DEF LockProtects
<1>5. ASSUME NEW t \in Thread, RejitRewrite(t)
      PROVE  LockProtects'
  <2>1. callback[t].pc = "rewrite" /\ rejitThread' = rejitThread
    BY <1>5 DEF RejitRewrite, At, rejitVars
  <2>2. rejitHandler # "live" => rejitThread = "exited"
    BY DEF Lives, Typed, TypeOK, RejitTypeOK
  <2> DEFINE c == callback[t]
             there == /\ rejitHandler = "live"
                      /\ c.module \in modules
                      /\ infoMap[c.module] = c.metadata
  <2>3. ~there => rejitThread = "exited"
    BY <2>1, <2>2 DEF TargetsKnown, HandlerFrame, InfoKept, InfoFrame
  <2>4. \/ there /\ faults' = faults
        \/ ~there /\ faults' = faults \cup {c.pc}
    BY <1>5, ZenonT(30) DEF RejitRewrite, Fault
  <2> QED
    BY <2>1, <2>2, <2>3, <2>4 DEF LockProtects
<1>6. ASSUME NEW t \in Thread, InlineLookup(t)
      PROVE  LockProtects'
  <2>1. callback[t].pc = "lookup" /\ rejitThread' = rejitThread
    BY <1>6 DEF InlineLookup, At, rejitVars
  <2>2. rejitHandler # "live" => rejitThread = "exited"
    BY DEF Lives, Typed, TypeOK, RejitTypeOK
  <2>3. \/ faults' = faults
        \/ rejitHandler # "live" /\ faults' = faults \cup {callback[t].pc}
    BY <1>6 DEF InlineLookup, Fault
  <2> QED
    BY <2>1, <2>2, <2>3 DEF LockProtects
<1>7. ASSUME NEW t \in Thread, InlineContains(t)
      PROVE  LockProtects'
  <2>1. callback[t].pc = "contains" /\ rejitThread' = rejitThread
    BY <1>7 DEF InlineContains, At, rejitVars
  <2>2. rejitHandler # "live" => rejitThread = "exited"
    BY DEF Lives, Typed, TypeOK, RejitTypeOK
  <2>3. callback[t].module \notin modules => rejitThread = "exited"
    BY <2>1 DEF TargetsKnown, HandlerFrame
  <2>4. \/ faults' = faults
        \/ callback[t].module \notin modules /\ faults' = faults \cup {callback[t].pc}
    BY <1>7 DEF InlineContains, Fault
  <2> QED
    BY <2>1, <2>2, <2>3, <2>4 DEF LockProtects
<1>8. ASSUME NEW t \in Thread,
             \/ LoadLocked(t) \/ LoadEnqueue(t) \/ UnloadLocked(t)
             \/ ShutdownBegin(t) \/ ShutdownJoin(t)
             \/ ShutdownDelete(t) \/ ShutdownEnd(t) \/ RejitBegin(t)
             \/ RejitFind(t) \/ JitFind(t) \/ JitHook(t)
             \/ \E m \in Module : LoadBegin(t, m) \/ UnloadBegin(t, m) \/ JitBegin(t, m)
             \/ \E d \in AppDomain : ManagedProfilerLoaded(t, d)
             \/ \E m \in Module, x \in Method : InlineBegin(t, m, x)
      PROVE  LockProtects'
  BY <1>8
     DEF LoadBegin, rejitVars, profilerVars, history, LoadLocked, LoadEnqueue,
         tables, UnloadBegin, UnloadLocked, ManagedProfilerLoaded,
         ShutdownBegin, clrVars, ShutdownJoin, ShutdownDelete, DeleteHandler,
         ShutdownEnd, RejitBegin, RejitFind, JitBegin, JitFind, JitHook,
         InlineBegin, LockProtects
<1> QED
  BY <1>1, <1>2, <1>3, <1>4, <1>5, <1>6, <1>7, <1>8 DEF Next, Call, Continue, RejitThread

LEMMA LoadersTrackedStep ==
  ASSUME Typed, LoadersTracked, Next
  PROVE  LoadersTracked'
<1>1. ASSUME NEW t \in Thread, NEW m \in Module, LoadBegin(t, m)
      PROVE  LoadersTracked'
  <2>1. PICK n \in Load :
             /\ \A k \in Module : loads[k] < n
             /\ \A k \in Module : loads'[k] = IF k = m THEN n ELSE loads[k]
    BY <1>1, NewLoad
  <2>2. enqueued' = enqueued /\ clrModule[m] = "unloaded"
    BY <1>1 DEF LoadBegin, history
  <2>3. ASSUME NEW r \in enqueued PROVE r[2] <= loads'[r[1]] /\ r # <<m, n>>
    <3>1. r[1] \in Module /\ r[2] \in Load /\ loads[r[1]] \in 0 .. MaxLoads
      BY DEF Typed, TypeOK, ClrTypeOK, HistoryTypeOK
    <3>2. r[2] <= loads[r[1]] /\ loads[r[1]] < n
      BY <2>1, <3>1 DEF LoadersTracked
    <3>3. r[2] # n /\ r[2] <= n
      BY <3>1, <3>2, RejitAssumption DEF Load
    <3> QED
      BY <2>1, <3>1, <3>2, <3>3
  <2>4. ASSUME NEW u \in Thread, callback'[u] = callback[u], callback[u].pc \in LoadSteps
        PROVE  callback[u].module # m /\ callback[u].module \in Module
    BY <2>2, <2>4, UnloadedAlone, FrameFacts DEF Resting, LoadSteps
  <2>5. \/ callback' = callback
        \/ /\ callback'[t].module = m
           /\ \A u \in Thread \ {t} : callback'[u] = callback[u]
    BY <1>1, LoadBeginMoves DEF Frame
  <2>6. loads'[m] = n
    BY <2>1
  <2> QED
    BY <2>1, <2>2, <2>3, <2>4, <2>5, <2>6 DEF LoadersTracked
<1>2. ASSUME NEW t \in Thread, LoadLocked(t)
      PROVE  LoadersTracked'
  <2>1. UNCHANGED <<enqueued, loads>> /\ \A u \in Thread \ {t} : callback'[u] = callback[u]
    BY <1>2, LoadLockedMoves DEF LoadLocked, history, Frame, Stays, Leaves
  <2>2. callback'[t].pc \in LoadSteps =>
           callback[t].pc \in LoadSteps /\ callback'[t].module = callback[t].module
    BY <1>2, LoadLockedMoves DEF LoadLocked, At, Frame, Stays, Leaves, LoadSteps
  <2> QED
    BY <2>1, <2>2 DEF LoadersTracked
<1>3. ASSUME NEW t \in Thread, LoadRegister(t)
      PROVE  LoadersTracked'
  <2>1. UNCHANGED <<enqueued, loads>> /\ \A u \in Thread \ {t} : callback'[u] = callback[u]
    BY <1>3, LoadRegisterMoves DEF LoadRegister, clrVars, Frame, Stays, Leaves
  <2>2. callback'[t].pc \in LoadSteps =>
           callback[t].pc \in LoadSteps /\ callback'[t].module = callback[t].module
    BY <1>3, LoadRegisterMoves DEF LoadRegister, At, Frame, Stays, Leaves, LoadSteps
  <2> QED
    BY <2>1, <2>2 DEF LoadersTracked
<1>4. ASSUME NEW t \in Thread, LoadEnqueue(t)
      PROVE  LoadersTracked'
  <2> DEFINE m == callback[t].module
  <2>1. callback[t].pc = "register" /\ m \in Module /\ loads[m] \in Load /\ loads' = loads
    BY <1>4, FrameFacts DEF LoadEnqueue, At, Resting
  <2>2. enqueued' = enqueued \/ enqueued' = enqueued \cup {<<m, loads[m]>>}
    BY <1>4 DEF LoadEnqueue
  <2>3. /\ \A u \in Thread \ {t} : callback'[u] = callback[u]
        /\ callback'[t].pc = "idle"
    BY <1>4, LoadEnqueueMoves DEF Frame, Leaves
  <2>4. ASSUME NEW u \in Thread \ {t}, callback[u].pc \in LoadSteps PROVE callback[u].module # m
    BY <2>1, <2>4, LoaderAlone DEF Loading, LoadSteps, Resting
  <2>5. <<m, loads[m]>>[2] <= loads[<<m, loads[m]>>[1]]
    BY <2>1 DEF Load
  <2>6. \A r \in enqueued' : r[2] <= loads'[r[1]]
    BY <2>1, <2>2, <2>5 DEF LoadersTracked
  <2>7. \A u \in Thread : callback'[u].pc \in LoadSteps =>
           <<callback'[u].module, loads'[callback'[u].module]>> \notin enqueued'
    BY <2>1, <2>2, <2>3, <2>4 DEF LoadersTracked, LoadSteps
  <2> QED
    BY <2>6, <2>7 DEF LoadersTracked
<1>5. ASSUME NEW t \in Thread, NEW m \in Module, UnloadBegin(t, m)
      PROVE  LoadersTracked'
  <2>1. UNCHANGED <<enqueued, loads>>
    BY <1>5 DEF UnloadBegin, history
  <2>2. CASE callback' = callback
    BY <2>1, <2>2 DEF LoadersTracked
  <2>3. CASE \E k, x : Frame(t, "unload", k, x, 0)
    BY <2>1, <2>3 DEF Frame, LoadersTracked, LoadSteps
  <2> QED
    BY <1>5, <2>2, <2>3, UnloadBeginMoves
<1>6. ASSUME NEW t \in Thread, UnloadLocked(t)
      PROVE  LoadersTracked'
  <2>1. UNCHANGED <<enqueued, loads>> /\ \A u \in Thread \ {t} : callback'[u] = callback[u]
    BY <1>6, UnloadLockedMoves DEF UnloadLocked, history, Frame, Stays, Leaves
  <2>2. callback'[t].pc \in LoadSteps =>
           callback[t].pc \in LoadSteps /\ callback'[t].module = callback[t].module
    BY <1>6, UnloadLockedMoves DEF UnloadLocked, At, Frame, Stays, Leaves, LoadSteps
  <2> QED
    BY <2>1, <2>2 DEF LoadersTracked
<1>7. ASSUME NEW t \in Thread, ShutdownBegin(t)
      PROVE  LoadersTracked'
  <2>1. UNCHANGED <<enqueued, loads>> /\ \A u \in Thread \ {t} : callback'[u] = callback[u]
    BY <1>7, ShutdownBeginMoves DEF ShutdownBegin, clrVars, history, Frame, Stays, Leaves
  <2>2. callback'[t].pc \in LoadSteps =>
           callback[t].pc \in LoadSteps /\ callback'[t].module = callback[t].module
    BY <1>7, ShutdownBeginMoves DEF ShutdownBegin, At, Frame, Stays, Leaves, LoadSteps
  <2> QED
    BY <2>1, <2>2 DEF LoadersTracked
<1>8. ASSUME NEW t \in Thread, ShutdownJoin(t)
      PROVE  LoadersTracked'
  <2>1. UNCHANGED <<enqueued, loads>> /\ \A u \in Thread \ {t} : callback'[u] = callback[u]
    BY <1>8, ShutdownJoinMoves DEF ShutdownJoin, clrVars, history, Frame, Stays, Leaves
  <2>2. callback'[t].pc \in LoadSteps =>
           callback[t].pc \in LoadSteps /\ callback'[t].module = callback[t].module
    BY <1>8, ShutdownJoinMoves DEF ShutdownJoin, At, Frame, Stays, Leaves, LoadSteps
  <2> QED
    BY <2>1, <2>2 DEF LoadersTracked
<1>9. ASSUME NEW t \in Thread, ShutdownDelete(t)
      PROVE  LoadersTracked'
  <2>1. UNCHANGED <<enqueued, loads>> /\ \A u \in Thread \ {t} : callback'[u] = callback[u]
    BY <1>9, ShutdownDeleteMoves DEF ShutdownDelete, clrVars, history, Frame, Stays, Leaves
  <2>2. callback'[t].pc \in LoadSteps =>
           callback[t].pc \in LoadSteps /\ callback'[t].module = callback[t].module
    BY <1>9, ShutdownDeleteMoves DEF ShutdownDelete, At, Frame, Stays, Leaves, LoadSteps
  <2> QED
    BY <2>1, <2>2 DEF LoadersTracked
<1>10. ASSUME NEW t \in Thread, ShutdownEnd(t)
      PROVE  LoadersTracked'
  <2>1. UNCHANGED <<enqueued, loads>> /\ \A u \in Thread \ {t} : callback'[u] = callback[u]
    BY <1>10, ShutdownEndMoves DEF ShutdownEnd, clrVars, history, Frame, Stays, Leaves
  <2>2. callback'[t].pc \in LoadSteps =>
           callback[t].pc \in LoadSteps /\ callback'[t].module = callback[t].module
    BY <1>10, ShutdownEndMoves DEF ShutdownEnd, At, Frame, Stays, Leaves, LoadSteps
  <2> QED
    BY <2>1, <2>2 DEF LoadersTracked
<1>11. ASSUME NEW t \in Thread, RejitBegin(t)
      PROVE  LoadersTracked'
  <2>1. UNCHANGED <<enqueued, loads>>
    BY <1>11 DEF RejitBegin, history
  <2>2. CASE callback' = callback
    BY <2>1, <2>2 DEF LoadersTracked
  <2>3. CASE \E k, x : Frame(t, "find", k, x, 0)
    BY <2>1, <2>3 DEF Frame, LoadersTracked, LoadSteps
  <2> QED
    BY <1>11, <2>2, <2>3, RejitBeginMoves
<1>12. ASSUME NEW t \in Thread, RejitFind(t)
      PROVE  LoadersTracked'
  <2>1. UNCHANGED <<enqueued, loads>> /\ \A u \in Thread \ {t} : callback'[u] = callback[u]
    BY <1>12, RejitFindMoves DEF RejitFind, clrVars, history, Frame, Stays, Leaves
  <2>2. callback'[t].pc \in LoadSteps =>
           callback[t].pc \in LoadSteps /\ callback'[t].module = callback[t].module
    BY <1>12, RejitFindMoves DEF RejitFind, At, Frame, Stays, Leaves, LoadSteps
  <2> QED
    BY <2>1, <2>2 DEF LoadersTracked
<1>13. ASSUME NEW t \in Thread, RejitNotify(t)
      PROVE  LoadersTracked'
  <2>1. UNCHANGED <<enqueued, loads>> /\ \A u \in Thread \ {t} : callback'[u] = callback[u]
    BY <1>13, RejitNotifyMoves DEF RejitNotify, clrVars, Frame, Stays, Leaves
  <2>2. callback'[t].pc \in LoadSteps =>
           callback[t].pc \in LoadSteps /\ callback'[t].module = callback[t].module
    BY <1>13, RejitNotifyMoves DEF RejitNotify, At, Frame, Stays, Leaves, LoadSteps
  <2> QED
    BY <2>1, <2>2 DEF LoadersTracked
<1>14. ASSUME NEW t \in Thread, RejitRewrite(t)
      PROVE  LoadersTracked'
  <2>1. UNCHANGED <<enqueued, loads>> /\ \A u \in Thread \ {t} : callback'[u] = callback[u]
    BY <1>14, RejitRewriteMoves DEF RejitRewrite, clrVars, Frame, Stays, Leaves
  <2>2. callback'[t].pc \in LoadSteps =>
           callback[t].pc \in LoadSteps /\ callback'[t].module = callback[t].module
    BY <1>14, RejitRewriteMoves DEF RejitRewrite, At, Frame, Stays, Leaves, LoadSteps
  <2> QED
    BY <2>1, <2>2 DEF LoadersTracked
<1>15. ASSUME NEW t \in Thread, NEW m \in Module, JitBegin(t, m)
      PROVE  LoadersTracked'
  <2>1. UNCHANGED <<enqueued, loads>> /\ \A u \in Thread \ {t} : callback'[u] = callback[u]
    BY <1>15, JitBeginMoves DEF JitBegin, clrVars, history, Frame, Stays, Leaves
  <2>2. callback'[t].pc \in LoadSteps =>
           callback[t].pc \in LoadSteps /\ callback'[t].module = callback[t].module
    BY <1>15, JitBeginMoves DEF JitBegin, At, Frame, Stays, Leaves, LoadSteps
  <2> QED
    BY <2>1, <2>2 DEF LoadersTracked
<1>16. ASSUME NEW t \in Thread, JitFind(t)
      PROVE  LoadersTracked'
  <2>1. UNCHANGED <<enqueued, loads>> /\ \A u \in Thread \ {t} : callback'[u] = callback[u]
    BY <1>16, JitFindMoves DEF JitFind, clrVars, history, Frame, Stays, Leaves
  <2>2. callback'[t].pc \in LoadSteps =>
           callback[t].pc \in LoadSteps /\ callback'[t].module = callback[t].module
    BY <1>16, JitFindMoves DEF JitFind, At, Frame, Stays, Leaves, LoadSteps
  <2> QED
    BY <2>1, <2>2 DEF LoadersTracked
<1>17. ASSUME NEW t \in Thread, JitHook(t)
      PROVE  LoadersTracked'
  <2>1. UNCHANGED <<enqueued, loads>> /\ \A u \in Thread \ {t} : callback'[u] = callback[u]
    BY <1>17, JitHookMoves DEF JitHook, clrVars, Frame, Stays, Leaves
  <2>2. callback'[t].pc \in LoadSteps =>
           callback[t].pc \in LoadSteps /\ callback'[t].module = callback[t].module
    BY <1>17, JitHookMoves DEF JitHook, At, Frame, Stays, Leaves, LoadSteps
  <2> QED
    BY <2>1, <2>2 DEF LoadersTracked
<1>18. ASSUME NEW t \in Thread, NEW m \in Module, NEW x \in Method, InlineBegin(t, m, x)
      PROVE  LoadersTracked'
  <2>1. UNCHANGED <<enqueued, loads>> /\ \A u \in Thread \ {t} : callback'[u] = callback[u]
    BY <1>18, InlineBeginMoves DEF InlineBegin, clrVars, history, Frame, Stays, Leaves
  <2>2. callback'[t].pc \in LoadSteps =>
           callback[t].pc \in LoadSteps /\ callback'[t].module = callback[t].module
    BY <1>18, InlineBeginMoves DEF InlineBegin, At, Frame, Stays, Leaves, LoadSteps
  <2> QED
    BY <2>1, <2>2 DEF LoadersTracked
<1>19. ASSUME NEW t \in Thread, InlineLookup(t)
      PROVE  LoadersTracked'
  <2>1. UNCHANGED <<enqueued, loads>> /\ \A u \in Thread \ {t} : callback'[u] = callback[u]
    BY <1>19, InlineLookupMoves DEF InlineLookup, clrVars, Frame, Stays, Leaves
  <2>2. callback'[t].pc \in LoadSteps =>
           callback[t].pc \in LoadSteps /\ callback'[t].module = callback[t].module
    BY <1>19, InlineLookupMoves DEF InlineLookup, At, Frame, Stays, Leaves, LoadSteps
  <2> QED
    BY <2>1, <2>2 DEF LoadersTracked
<1>20. ASSUME NEW t \in Thread, InlineContains(t)
      PROVE  LoadersTracked'
  <2>1. UNCHANGED <<enqueued, loads>> /\ \A u \in Thread \ {t} : callback'[u] = callback[u]
    BY <1>20, InlineContainsMoves DEF InlineContains, clrVars, Frame, Stays, Leaves
  <2>2. callback'[t].pc \in LoadSteps =>
           callback[t].pc \in LoadSteps /\ callback'[t].module = callback[t].module
    BY <1>20, InlineContainsMoves DEF InlineContains, At, Frame, Stays, Leaves, LoadSteps
  <2> QED
    BY <2>1, <2>2 DEF LoadersTracked
<1>21. ASSUME NEW t \in Thread,
             \/ \E d \in AppDomain : ManagedProfilerLoaded(t, d)
      PROVE  LoadersTracked'
  BY <1>21
     DEF ManagedProfilerLoaded, rejitVars, history, LoadersTracked
<1>22. ASSUME TakeRequest PROVE LoadersTracked'
  BY <1>22
     DEF TakeRequest, PopItem, tables, profilerVars, clrVars, history,
         LoadersTracked
<1>23. ASSUME RequestReJIT PROVE LoadersTracked'
  BY <1>23
     DEF RequestReJIT, RequestDone, tables, profilerVars, LoadersTracked
<1> QED
  BY <1>1, <1>2, <1>3, <1>4, <1>5, <1>6, <1>7, <1>8, <1>9, <1>10, <1>11,
     <1>12, <1>13, <1>14, <1>15, <1>16, <1>17, <1>18, <1>19, <1>20, <1>21,
     <1>22, <1>23 DEF Next, Call, Continue, RejitThread

(* A request is told from the end item by its key. *)
LEMMA ItemKeys ==
  ASSUME Typed, NEW item \in Item
  PROVE  KeyOf(item) \in Module \X Load <=> item # EndRejitThread
BY RejitAssumption DEF Item, Request, KeyOf, EndRejitThread, Load

(* An item that is appended is tracked, and tracks nothing else.            *)
LEMMA QueueAppend ==
  ASSUME Typed, NEW item \in Item, queue' = Append(queue, item)
  PROVE  /\ Len(queue) \in Nat
         /\ Len(queue') = Len(queue) + 1
         /\ queue'[Len(queue) + 1] = item
         /\ \A i \in 1 .. Len(queue) : queue'[i] = queue[i] /\ queue[i] \in Item
BY AppendProperties, ElementOfSeq DEF Typed, TypeOK, RejitTypeOK

LEMMA QueueTail ==
  ASSUME Typed, queue # <<>>, queue' = Tail(queue)
  PROVE  /\ Len(queue) \in Nat /\ Len(queue) > 0
         /\ Head(queue) = queue[1]
         /\ Len(queue') = Len(queue) - 1
         /\ \A i \in 1 .. Len(queue) : queue[i] \in Item
         /\ \A i \in 1 .. Len(queue') : queue'[i] = queue[i + 1] /\ i + 1 \in 1 .. Len(queue)
BY HeadTailProperties, LenProperties, ElementOfSeq, EmptySeq DEF Typed, TypeOK, RejitTypeOK

(* A request moves from a loader to the queue, the ReJIT thread and the CLR. *)
LEMMA QueueTrackedStep ==
  ASSUME Typed, LockHeld, EndsQueue, LoadersTracked, QueueTracked, Next
  PROVE  QueueTracked'
<1>1. ASSUME NEW t \in Thread, LoadEnqueue(t)
      PROVE  QueueTracked'
  <2> DEFINE m == callback[t].module
             r == [module |-> m, load |-> loads[m], methods |-> targets[m][loads[m]]]
  <2>1. /\ callback[t].pc = "register" /\ m \in Module /\ loads[m] \in Load
        /\ targets[m][loads[m]] \subseteq Method /\ UNCHANGED <<popped, rejitThread, requested>>
    BY <1>1, FrameFacts DEF LoadEnqueue, At, Resting
  <2>2. CASE UNCHANGED <<queue, enqueued>>
    BY <2>1, <2>2 DEF InHand, QueueTracked
  <2>3. CASE queue' = Append(queue, r) /\ enqueued' = enqueued \cup {KeyOf(r)}
    <3>1. r \in Item /\ KeyOf(r) = <<m, loads[m]>>
      BY <2>1 DEF Item, Request, Load, KeyOf
    <3>2. KeyOf(r) \notin enqueued
      BY <2>1, <3>1 DEF LoadersTracked, LoadSteps
    <3>3. \A i \in 1 .. Len(queue) : queue[i] # EndRejitThread
      BY <2>1, OwnerStep DEF LockSteps, EndsQueue
    <3> HIDE DEF r
    <3>4. /\ Len(queue) \in Nat /\ Len(queue') = Len(queue) + 1
          /\ queue'[Len(queue) + 1] = r
          /\ \A i \in 1 .. Len(queue) : queue'[i] = queue[i] /\ queue[i] \in Item
      BY <2>3, <3>1, QueueAppend
    <3>5. \A i \in 1 .. Len(queue) : KeyOf(queue[i]) \in enqueued
      BY <3>3 DEF QueueTracked
    <3>6. \A k : InHand(k)' <=> InHand(k)
      BY <2>1 DEF InHand
    <3>7. ~InHand(KeyOf(r)) /\ KeyOf(r) \notin requested
      BY <3>2 DEF InHand, KeyOf, QueueTracked
    <3>8. \A i, j \in 1 .. Len(queue') : KeyOf(queue'[i]) = KeyOf(queue'[j]) => i = j
      BY <3>2, <3>4, <3>5 DEF QueueTracked
    <3>9. \A i \in 1 .. Len(queue') : i = Len(queue) + 1 \/ i \in 1 .. Len(queue)
      BY <3>4
    <3>10. ASSUME NEW i \in 1 .. Len(queue'), queue'[i] # EndRejitThread
           PROVE  /\ KeyOf(queue'[i]) \in enqueued' \ requested'
                  /\ ~(rejitThread' = "request" /\ KeyOf(popped') = KeyOf(queue'[i]))
      <4>1. CASE i = Len(queue) + 1
        BY <2>1, <2>3, <3>4, <3>7, <4>1 DEF InHand, KeyOf
      <4>2. CASE i \in 1 .. Len(queue)
        <5>1. KeyOf(queue[i]) \in enqueued \ requested /\ ~InHand(KeyOf(queue[i]))
          BY <3>3, <4>2 DEF QueueTracked
        <5> QED
          BY <2>1, <2>3, <3>4, <4>2, <5>1 DEF InHand, KeyOf
      <4> QED
        BY <3>9, <4>1, <4>2
    <3>11. ASSUME NEW k \in enqueued'
           PROVE  k \in requested \/ InHand(k) \/ \E i \in 1 .. Len(queue') : KeyOf(queue'[i]) = k
      <4>1. Len(queue) + 1 \in 1 .. Len(queue') /\ \A i \in 1 .. Len(queue) : i \in 1 .. Len(queue')
        BY <3>4
      <4>2. CASE k = KeyOf(r)
        BY <3>4, <4>1, <4>2
      <4>3. CASE k \in enqueued
        BY <3>4, <4>1, <4>3 DEF QueueTracked
      <4> QED
        BY <2>3, <4>2, <4>3
    <3> QED
      <4>1. rejitThread' = "request" => KeyOf(popped') \in enqueued' \ requested'
        BY <2>1, <2>3 DEF QueueTracked
      <4>2. requested' \subseteq enqueued'
        BY <2>1, <2>3 DEF QueueTracked
      <4>3. \A k : InHand(k) => rejitThread' = "request" /\ KeyOf(popped') = k
        BY <2>1 DEF InHand, KeyOf
      <4>4. /\ KeyOf(popped') = <<popped'.module, popped'.load>>
            /\ \A k \in enqueued' : \/ k \in requested'
                                    \/ rejitThread' = "request" /\ KeyOf(popped') = k
                                    \/ \E i \in 1 .. Len(queue') : KeyOf(queue'[i]) = k
        BY <2>1, <3>11, <4>3 DEF KeyOf
      <4> QED
        BY <3>8, <3>10, <4>1, <4>2, <4>4 DEF QueueTracked, InHand
  <2> QED
    BY <1>1, <2>2, <2>3 DEF LoadEnqueue, Push, KeyOf
<1>2. ASSUME NEW t \in Thread, ShutdownBegin(t)
      PROVE  QueueTracked'
  <2>1. /\ UNCHANGED <<popped, rejitThread, enqueued, requested>> /\ lock = NoThread
        /\ queue' = Append(queue, EndRejitThread)
    BY <1>2 DEF ShutdownBegin, Push, history
  <2>2. /\ EndRejitThread \in Item /\ KeyOf(EndRejitThread) \notin Module \X Load
    BY ItemKeys DEF Item
  <2>3. \A i \in 1 .. Len(queue) : queue[i] # EndRejitThread
    BY <2>1, FreeLock DEF EndsQueue
  <2>4. /\ Len(queue) \in Nat /\ Len(queue') = Len(queue) + 1
        /\ queue'[Len(queue) + 1] = EndRejitThread
        /\ \A i \in 1 .. Len(queue) : queue'[i] = queue[i] /\ queue[i] \in Item
    BY <2>1, <2>2, QueueAppend
  <2>5. \A i \in 1 .. Len(queue) : KeyOf(queue[i]) # KeyOf(EndRejitThread)
    BY <2>2, <2>3, <2>4, ItemKeys
  <2>6. \A r : InHand(r)' <=> InHand(r)
    BY <2>1 DEF InHand
  <2>7. \A i, j \in 1 .. Len(queue') : KeyOf(queue'[i]) = KeyOf(queue'[j]) => i = j
    BY <2>4, <2>5 DEF QueueTracked
  <2>8. \A i \in 1 .. Len(queue') : queue'[i] # EndRejitThread => i \in 1 .. Len(queue)
    BY <2>4
  <2>9. \A i \in 1 .. Len(queue) : i \in 1 .. Len(queue')
    BY <2>4
  <2> QED
    <3>1. \A i \in 1 .. Len(queue') :
             queue'[i] # EndRejitThread =>
                /\ KeyOf(queue'[i]) \in enqueued \ requested
                /\ ~(rejitThread = "request" /\ KeyOf(popped) = KeyOf(queue'[i]))
      BY <2>4, <2>8 DEF QueueTracked, InHand, KeyOf
    <3>2. \A k \in enqueued : \/ k \in requested
                              \/ rejitThread = "request" /\ KeyOf(popped) = k
                              \/ \E i \in 1 .. Len(queue') : KeyOf(queue'[i]) = k
      BY <2>4, <2>9 DEF QueueTracked, InHand, KeyOf
    <3>3. KeyOf(popped) = <<popped.module, popped.load>>
      BY DEF KeyOf
    <3>4. /\ rejitThread = "request" => KeyOf(popped) \in enqueued \ requested
          /\ requested \subseteq enqueued
      BY DEF QueueTracked
    <3> QED
      BY <2>1, <2>7, <3>1, <3>2, <3>3, <3>4 DEF QueueTracked, InHand
<1>3. ASSUME TakeRequest PROVE QueueTracked'
  <2>1. /\ queue # <<>> /\ queue' = Tail(queue) /\ popped' = Head(queue)
        /\ UNCHANGED <<enqueued, requested>> /\ rejitThread = "pop"
        /\ rejitThread' = IF Head(queue) = EndRejitThread THEN "exited" ELSE "request"
    BY <1>3 DEF TakeRequest, PopItem, history
  <2>2. /\ Len(queue) \in Nat /\ Len(queue) > 0 /\ Head(queue) = queue[1]
        /\ Len(queue') = Len(queue) - 1
        /\ \A i \in 1 .. Len(queue) : queue[i] \in Item
        /\ \A i \in 1 .. Len(queue') : queue'[i] = queue[i + 1] /\ i + 1 \in 1 .. Len(queue)
    BY <2>1, QueueTail
  <2>3. /\ \A r : ~InHand(r)
        /\ \A r : InHand(r)' <=> queue[1] # EndRejitThread /\ r = KeyOf(queue[1])
    BY <2>1, <2>2 DEF InHand, KeyOf
  <2>4. 1 \in 1 .. Len(queue)
    BY <2>2
  <2>5. \A i, j \in 1 .. Len(queue') : KeyOf(queue'[i]) = KeyOf(queue'[j]) => i = j
    <3> SUFFICES ASSUME NEW i \in 1 .. Len(queue'), NEW j \in 1 .. Len(queue'),
                        KeyOf(queue'[i]) = KeyOf(queue'[j])
                 PROVE  i = j
      OBVIOUS
    <3>1. i + 1 = j + 1
      BY <2>2 DEF QueueTracked
    <3> QED
      BY <2>2, <3>1
  <2>6. \A i \in 1 .. Len(queue') :
           queue'[i] # EndRejitThread =>
              /\ KeyOf(queue'[i]) \in enqueued' \ requested'
              /\ KeyOf(popped') # KeyOf(queue'[i])
    <3> SUFFICES ASSUME NEW i \in 1 .. Len(queue'), queue'[i] # EndRejitThread
                 PROVE  /\ KeyOf(queue'[i]) \in enqueued' \ requested'
                        /\ KeyOf(popped') # KeyOf(queue'[i])
      OBVIOUS
    <3>1. /\ queue'[i] = queue[i + 1] /\ i + 1 \in 1 .. Len(queue) /\ i + 1 # 1
      BY <2>2
    <3>2. KeyOf(queue[i + 1]) \in enqueued \ requested /\ KeyOf(queue[i + 1]) # KeyOf(queue[1])
      BY <2>4, <3>1 DEF QueueTracked
    <3> QED
      BY <2>1, <2>2, <3>1, <3>2
  <2>7. rejitThread' = "request" => KeyOf(popped') \in enqueued' \ requested'
    BY <2>1, <2>2, <2>4 DEF QueueTracked
  <2>8. ASSUME NEW r \in enqueued
        PROVE  r \in requested \/ InHand(r)' \/ \E i \in 1 .. Len(queue') : KeyOf(queue'[i]) = r
    <3>1. CASE r \in requested
      BY <3>1
    <3>2. ASSUME NEW i \in 1 .. Len(queue), KeyOf(queue[i]) = r
          PROVE  InHand(r)' \/ \E k \in 1 .. Len(queue') : KeyOf(queue'[k]) = r
      <4>1. CASE i = 1
        <5>1. queue[1] # EndRejitThread
          BY <2>2, <2>4, <3>2, <4>1, ItemKeys DEF Typed, TypeOK, HistoryTypeOK
        <5> QED
          BY <2>3, <3>2, <4>1, <5>1
      <4>2. CASE i # 1
        <5>1. i - 1 \in 1 .. Len(queue') /\ (i - 1) + 1 = i
          BY <2>2, <4>2
        <5>2. queue'[i - 1] = queue[i]
          BY <2>2, <5>1
        <5> QED
          BY <3>2, <5>1, <5>2
      <4> QED
        BY <4>1, <4>2
    <3> QED
      BY <2>3, <3>1, <3>2 DEF QueueTracked
  <2>9. requested' \subseteq enqueued'
    BY <2>1 DEF QueueTracked
  <2> QED
    <3>1. /\ KeyOf(popped') = <<popped'.module, popped'.load>>
          /\ \A k \in enqueued' : \/ k \in requested'
                                  \/ rejitThread' = "request" /\ KeyOf(popped') = k
                                  \/ \E i \in 1 .. Len(queue') : KeyOf(queue'[i]) = k
      BY <2>1, <2>8 DEF KeyOf, InHand
    <3> QED
      BY <2>5, <2>6, <2>7, <2>9, <3>1 DEF QueueTracked, InHand
<1>4. ASSUME RequestReJIT PROVE QueueTracked'
  <2>1. /\ UNCHANGED <<queue, popped, enqueued>> /\ rejitThread = "request"
        /\ rejitThread' = "pop" /\ requested' = requested \cup {KeyOf(popped)}
    BY <1>4 DEF RequestReJIT, RequestDone, KeyOf
  <2>2. InHand(KeyOf(popped)) /\ \A r : InHand(r) => r = KeyOf(popped)
    BY <2>1 DEF InHand, KeyOf
  <2>3. \A r : ~InHand(r)'
    BY <2>1 DEF InHand
  <2> QED
    BY <2>1, <2>2, <2>3 DEF QueueTracked
<1>5. ASSUME NEW t \in Thread,
             \/ LoadLocked(t) \/ LoadRegister(t) \/ UnloadLocked(t)
             \/ ShutdownJoin(t) \/ ShutdownDelete(t) \/ ShutdownEnd(t)
             \/ RejitBegin(t) \/ RejitFind(t) \/ RejitNotify(t)
             \/ RejitRewrite(t) \/ JitFind(t) \/ JitHook(t)
             \/ InlineLookup(t) \/ InlineContains(t)
             \/ \E m \in Module : LoadBegin(t, m) \/ UnloadBegin(t, m) \/ JitBegin(t, m)
             \/ \E d \in AppDomain : ManagedProfilerLoaded(t, d)
             \/ \E m \in Module, x \in Method : InlineBegin(t, m, x)
      PROVE  QueueTracked'
  BY <1>5
     DEF LoadBegin, rejitVars, profilerVars, history, LoadLocked,
         LoadRegister, tables, clrVars, UnloadBegin, UnloadLocked,
         ManagedProfilerLoaded, ShutdownJoin, ShutdownDelete, DeleteHandler,
         ShutdownEnd, RejitBegin, RejitFind, RejitNotify, RejitRewrite,
         JitBegin, JitFind, JitHook, InlineBegin, InlineLookup,
         InlineContains, InHand, QueueTracked
<1> QED
  BY <1>1, <1>2, <1>3, <1>4, <1>5 DEF Next, Call, Continue, RejitThread

-----------------------------------------------------------------------------

(* In the initial states nobody is in a callback and there is nothing yet.   *)
LEMMA InitInv == Init => IInv
<1> SUFFICES ASSUME Init PROVE IInv
  OBVIOUS
<1>1. Typed
  BY InitTyped
<1> USE DEF Init, RejitInit
<1>2. \A t \in Thread : callback[t].pc = "idle"
  BY DEF Idle
<1>3. \A s : ~ShuttingDown(s)
  BY FreeLock
<1>4. LockHeld
  BY <1>2, ProfilerAssumption DEF LockHeld, LockSteps
<1>5. Lives /\ EndsQueue
  BY <1>3 DEF Lives, EndsQueue
<1>6. QueueTracked /\ LoadersTracked
  BY <1>2 DEF QueueTracked, LoadersTracked, LoadSteps
<1>7. InfoKept
  BY <1>2 DEF InfoKept, InfoFrame
<1>8. TodoMatched /\ DescribedMatched /\ RewrittenMatched
  BY <1>2 DEF TodoMatched, DescribedMatched, RewrittenMatched
<1>9. MethodsOfModules /\ TargetsKnown /\ InlinedLoaded /\ TargetsNotInlined
  BY <1>2 DEF MethodsOfModules, TargetsKnown, HandlerFrame, InlinedLoaded, TargetsNotInlined
<1>10. LockProtects /\ HookMarked
  BY <1>2 DEF LockProtects, HookMarked
<1> QED
  BY <1>1, <1>4, <1>5, <1>6, <1>7, <1>8, <1>9, <1>10
     DEF IInv, Serialized, RequestsTracked, DescribedAsMatched, TargetsFound

(* A step that changes nothing keeps every part.                             *)
LEMMA StutterInv ==
  ASSUME IInv, UNCHANGED vars
  PROVE  IInv'
<1> USE DEF vars, rejitVars, profilerVars, clrVars, history, tables
<1>1. Typed'
  BY NextTyped DEF IInv
<1>2. \A s : ShuttingDown(s)' <=> ShuttingDown(s)
  BY DEF ShuttingDown
<1>3. Serialized'
  BY <1>2 DEF IInv, Serialized, LockHeld, Lives, EndsQueue
<1>4. RequestsTracked'
  BY DEF IInv, RequestsTracked, QueueTracked, LoadersTracked, InHand
<1>5. InfoKept' /\ DescribedAsMatched'
  BY DEF IInv, InfoKept, InfoFrame, DescribedAsMatched, TodoMatched,
         DescribedMatched, RewrittenMatched
<1>6. TargetsFound'
  BY DEF IInv, TargetsFound, MethodsOfModules, TargetsKnown, HandlerFrame,
         InlinedLoaded, TargetsNotInlined
<1>7. LockProtects' /\ HookMarked'
  BY DEF IInv, LockProtects, HookMarked
<1> QED
  BY <1>1, <1>3, <1>4, <1>5, <1>6, <1>7 DEF IInv

(* Every step of the CLR's threads and of the ReJIT thread keeps every part. *)
LEMMA NextInv ==
  ASSUME IInv, [Next]_vars
  PROVE  IInv'
<1>1. CASE Next
  <2> USE DEF IInv, Serialized, RequestsTracked, DescribedAsMatched, TargetsFound
  <2>1. Typed' /\ LockHeld' /\ Lives' /\ EndsQueue'
    BY <1>1, NextTyped, LockHeldStep, LivesStep, EndsQueueStep
  <2>2. QueueTracked' /\ LoadersTracked'
    BY <1>1, QueueTrackedStep, LoadersTrackedStep
  <2>3. InfoKept' /\ TodoMatched' /\ DescribedMatched' /\ RewrittenMatched'
    BY <1>1, InfoKeptStep, TodoMatchedStep, DescribedMatchedStep, RewrittenMatchedStep
  <2>4. MethodsOfModules' /\ TargetsKnown' /\ InlinedLoaded' /\ TargetsNotInlined'
    BY <1>1, MethodsOfModulesStep, TargetsKnownStep, InliningStep DEF Inlining
  <2>5. LockProtects' /\ HookMarked'
    BY <1>1, LockProtectsStep, HookMarkedStep
  <2> QED
    BY <2>1, <2>2, <2>3, <2>4, <2>5
<1>2. CASE UNCHANGED vars
  BY <1>2, StutterInv
<1> QED
  BY <1>1, <1>2

LEMMA Invariance == Spec => []IInv
BY InitInv, NextInv, PTL DEF Spec

-----------------------------------------------------------------------------

(* Where a request is, by positions: at most one of the queue.               *)
LEMMA PlacesOf ==
  ASSUME IInv, NEW r \in enqueued
  PROVE  /\ (\E i \in 1 .. Len(queue) : KeyOf(queue[i]) = r)
               => /\ Cardinality(QueuePlaces(r)) = 1
                  /\ ~InHand(r) /\ r \notin requested
         /\ ~(\E i \in 1 .. Len(queue) : KeyOf(queue[i]) = r) => QueuePlaces(r) = {}
         /\ InHand(r) => r \notin requested
<1>1. QueueTracked /\ Typed
  BY DEF IInv, RequestsTracked
<1>2. r \in Module \X Load
  BY <1>1 DEF Typed, TypeOK, HistoryTypeOK
<1>3. /\ DOMAIN queue = 1 .. Len(queue)
      /\ \A i \in 1 .. Len(queue) : queue[i] \in Item
  BY <1>1, ElementOfSeq, LenProperties DEF Typed, TypeOK, RejitTypeOK
<1>4. QueuePlaces(r) = {i \in 1 .. Len(queue) : KeyOf(queue[i]) = r}
  BY <1>3 DEF QueuePlaces, KeyOf
<1>5. ASSUME NEW i \in 1 .. Len(queue), KeyOf(queue[i]) = r
      PROVE  Cardinality(QueuePlaces(r)) = 1 /\ ~InHand(r) /\ r \notin requested
  <2>1. queue[i] # EndRejitThread
    BY <1>1, <1>2, <1>3, <1>5, ItemKeys
  <2>2. QueuePlaces(r) = {i}
    BY <1>1, <1>4, <1>5 DEF QueueTracked
  <2> QED
    BY <1>1, <1>5, <2>1, <2>2, FS_Singleton DEF QueueTracked
<1>6. InHand(r) => r \notin requested
  BY <1>1 DEF QueueTracked, InHand, KeyOf
<1> QED
  BY <1>4, <1>5, <1>6

(* The methods EnqueueForRejit was given are in exactly one place: once in   *)
(* m_rejit_queue, with the ReJIT thread, or requested of the CLR.            *)
THEOREM RequestsInOnePlace == Spec => []RequestedOnce
<1>1. IInv => RequestedOnce
  <2> SUFFICES ASSUME IInv, NEW r \in enqueued
               PROVE  \/ Cardinality(QueuePlaces(r)) = 1 /\ ~InHand(r) /\ r \notin requested
                      \/ QueuePlaces(r) = {} /\ InHand(r) /\ r \notin requested
                      \/ QueuePlaces(r) = {} /\ ~InHand(r) /\ r \in requested
    BY DEF RequestedOnce
  <2>1. \/ r \in requested \/ InHand(r)
        \/ \E i \in 1 .. Len(queue) : KeyOf(queue[i]) = r
    BY DEF IInv, RequestsTracked, QueueTracked
  <2> QED
    BY <2>1, PlacesOf
<1> QED
  BY <1>1, Invariance, PTL

(* When Shutdown deletes the handler, the ReJIT thread has ended and every   *)
(* request that was made of it has been passed on to the CLR.                *)
THEOREM DrainedByShutdown == Spec => []ShutdownDrains
<1>1. IInv => ShutdownDrains
  <2> SUFFICES ASSUME IInv, rejitHandler = "deleted"
               PROVE  rejitThread = "exited" /\ queue = <<>> /\ enqueued \subseteq requested
    BY DEF ShutdownDrains
  <2>1. rejitThread = "exited" /\ queue = <<>>
    BY DEF IInv, Serialized, Lives, EndsQueue
  <2>2. \A i \in 1 .. Len(queue) : FALSE
    BY <2>1
  <2>3. \A r : ~InHand(r)
    BY <2>1 DEF InHand
  <2> QED
    BY <2>1, <2>2, <2>3 DEF IInv, RequestsTracked, QueueTracked
<1> QED
  BY <1>1, Invariance, PTL

(* A rewrite uses the integration its method was registered with, for the    *)
(* load of the module whose metadata it was given, however late the request. *)
THEOREM RewritesMatch == Spec => []RewrittenAsRegistered
<1>1. IInv => RewrittenAsRegistered
  BY DEF IInv, DescribedAsMatched, RewrittenMatched, RewrittenAsRegistered
<1> QED
  BY <1>1, Invariance, PTL

(* JITInlining lets no target be inlined before Shutdown has ended the ReJIT *)
(* thread, though it takes no lock.                                          *)
THEOREM TargetsStayOut == Spec => []TargetsNotInlined
<1>1. IInv => TargetsNotInlined
  BY DEF IInv, TargetsFound
<1> QED
  BY <1>1, Invariance, PTL

(* The registration of a module's targets never meets a deleted handler, and *)
(* the other callbacks do only after Shutdown joined the ReJIT thread.       *)
THEOREM FreedNotUsed == Spec => []LockProtects
<1>1. IInv => LockProtects
  BY DEF IInv
<1> QED
  BY <1>1, Invariance, PTL

(* JitHook is the only step that inserts a hook. *)
LEMMA OnlyHookInserts ==
  ASSUME Next
  PROVE  hooks' = hooks \/ \E t \in Thread : JitHook(t)
<1>1. CASE RejitThread
  BY <1>1 DEF RejitThread, TakeRequest, RequestReJIT, history
<1>2. ASSUME NEW t \in Thread, Call(t) PROVE hooks' = hooks
  BY <1>2 DEF Call, LoadBegin, UnloadBegin, JitBegin, ManagedProfilerLoaded, InlineBegin,
              ShutdownBegin, RejitBegin, history
<1>3. ASSUME NEW t \in Thread, Continue(t) PROVE hooks' = hooks \/ JitHook(t)
  BY <1>3 DEF Continue, LoadLocked, LoadRegister, LoadEnqueue, UnloadLocked, ShutdownJoin,
              ShutdownDelete, ShutdownEnd, RejitFind, RejitNotify, RejitRewrite, JitFind,
              InlineLookup, InlineContains, history
<1> QED
  BY <1>1, <1>2, <1>3 DEF Next

(* JITCompilationStarted inserts the startup hook once in a domain, and not  *)
(* after ModuleLoadFinished has announced the managed loader there.          *)
THEOREM HookInsertedOnce == Spec => HookedOnce
<1> DEFINE First(d) == hooks'[d] # hooks[d] => hooks[d] = 0 /\ d \notin loaderIn
<1>1. ASSUME IInv, Next, NEW d \in AppDomain PROVE First(d)
  <2>1. CASE hooks' = hooks
    BY <2>1
  <2>2. ASSUME NEW t \in Thread, JitHook(t) PROVE First(d)
    <3> DEFINE h == DomainOf[callback[t].module]
    <3>1. h \notin firstJit
      BY <2>2, <1>1 DEF JitHook, At, IInv, HookMarked
    <3>2. hooks \in [AppDomain -> Nat] /\ hooks[d] <= IF d \in firstJit THEN 1 ELSE 0
      BY <1>1 DEF IInv, Typed, TypeOK, HistoryTypeOK, HookMarked
    <3>3. loaderIn \subseteq firstJit
      BY <1>1 DEF IInv, HookMarked
    <3>4. hooks' = [hooks EXCEPT ![h] = @ + 1]
      BY <2>2 DEF JitHook
    <3> HIDE DEF h
    <3>5. CASE d = h
      BY <3>1, <3>2, <3>3, <3>5
    <3>6. CASE d # h
      BY <3>2, <3>4, <3>6
    <3> QED
      BY <3>5, <3>6
  <2> HIDE DEF First
  <2> QED
    BY <1>1, <2>1, <2>2, OnlyHookInserts
<1>2. IInv /\ [Next]_vars => [\A d \in AppDomain : First(d)]_vars
  <2> HIDE DEF First
  <2> QED
    BY <1>1
<1> QED
  BY <1>2, Invariance, PTL DEF Spec, HookedOnce
=============================================================================
