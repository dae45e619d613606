----------------------------- MODULE CallTarget -----------------------------
(***************************************************************************)
(* What runs around an instrumented method: CallTargetInvoker with the     *)
(* begin and end handlers, the continuations of the tasks it returns, and  *)
(* the application's own scopes (src/Datadog.Trace.ClrProfiler.Managed).   *)
(*                                                                         *)
(* An integration opens at most one scope in OnMethodBegin and closes it   *)
(* in its end hook: OnMethodEnd of a method that returns a value or void,  *)
(* OnAsyncMethodEnd of one that returns a task.  The application opens its *)
(* scopes in using blocks.  A call or a block names the scope it opens.    *)
(*                                                                         *)
(* The application is external: its flows nest blocks and calls, fork, and *)
(* end their tasks as they please.  The calls are those of one integration *)
(* and one target type, which share IntegrationOptions.                    *)
(***************************************************************************)
EXTENDS ScopeManager

CONSTANTS
    Call,   \* calls of instrumented methods, each made once
    Block   \* using blocks of the application, each entered once

ASSUME CallAssumption ==
    /\ Scope = Call \cup Block
    /\ Call \cap Block = {}

VARIABLES
    started,      \* flows that run
    stack,        \* the calls and blocks each flow is in, innermost last
    kind,         \* what a method returns; "block" for a block; "new" before
    state,        \* the CallTargetState each call's BeginMethod returned
    disabled,     \* _disableIntegration
    continuation, \* calls whose continuation waits for the method's task
    task,         \* how the method's own task stands
    awaited,      \* how the task the caller was given ends
    inherited,    \* history: the scope a flow was started in
    threw,        \* history: calls one of whose hooks threw
    upset         \* history: flows a failing hook has left a scope in

callVars == <<started, stack, kind, state, disabled, continuation, task, awaited>>
history == <<inherited, threw, upset>>
vars == <<scopeVars, callVars, history>>

\* TReturn: no task at all, or which continuation generator it gets.
Kind == {"value", "Task", "TaskOfResult", "ValueTask"}

\* CallTargetState.GetDefault()
DefaultState == [previous |-> NoScope, scope |-> NoScope]

Init ==
    /\ ScopeInit
    /\ started = {}
    /\ stack = [f \in Flow |-> <<>>]
    /\ kind = [x \in Scope |-> "new"]
    /\ state = [c \in Call |-> DefaultState]
    /\ disabled = FALSE
    /\ continuation = {}
    /\ task = [c \in Call |-> "none"]
    /\ awaited = [c \in Call |-> "none"]
    /\ inherited = [f \in Flow |-> NoScope]
    /\ threw = {}
    /\ upset = {}

Push(f, x, k) ==
    /\ f \in started
    /\ kind[x] = "new"
    /\ kind' = [kind EXCEPT ![x] = k]
    /\ stack' = [stack EXCEPT ![f] = Append(@, x)]

Pop(f, x) ==
    /\ stack[f] # <<>> /\ stack[f][Len(stack[f])] = x
    /\ stack' = [stack EXCEPT ![f] = SubSeq(@, 1, Len(@) - 1)]

-----------------------------------------------------------------------------
(* The application                                                         *)

StartFlow(f) ==
    /\ f \notin started
    /\ started' = started \cup {f}
    /\ UNCHANGED <<scopeVars, stack, kind, state, disabled, continuation, task, awaited,
                   history>>

\* Task.Run, or the continuation of an await
Fork(f, g) ==
    /\ f \in started
    /\ g \notin started
    /\ started' = started \cup {g}
    /\ CopyContext(f, g)
    /\ inherited' = [inherited EXCEPT ![g] = active[f]]
    /\ upset' = IF f \in upset THEN upset \cup {g} ELSE upset
    /\ UNCHANGED <<stack, kind, state, disabled, continuation, task, awaited, threw>>

\* using (Tracer.Instance.StartActive(...)) {
EnterBlock(f, b) ==
    /\ Push(f, b, "block")
    /\ Activate(f, b)
    /\ UNCHANGED <<started, state, disabled, continuation, task, awaited, history>>

\* }
LeaveBlock(f, b) ==
    /\ Pop(f, b)
    /\ Close(f, b)
    /\ UNCHANGED <<started, kind, state, disabled, continuation, task, awaited, history>>

\* A flow closes the application's scope it was started in, whether or not the
\* flow that opened it has done so or will.
CloseInherited(f) ==
    /\ f \in started
    /\ stack[f] = <<>>
    /\ active[f] \in Block
    /\ Close(f, active[f])
    /\ inherited' = [inherited EXCEPT ![f] = parent[active[f]]]
    /\ UNCHANGED <<callVars, threw, upset>>

\* The method's own task ends.  A caller that was given that task sees it.
TaskEnds(c) ==
    /\ task[c] = "pending"
    /\ \E outcome \in {"ok", "fault", "cancelled"} :
          /\ task' = [task EXCEPT ![c] = outcome]
          /\ awaited' = IF c \in continuation THEN awaited
                        ELSE [awaited EXCEPT ![c] = outcome]
    /\ UNCHANGED <<scopeVars, started, stack, kind, state, disabled, continuation, history>>

-----------------------------------------------------------------------------
(* BeginMethod.  A handler reads the active scope before it calls           *)
(* OnMethodBegin; when that throws, the method runs with the default state. *)

\* The integration is disabled.
BeginSkipped(f, c) ==
    /\ disabled
    /\ UNCHANGED <<scopeVars, state, disabled, threw, upset>>

BeginOpens(f, c) ==
    /\ ~disabled
    /\ state' = [state EXCEPT ![c] = [previous |-> active[f], scope |-> c]]
    /\ Activate(f, c)
    /\ UNCHANGED <<disabled, threw, upset>>

\* OnMethodBegin has nothing to trace.
BeginOpensNothing(f, c) ==
    /\ ~disabled
    /\ state' = [state EXCEPT ![c] = [previous |-> active[f], scope |-> NoScope]]
    /\ UNCHANGED <<scopeVars, disabled, threw, upset>>

\* LogException disables the integration for two types of exception.  The hook
\* may have opened its scope before it threw.
BeginThrows(f, c) ==
    /\ ~disabled
    /\ threw' = threw \cup {c}
    /\ disabled' \in BOOLEAN
    /\ \/ UNCHANGED <<scopeVars, upset>>
       \/ Activate(f, c) /\ upset' = upset \cup {f}
    /\ UNCHANGED state

BeginMethod(f, c) ==
    /\ \E k \in Kind : Push(f, c, k)
    /\ BeginSkipped(f, c) \/ BeginOpens(f, c) \/ BeginOpensNothing(f, c) \/ BeginThrows(f, c)
    /\ UNCHANGED <<started, continuation, task, awaited, inherited>>

-----------------------------------------------------------------------------
(* EndMethod, once the method has returned, thrown, or returned a task that *)
(* has run to completion ("ok") or has not ("pending")                      *)

Result(c) == IF kind[c] = "value" THEN {"ok", "fault"} ELSE {"ok", "fault", "pending"}

\* The caller is given the method's own result.
ResultKept(c, r) ==
    /\ task' = [task EXCEPT ![c] = r]
    /\ awaited' = IF r = "pending" THEN awaited ELSE [awaited EXCEPT ![c] = r]

\* Variant: the caller goes on in the scope of the call.
Unrestored(f, c) == active[f]

\* "Restore previous scope if there is a continuation": what the caller goes
\* on with.
Restored(f, c) == state[c].previous

\* A restore from the default state leaves the caller without its scope.
Misled(f, c) == IF c \in threw THEN upset \cup {f} ELSE upset

EndSkipped(f, c, r) ==
    /\ disabled
    /\ ResultKept(c, r)
    /\ upset' = IF state[c].scope = NoScope THEN upset ELSE upset \cup {f}
    /\ UNCHANGED <<scopeVars, disabled, continuation, threw>>

\* OnMethodEnd, or OnAsyncMethodEnd in the flow of the caller
EndHook(f, c) ==
    IF state[c].scope = NoScope THEN UNCHANGED scopeVars ELSE Close(f, c)

EndValue(f, c, r) ==
    /\ ~disabled
    /\ kind[c] = "value"
    /\ ResultKept(c, r)
    /\ EndHook(f, c)
    /\ UNCHANGED <<disabled, continuation, threw, upset>>

\* SetContinuation calls OnAsyncMethodEnd at once: nothing is left to await.
InPlace(c, r) ==
    \/ kind[c] \in {"Task", "TaskOfResult"} /\ r # "pending"
    \/ kind[c] = "ValueTask" /\ r = "fault"

EndInPlace(f, c, r) ==
    /\ ~disabled
    /\ InPlace(c, r)
    /\ ResultKept(c, r)
    /\ active' = [active EXCEPT ![f] = Restored(f, c)]
    /\ IF state[c].scope = NoScope
       THEN UNCHANGED <<enricher, finished>>
       ELSE /\ enricher' = AfterTraceEnded(f, c)
            /\ finished' = finished \cup {c}
    /\ upset' = Misled(f, c)
    /\ UNCHANGED <<parent, disabled, continuation, threw>>

\* ContinueWith, or the async wrapper of a ValueTask: the rest runs in a copy
\* of the caller's context.
EndContinued(f, c, r) ==
    /\ ~disabled
    /\ kind[c] # "value" /\ ~InPlace(c, r)
    /\ task' = [task EXCEPT ![c] = r]
    /\ continuation' = continuation \cup {c}
    /\ active' = [active EXCEPT ![f] = Restored(f, c)]
    /\ upset' = Misled(f, c)
    /\ UNCHANGED <<enricher, parent, finished, awaited, disabled, threw>>

\* The hook throws, before or after it closes the scope; the exception leaves
\* EndMethod before the restore, and the method's own result is returned.
EndThrows(f, c, r) ==
    /\ ~disabled
    /\ kind[c] = "value" \/ InPlace(c, r)
    /\ ResultKept(c, r)
    /\ threw' = threw \cup {c}
    /\ disabled' \in BOOLEAN
    /\ \/ EndHook(f, c) /\ UNCHANGED upset
       \/ /\ upset' = IF state[c].scope = NoScope THEN upset ELSE upset \cup {f}
          /\ UNCHANGED scopeVars
    /\ UNCHANGED continuation

EndMethod(f, c) ==
    /\ Pop(f, c)
    /\ \E r \in Result(c) :
          \/ EndSkipped(f, c, r) \/ EndValue(f, c, r) \/ EndInPlace(f, c, r)
          \/ EndContinued(f, c, r) \/ EndThrows(f, c, r)
    /\ UNCHANGED <<started, kind, state, inherited>>

-----------------------------------------------------------------------------
(* The continuations.  What they change of the scopes is a copy's, except   *)
(* that the span is finished.                                               *)

\* The hook has closed its scope, or has thrown and been logged.
AsyncHook(c) ==
    \/ /\ finished' = finished \cup ({state[c].scope} \ {NoScope})
       /\ UNCHANGED <<disabled, threw>>
    \/ /\ threw' = threw \cup {c}
       /\ disabled' \in {disabled, TRUE}
       /\ UNCHANGED finished

NoHook == UNCHANGED <<finished, disabled, threw>>

Sees(c, outcome) == awaited' = [awaited EXCEPT ![c] = outcome]

\* Variant: the exception of the original task is not thrown again.
TaskSwallows(c) ==
    /\ kind[c] = "Task"
    /\ AsyncHook(c)
    /\ Sees(c, "ok")

\* TaskContinuationGenerator.ContinuationAction: a cancelled task has no
\* exception.
TaskContinues(c) ==
    /\ kind[c] = "Task"
    /\ AsyncHook(c)
    /\ Sees(c, IF task[c] = "fault" THEN "fault" ELSE "ok")

\* Variant: OnAsyncMethodEnd is called for a result only.
TaskOfResultDropsFaults(c) ==
    /\ kind[c] = "TaskOfResult"
    /\ \/ task[c] = "ok" /\ AsyncHook(c) /\ Sees(c, "ok")
       \/ task[c] # "ok" /\ NoHook /\ Sees(c, "fault")

\* TaskContinuationGenerator`1.ContinuationAction: the Result of a cancelled
\* task throws, before the hook is called and again after that was logged.
TaskOfResultContinues(c) ==
    /\ kind[c] = "TaskOfResult"
    /\ \/ task[c] \in {"ok", "fault"} /\ AsyncHook(c) /\ Sees(c, task[c])
       \/ task[c] = "cancelled" /\ NoHook /\ Sees(c, "fault")

\* InnerSetValueTaskContinuation, of ValueTask and of ValueTask<T>
ValueTaskContinues(c) ==
    /\ kind[c] = "ValueTask"
    /\ AsyncHook(c)
    /\ Sees(c, task[c])

Continue(c) ==
    /\ c \in continuation
    /\ task[c] # "pending"
    /\ continuation' = continuation \ {c}
    /\ TaskContinues(c) \/ TaskOfResultContinues(c) \/ ValueTaskContinues(c)
    /\ UNCHANGED <<active, enricher, parent, started, stack, kind, state, task,
                   inherited, upset>>

-----------------------------------------------------------------------------

Application ==
    \/ \E f \in Flow : StartFlow(f) \/ CloseInherited(f)
    \/ \E f, g \in Flow : Fork(f, g)
    \/ \E f \in Flow, b \in Block : EnterBlock(f, b) \/ LeaveBlock(f, b)
    \/ \E c \in Call : TaskEnds(c)

Next ==
    \/ Application
    \/ \E f \in Flow, c \in Call : BeginMethod(f, c) \/ EndMethod(f, c)
    \/ \E c \in Call : Continue(c)

Spec == Init /\ [][Next]_vars
=============================================================================
