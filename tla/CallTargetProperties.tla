------------------------ MODULE CallTargetProperties ------------------------
(***************************************************************************)
(* What instrumentation promises the application: its own scopes are as it *)
(* left them, its callers see what the methods did, and spans finish.      *)
(***************************************************************************)
EXTENDS CallTarget

(* Type correctness of scopes, calls and flows.                            *)
TypeOK ==
    /\ ScopeTypeOK
    /\ started \subseteq Flow
    /\ stack \in [Flow -> Seq(Scope)]
    /\ kind \in [Scope -> Kind \cup {"block", "new"}]
    /\ state \in [Call -> [previous : Scope \cup {NoScope}, scope : Scope \cup {NoScope}]]
    /\ disabled \in BOOLEAN
    /\ continuation \subseteq Call
    /\ task \in [Call -> {"none", "pending", "ok", "fault", "cancelled"}]
    /\ awaited \in [Call -> {"none", "ok", "fault", "cancelled"}]
    /\ inherited \in [Flow -> Scope \cup {NoScope}]
    /\ threw \subseteq Call
    /\ upset \subseteq Flow

HasScope(x) == kind[x] = "block" \/ (x \in Call /\ state[x].scope = x)

(* s is the scope of the innermost of the first n frames of f that has one, *)
(* or the scope f was started in.                                          *)
Under(f, n, s) ==
    \/ \E i \in 1..n :
          /\ stack[f][i] = s /\ HasScope(s)
          /\ \A j \in (i + 1)..n : ~HasScope(stack[f][j])
    \/ s = inherited[f] /\ \A i \in 1..n : ~HasScope(stack[f][i])

(* The application finds its context as it left it: whatever calls a flow  *)
(* has made, and wherever their tasks end, the active scope is that of the *)
(* innermost block or traced call it is in; and its logs are correlated    *)
(* while it has one.  Handlers restore the scope their begin read, which   *)
(* is right only if everything begun since has ended.                      *)
ContextKept ==
    \A f \in started \ upset :
        /\ Under(f, Len(stack[f]), active[f])
        /\ active[f] # NoScope => f \in enricher

(* The hook of a cancelled task is not told, or its caller is told wrongly. *)
CancellationLost(c) ==
    task[c] = "cancelled" /\ kind[c] \in {"Task", "TaskOfResult"}

(* A caller sees what the method did, although it awaits the task of a     *)
(* continuation and whatever the hooks do -- but for the cancellation of   *)
(* a Task or a Task<T>, which becomes a success or a fault.                *)
OutcomeKept ==
    \A c \in Call : awaited[c] \in {"none", task[c]} \/ CancellationLost(c)

(* The span of a traced call is finished before the caller sees what       *)
(* became of the call, unless a hook threw, the integration was disabled   *)
(* meanwhile, or a task was cancelled: a caller that goes on to finish the *)
(* trace does not leave the call's span out of it.                         *)
SpanFinishedFirst ==
    \A c \in Call :
        (state[c].scope = c /\ awaited[c] # "none") =>
            c \in finished \/ c \in threw \/ disabled \/ CancellationLost(c)

-----------------------------------------------------------------------------
(* What makes these invariants inductive                                   *)

OnStack(x) == \E f \in Flow : \E i \in 1..Len(stack[f]) : stack[f][i] = x

\* The handlers of a frame hold what is under it: the parent of its scope, and
\* the scope its begin read.
FrameKept(f, i) ==
    LET x == stack[f][i] IN
    /\ HasScope(x) => Under(f, i - 1, parent[x])
    /\ x \in Call => disabled \/ x \in threw \/ Under(f, i - 1, state[x].previous)

FlowKept(f) ==
    /\ Under(f, Len(stack[f]), active[f])
    /\ active[f] # NoScope => f \in enricher
    /\ \A i \in 1..Len(stack[f]) : FrameKept(f, i)

\* A call or a block is in one place, once.
OncePushed ==
    /\ \A f, g \in Flow : \A i \in 1..Len(stack[f]), j \in 1..Len(stack[g]) :
          stack[f][i] = stack[g][j] => f = g /\ i = j
    /\ \A x \in Scope : kind[x] = "new" => ~OnStack(x)
    /\ \A f \in Flow \ started : stack[f] = <<>>

\* A flow that does not run has no context.
FlowsIdle == \A f \in Flow \ started : active[f] = NoScope /\ inherited[f] = NoScope

BlocksMarked == \A b \in Block : kind[b] \in {"new", "block"}

\* A task is known when the method has returned, and the caller sees its end
\* once, from the continuation if there is one.
CallLife(c) ==
    /\ kind[c] # "block"
    /\ kind[c] = "new" => state[c].scope = NoScope /\ task[c] = "none"
    /\ state[c].scope \in {NoScope, c}
    /\ OnStack(c) => task[c] = "none"
    /\ task[c] \in {"none", "pending"} => awaited[c] = "none"
    /\ task[c] = "none" => c \notin continuation
    /\ task[c] = "pending" => c \in continuation \/ disabled
    /\ c \in continuation => awaited[c] = "none"

IInv ==
    /\ TypeOK
    /\ OncePushed /\ FlowsIdle /\ BlocksMarked
    /\ \A f \in started \ upset : FlowKept(f)
    /\ \A c \in Call : CallLife(c)
    /\ OutcomeKept
    /\ SpanFinishedFirst
=============================================================================
