---------------------------- MODULE ScopeManager ----------------------------
(***************************************************************************)
(* The scope manager (ScopeManagerBase.cs, AsyncLocalScopeManager.cs,      *)
(* Scope.cs), with the log enricher that follows it                        *)
(* (LibLogScopeEventSubscriber.cs).                                        *)
(*                                                                         *)
(* The active scope and the enricher are AsyncLocal values: each flow of   *)
(* the application has its own, and a flow that is forked starts with a    *)
(* copy of them.                                                           *)
(***************************************************************************)
EXTENDS Integers, Sequences, FiniteSets

CONSTANTS
    Flow,     \* flows of execution, each with an ExecutionContext of its own
    Scope,    \* scopes, each with the span it finishes when it is closed
    NoScope   \* null

ASSUME ScopeAssumption == NoScope \notin Scope

VARIABLES
    active,    \* Active, in each flow
    enricher,  \* the flows in which _currentEnricher is set
    parent,    \* Parent of each scope
    finished   \* the scopes whose span is finished

scopeVars == <<active, enricher, parent, finished>>

ScopeInit ==
    /\ active = [f \in Flow |-> NoScope]
    /\ enricher = {}
    /\ parent = [s \in Scope |-> NoScope]
    /\ finished = {}

\* The first scope of a flow starts a trace: RegisterLogEnricher.
Activate(f, s) ==
    /\ parent' = [parent EXCEPT ![s] = active[f]]
    /\ active' = [active EXCEPT ![f] = s]
    /\ enricher' = IF active[f] = NoScope THEN enricher \cup {f} ELSE enricher
    /\ UNCHANGED finished

\* A flow's trace ends when its active scope is closed and is a root.
EndsTrace(f, s) == active[f] = s /\ parent[s] = NoScope

\* Variant: closing any active scope ends the trace.
EndsAny(f, s) == active[f] = s

\* TraceEnded: ClearLogEnricher.
AfterTraceEnded(f, s) == IF EndsTrace(f, s) THEN enricher \ {f} ELSE enricher

\* Only the active scope is replaced by its parent.  The span is finished in
\* any case.
Close(f, s) ==
    /\ active' = [active EXCEPT ![f] = IF @ = s THEN parent[s] ELSE @]
    /\ enricher' = AfterTraceEnded(f, s)
    /\ finished' = finished \cup {s}
    /\ UNCHANGED parent

\* ExecutionContext (external): g starts with what f has.
CopyContext(f, g) ==
    /\ active' = [active EXCEPT ![g] = active[f]]
    /\ enricher' = IF f \in enricher THEN enricher \cup {g} ELSE enricher
    /\ UNCHANGED <<parent, finished>>

ScopeTypeOK ==
    /\ active \in [Flow -> Scope \cup {NoScope}]
    /\ enricher \subseteq Flow
    /\ parent \in [Scope -> Scope \cup {NoScope}]
    /\ finished \subseteq Scope
=============================================================================
