-------------------------- MODULE MCNativeProfiler --------------------------
(***************************************************************************)
(* Values for the model checking of the native profiler: of its callbacks  *)
(* and ReJIT thread (CorProfiler), and of what becomes of a method that is *)
(* instrumented (RewrittenMethod).  The rewriter works on a copy of its    *)
(* own and shares no state with the rest: a behaviour is of one of the two *)
(* and the other stays as it is.                                           *)
(***************************************************************************)
EXTENDS CorProfilerProperties, InstrumentedMethod, MethodBodies, TLC

CONSTANTS d1, m1

VARIABLE part

IL == INSTANCE RewrittenMethod

ASSUME CompiledAssumption == MethodsAssumption

MCDomainOf == [m \in Module |-> d1]

rewriterVars == <<phase, method, rewriter, beginMarks, endMarks, run, choices,
                  replayed, original>>
allVars == <<vars, part, rewriterVars>>

\* The rewriter while the callbacks run: done with the first method.
Unused ==
    /\ phase = "done"
    /\ method = [Methods[1] EXCEPT !.supported = FALSE]
    /\ rewriter = IL!NoRewriter
    /\ beginMarks = IL!NoBeginMarks /\ endMarks = IL!NoEndMarks
    /\ run = Start(method) /\ original = run
    /\ choices = <<>> /\ replayed = 0

MCInit ==
    /\ Init
    /\ \/ part = "callbacks" /\ Unused
       \/ part = "rewriter" /\ IL!Init

\* The modules are alike: the first one that is loaded may be called m1.
StartsWithM1 == \A m \in Module \ {m1} : loads'[m] # 1

MCNext ==
    /\ UNCHANGED part
    /\ \/ part = "callbacks" /\ Next /\ StartsWithM1 /\ UNCHANGED rewriterVars
       \/ part = "rewriter" /\ IL!Next /\ UNCHANGED vars

MCSpec ==
    /\ MCInit /\ [][MCNext]_allVars
    /\ WF_allVars(part = "callbacks" /\ RejitThread /\ UNCHANGED <<part, rewriterVars>>)
    /\ \A t \in Thread :
          WF_allVars(part = "callbacks" /\ Continue(t) /\ UNCHANGED <<part, rewriterVars>>)
    /\ WF_allVars(part = "rewriter" /\ IL!Next /\ UNCHANGED <<part, vars>>)
=============================================================================
