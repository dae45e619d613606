------------------------- MODULE InstrumentedMethod -------------------------
(***************************************************************************)
(* A method that is instrumented: what there is of it while it runs, is    *)
(* rewritten and runs again, and what is promised of it: what the          *)
(* application sees of the two runs is compared.  RewrittenMethod has the  *)
(* steps.                                                                  *)
(***************************************************************************)
EXTENDS MethodExecution

CONSTANTS
    Methods,    \* a sequence of methods to instrument
    MaxChoices  \* bound: the choices a run makes freely; loops then end

\* The CLR accepts the methods as they are.  A module that gives Methods a
\* value assumes it.
MethodsAssumption ==
    \A i \in DOMAIN Methods : Methods[i] \in MethodBody /\ WellFormed(Methods[i])

VARIABLES
    phase,      \* what comes next: "original", "import", "begin", "end", "returns",
                \* "export", "rewritten" or "done"
    method,     \* the method and its body
    rewriter,   \* the ILRewriter
    beginMarks, endMarks,  \* the instructions that the clauses will name
    run,        \* the activation that is running
    choices,    \* the choices of the original run
    replayed,   \* how many of them the other run has made
    original    \* the end of the original run

----------------------------------------------------------------------------

Instrumented == phase \in {"rewritten", "done"} /\ method.supported
Ended == phase = "done" /\ method.supported

(* The application sees what it saw before the method was rewritten: the     *)
(* same code runs in the same order, the same exception is thrown, and the   *)
(* same value is returned unless EndMethod answered with another one,        *)
(* whether or not BeginMethod or EndMethod throw.  While it runs the CLR has *)
(* no reason to refuse it: it takes nothing from an empty stack, and its     *)
(* stack stays within what the header announces.                             *)
SameBehaviour ==
    /\ Ended => /\ run.events = original.events
                /\ \/ run.outcome = original.outcome
                   \/ /\ original.outcome.kind = "returned"
                      /\ run.outcome = Returned("changed")
    /\ Instrumented => run.outcome # Invalid /\ Len(run.stack) <= method.maxStack

(* BeginMethod is called once, before any code of the method, and EndMethod  *)
(* once, after all of it, with the value it returns or the exception it      *)
(* throws - however the method ends, and also when BeginMethod has thrown.   *)
HooksPaired ==
    Ended =>
        LET o == original.outcome IN
        /\ Len(run.hooks) = 2
        /\ run.hooks[1].name = "BeginMethod" /\ run.hooks[1].after = 0
        /\ run.hooks[2].name = "EndMethod" /\ run.hooks[2].after = Len(run.events)
        /\ IF o.kind = "returned"
           THEN run.hooks[2].value = o.value /\ run.hooks[2].exception = "null"
           ELSE run.hooks[2].exception = o.value

BranchesLand ==
    \A i \in DOMAIN method.code :
        method.code[i].op \in Branch =>
            LET s == rewriter.instr[rewriter.il[i]] IN
            /\ IsStart(method.code, TargetOffset(method.code, i))
            /\ InstrFromOffset(method.code, TargetOffset(method.code, i))
                   = (IF s.target = Sentinel THEN Sentinel ELSE Place(rewriter, s.target))

(* The exported body is one that the CLR accepts.  Every branch leads to the *)
(* instruction it named in the rewriter, however the code between them grew  *)
(* and whichever branches became long; a clause begins and ends where an     *)
(* instruction does, its try before its handler; and of two clauses, the     *)
(* earlier in the table is inside the other or apart from it.                *)
BodyValid == Instrumented => BranchesLand /\ WellFormed(method)

(* Export comes to an end, and so does the rewritten method.                 *)
Completes == <>(phase = "done")
=============================================================================
