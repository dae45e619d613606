---------------------- MODULE RewrittenMethodInvariants ----------------------
(***************************************************************************)
(* What holds of the rewriter between two steps of the callback, whatever  *)
(* the method: the inductive invariant behind BodyValid.                   *)
(***************************************************************************)
EXTENDS RewrittenMethod, ILRewriterInvariants

\* The begin part is in front of every clause of the method.
BeginInFront(r, b) ==
    /\ {b.first, b.beginCatch, b.beginCatchLeave} \subseteq Listed(r)
    /\ Before(r, b.first, b.beginCatch) /\ Before(r, b.beginCatch, b.beginCatchLeave)
    /\ \A k \in DOMAIN r.eh : Before(r, b.beginCatchLeave, r.eh[k].tryBegin)
    /\ \A id \in Listed(r) : NotAfter(r, id, b.beginCatchLeave) => r.instr[id].op # "switch_arg"
    /\ StartFollows(r, b.beginCatchLeave)

\* The end part is behind the begin part and behind every clause of the method,
\* its marks in their order, and something to leave to is behind its finally.
EndBehind(r, b, e) ==
    /\ {e.startCatch, e.rethrow, e.endTry, e.endCatch, e.endCatchLeave, e.endFinally,
        e.methodReturn} \subseteq Listed(r)
    /\ Before(r, b.beginCatchLeave, e.startCatch)
    /\ \A k \in DOMAIN r.eh : Before(r, r.eh[k].handlerEnd, e.startCatch)
    /\ Before(r, e.startCatch, e.rethrow) /\ Before(r, e.rethrow, e.endTry)
    /\ Before(r, e.endTry, e.endCatch) /\ Before(r, e.endCatch, e.endCatchLeave)
    /\ Before(r, e.endCatchLeave, e.endFinally) /\ Before(r, e.endFinally, e.methodReturn)
    /\ \A id \in Listed(r) : NotAfter(r, e.startCatch, id) => r.instr[id].op # "switch_arg"

----------------------------------------------------------------------------

Phases == {"original", "import", "begin", "end", "returns", "export", "rewritten", "done"}

\* Until the new body is exported the method is one of those given.
MethodGiven ==
    phase \notin {"rewritten", "done"} =>
        /\ \E i \in DOMAIN Methods : method = Methods[i]
        /\ phase \notin {"original", "import"} => method.supported

\* What the callback has made of the list when it comes to a phase.
RewriterInPhase ==
    /\ phase = "begin" => rewriter = Import(method)
    /\ phase \in {"end", "returns", "export"} => RewriterOK(rewriter)
    /\ phase \in {"end", "returns"} => BeginInFront(rewriter, beginMarks)
    /\ phase = "returns" => EndBehind(rewriter, beginMarks, endMarks)

IInv ==
    /\ phase \in Phases
    /\ MethodGiven
    /\ RewriterInPhase
    /\ BodyValid
=============================================================================
