--------------------------- MODULE RewrittenMethod ---------------------------
(***************************************************************************)
(* The rewriting of an instrumented method: its body runs, is rewritten as *)
(* in CallTarget_RewriterCallback, exported in as many passes as the       *)
(* branches take, and runs again with the same choices.                    *)
(***************************************************************************)
EXTENDS InstrumentedMethod

marks == <<beginMarks, endMarks>>
vars == <<phase, method, rewriter, marks, run, choices, replayed, original>>

NoRewriter == [il |-> <<>>, instr |-> <<>>, eh |-> <<>>, maxStack |-> 0]

NoBeginMarks == [first |-> 0, beginCatch |-> 0, beginCatchLeave |-> 0]
NoEndMarks == [methodReturn |-> 0, startCatch |-> 0, rethrow |-> 0, endTry |-> 0,
               endCatch |-> 0, endCatchLeave |-> 0, endFinally |-> 0]

Init ==
    /\ phase = "original"
    /\ \E i \in DOMAIN Methods : method = Methods[i]
    /\ rewriter = NoRewriter
    /\ beginMarks = NoBeginMarks
    /\ endMarks = NoEndMarks
    /\ run = Start(method)
    /\ choices = <<>>
    /\ replayed = 0
    /\ original = run

Current == method.code[run.pc]

\* The original body takes a step, with any choice while some are left.
RunOriginal ==
    /\ phase = "original"
    /\ run.outcome = Running
    /\ \E c \in ChoicesOf(Current) :
          /\ IsBranching(Current) /\ Len(choices) >= MaxChoices => c = 0
          /\ run' = TakeStep(method, run, c)
          /\ choices' = IF IsBranching(Current) THEN Append(choices, c) ELSE choices
    /\ UNCHANGED <<phase, method, rewriter, marks, replayed, original>>

FinishOriginal ==
    /\ phase = "original"
    /\ run.outcome # Running
    /\ original' = run
    /\ phase' = "import"
    /\ UNCHANGED <<method, rewriter, marks, run, choices, replayed>>

\* The body the CLR has is imported.  A method that cannot be instrumented is
\* found out on the way; it keeps its body, as nothing has been exported.
ImportBody ==
    /\ phase = "import"
    /\ rewriter' = Import(method)
    /\ phase' = IF method.supported THEN "begin" ELSE "done"
    /\ UNCHANGED <<method, marks, run, choices, replayed, original>>

\* The begin part goes in front of the first instruction.
RewriteBegin ==
    /\ phase = "begin"
    /\ beginMarks' = BeginMarks(method, rewriter)
    /\ rewriter' = InsertBegin(method, rewriter)
    /\ phase' = "end"
    /\ UNCHANGED <<method, endMarks, run, choices, replayed, original>>

\* The end part goes behind the last.
RewriteEnd ==
    /\ phase = "end"
    /\ endMarks' = EndMarks(method, rewriter)
    /\ rewriter' = InsertEnd(method, rewriter)
    /\ phase' = "returns"
    /\ UNCHANGED <<method, beginMarks, run, choices, replayed, original>>

\* The loop over the returns.
ReplaceReturn ==
    LET returns == Returns(rewriter, endMarks.methodReturn) IN
    /\ phase = "returns"
    /\ returns # {}
    /\ rewriter' = ReturnToLeave(method, rewriter, rewriter.il[Min(returns)],
                                 NextInstr(rewriter, endMarks.endFinally))
    /\ UNCHANGED <<phase, method, marks, run, choices, replayed, original>>

SetEHClause ==
    /\ phase = "returns"
    /\ Returns(rewriter, endMarks.methodReturn) = {}
    /\ rewriter' = AddClauses(rewriter, beginMarks, endMarks)
    /\ phase' = "export"
    /\ UNCHANGED <<method, marks, run, choices, replayed, original>>

\* Variant: the passes do not make the branches long.
WidenInVain ==
    /\ phase = "export"
    /\ TooFar(rewriter) # {}
    /\ UNCHANGED vars

\* One pass of Export that is not the last.
WidenBranches ==
    /\ phase = "export"
    /\ TooFar(rewriter) # {}
    /\ rewriter' = Widen(rewriter)
    /\ UNCHANGED <<phase, method, marks, run, choices, replayed, original>>

\* The last pass, and the new body: the CLR compiles it.
ExportBody ==
    /\ phase = "export"
    /\ TooFar(rewriter) = {}
    /\ LET b == Encode(rewriter) IN
       method' = [method EXCEPT !.code = b.code, !.clauses = b.clauses,
                                !.maxStack = b.maxStack, !.locals = NewLocalsCount(method)]
    /\ run' = Start(method')
    /\ phase' = "rewritten"
    /\ UNCHANGED <<rewriter, marks, choices, replayed, original>>

\* The new body takes a step, with the choice the original run made there.
RunRewritten ==
    /\ phase = "rewritten"
    /\ run.outcome = Running
    /\ IF run.pc \in DOMAIN method.code /\ IsBranching(Current)
       THEN /\ run' = TakeStep(method, run,
                               IF replayed < Len(choices) THEN choices[replayed + 1] ELSE 0)
            /\ replayed' = replayed + 1
       ELSE /\ \E c \in IF run.pc \in DOMAIN method.code THEN ChoicesOf(Current) ELSE {0} :
                  run' = TakeStep(method, run, c)
            /\ UNCHANGED replayed
    /\ UNCHANGED <<phase, method, rewriter, marks, choices, original>>

FinishRewritten ==
    /\ phase = "rewritten"
    /\ run.outcome # Running
    /\ phase' = "done"
    /\ UNCHANGED <<method, rewriter, marks, run, choices, replayed, original>>

Done == phase = "done" /\ UNCHANGED vars

Next ==
    \/ RunOriginal \/ FinishOriginal
    \/ ImportBody \/ RewriteBegin \/ RewriteEnd \/ ReplaceReturn \/ SetEHClause
    \/ WidenBranches \/ ExportBody
    \/ RunRewritten \/ FinishRewritten
    \/ Done

Spec == Init /\ [][Next]_vars

\* The callback, and the method that is called, go on until they return.
FairSpec == Spec /\ WF_vars(Next)
=============================================================================
