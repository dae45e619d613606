------------------------- MODULE TraceContextProofs -------------------------
(***************************************************************************)
(* Proofs about TraceContext, for every number of threads and spans and    *)
(* every partial-flush setting.                                            *)
(***************************************************************************)
EXTENDS TraceContext, FiniteSetTheorems, TLAPS

Step(t) ==
    \/ AddSpan(t) \/ SetTag(t) \/ TestLocked(t) \/ SetPriority(t)
    \/ Inject(t) \/ SetHeader(t)
    \/ Finish(t) \/ LockOnClose(t) \/ SetMetric(t)
    \/ CloseSpan(t) \/ WriteChunk(t)

(* The type invariant but for the sign of the count, which rests on        *)
(* OpenSpansExact.                                                         *)
TypedButCount ==
    /\ parentPriority \in Priority \cup {NoPriority}
    /\ rootSpan \in Span \cup {NoSpan}
    /\ spans \in Seq(Span)
    /\ samplingPriority \in Priority \cup {NoPriority}
    /\ samplingPriorityLocked \in BOOLEAN /\ overtaken \in BOOLEAN
    /\ state \in [Span -> {"new", "open", "finished"}]
    /\ metric \in [Span -> Priority \cup {NoPriority}]
    /\ frame \in [Thread -> Frame]
    /\ written \in [Span -> Nat]
    /\ headers \subseteq Priority \cup {NoPriority}

Accounting == TypedButCount /\ OneCloser /\ OpenSpansExact

-----------------------------------------------------------------------------
LEMMA UnclosedFinite == IsFiniteSet(Unclosed) /\ Cardinality(Unclosed) \in Nat
<1>1. Unclosed \in SUBSET Span
  BY DEF Unclosed
<1>2. IsFiniteSet(Unclosed)
  BY <1>1, FS_Subset, TraceAssumption
<1> QED
  BY <1>2, FS_CardinalityType

(* A frame that is replaced, or moved to another statement, is a frame.    *)
LEMMA IdleFrame == Idle \in Frame /\ Idle.pc = "idle" /\ Idle.span = NoSpan
<1> <<>> \in Seq(Span)
  OBVIOUS
<1> QED
  BY DEF Idle, Frame, Pc

LEMMA GotoFrame ==
  ASSUME TypedButCount, NEW t \in Thread, NEW pc \in Pc, Goto(t, pc)
  PROVE  /\ frame' \in [Thread -> Frame]
         /\ frame'[t].pc = pc
         /\ frame'[t].span = frame[t].span
         /\ frame'[t].value = frame[t].value
         /\ \A u \in Thread \ {t} : frame'[u] = frame[u]
BY DEF TypedButCount, Goto, Frame

LEMMA ReturnFrame ==
  ASSUME TypedButCount, NEW t \in Thread, Return(t)
  PROVE  /\ frame' \in [Thread -> Frame]
         /\ frame'[t].pc = "idle"
         /\ \A u \in Thread \ {t} : frame'[u] = frame[u]
BY IdleFrame DEF TypedButCount, Return

(* A span is pending in Occurrences of a sequence a natural number of times. *)
LEMMA OccurrencesType ==
  ASSUME NEW seq \in Seq(Span), NEW s \in Span
  PROVE  Occurrences(seq, s) \in Nat
<1>1. IsFiniteSet(1..Len(seq))
  BY FS_Interval
<1>2. {i \in 1..Len(seq) : seq[i] = s} \in SUBSET (1..Len(seq))
  OBVIOUS
<1>3. IsFiniteSet({i \in 1..Len(seq) : seq[i] = s})
  BY <1>1, <1>2, FS_Subset
<1> QED
  BY <1>3, FS_CardinalityType DEF Occurrences

(* When no span changes its place between open, closing and closed, the    *)
(* accounting holds on.                                                    *)
LEMMA SameUnclosed ==
  ASSUME OpenSpansExact, openSpans' = openSpans, Unclosed' = Unclosed
  PROVE  OpenSpansExact'
BY DEF OpenSpansExact

(* A step that closes nothing and opens nothing.                           *)
LEMMA OtherFrame ==
  ASSUME Accounting, NEW t \in Thread,
         state' = state, openSpans' = openSpans,
         ~Closing(t), ~Closing(t)',
         \A u \in Thread \ {t} : frame'[u] = frame[u]
  PROVE  OneCloser' /\ OpenSpansExact'
<1>1. \A u \in Thread : Closing(u)' <=> Closing(u)
  BY DEF Closing
<1>2. \A u \in Thread : Closing(u) => frame'[u] = frame[u]
  OBVIOUS
<1>3. OneCloser'
  BY <1>1, <1>2 DEF Accounting, OneCloser
<1>4. Unclosed' = Unclosed
  BY <1>1, <1>2 DEF Unclosed
<1> QED
  BY <1>3, <1>4, SameUnclosed DEF Accounting

-----------------------------------------------------------------------------
(* The types, and the accounting, action by action.                        *)

LEMMA AddSpanStep ==
  ASSUME Accounting, UNCHANGED parentPriority, NEW t \in Thread, AddSpan(t)
  PROVE  Accounting'
<1> PICK s \in Span : /\ state[s] = "new"
                      /\ state' = [state EXCEPT ![s] = "open"]
                      /\ rootSpan' = IF rootSpan = NoSpan THEN s ELSE rootSpan
  BY DEF AddSpan
<1>1. openSpans' = openSpans + 1 /\ UNCHANGED <<spans, frame, metric, written, headers, overtaken>>
  BY DEF AddSpan
<1>2. /\ samplingPriority' \in Priority \cup {NoPriority}
      /\ samplingPriorityLocked' \in BOOLEAN
  BY TraceAssumption DEF AddSpan, DecidePriority, Accounting, TypedButCount
<1>3. TypedButCount'
  BY <1>1, <1>2 DEF Accounting, TypedButCount
<1>4. \A u \in Thread : Closing(u) => frame[u].span # s
  BY DEF Accounting, OneCloser
<1>5. OneCloser'
  BY <1>1, <1>4 DEF Accounting, OneCloser, Closing, TypedButCount
<1>6. s \notin Unclosed /\ Unclosed' = Unclosed \cup {s}
  BY <1>1, <1>4 DEF Unclosed, Closing, Accounting, TypedButCount
<1>7. OpenSpansExact'
  BY <1>1, <1>6, UnclosedFinite, FS_AddElement DEF Accounting, OpenSpansExact
<1> QED
  BY <1>3, <1>5, <1>7 DEF Accounting

LEMMA SetTagStep ==
  ASSUME Accounting, UNCHANGED parentPriority, NEW t \in Thread,
         SetTag(t) \/ TestLocked(t) \/ SetPriority(t)
  PROVE  Accounting'
<1>1. ~Closing(t)
  BY DEF SetTag, TestLocked, SetPriority, Closing
<1>2. CASE SetTag(t)
  <2> PICK v \in Priority :
        frame' = [frame EXCEPT ![t] = [Idle EXCEPT !.pc = "test", !.value = v]]
    BY <1>2 DEF SetTag
  <2>1. [Idle EXCEPT !.pc = "test", !.value = v] \in Frame
    BY IdleFrame DEF Frame, Pc
  <2>2. frame'[t].pc = "test" /\ \A u \in Thread \ {t} : frame'[u] = frame[u]
    BY IdleFrame DEF Accounting, TypedButCount, Frame
  <2>3. ~Closing(t)'
    BY <2>2 DEF Closing
  <2>4. TypedButCount'
    BY <1>2, <2>1 DEF SetTag, priorityVars, countVars, Accounting, TypedButCount
  <2> QED
    BY <1>1, <1>2, <2>2, <2>3, <2>4, OtherFrame DEF SetTag, countVars, Accounting
<1>3. CASE TestLocked(t)
  <2>1. /\ frame' \in [Thread -> Frame] /\ frame'[t].pc \in {"idle", "set"}
        /\ \A u \in Thread \ {t} : frame'[u] = frame[u]
    BY <1>3, ReturnFrame, GotoFrame DEF TestLocked, Accounting, Pc
  <2>2. ~Closing(t)'
    BY <2>1 DEF Closing
  <2>3. TypedButCount'
    BY <1>3, <2>1 DEF TestLocked, priorityVars, countVars, Accounting, TypedButCount
  <2> QED
    BY <1>1, <1>3, <2>1, <2>2, <2>3, OtherFrame DEF TestLocked, countVars, Accounting
<1>4. CASE SetPriority(t)
  <2>1. /\ frame' \in [Thread -> Frame] /\ frame'[t].pc = "idle"
        /\ \A u \in Thread \ {t} : frame'[u] = frame[u]
    BY <1>4, ReturnFrame DEF SetPriority, Accounting
  <2>2. ~Closing(t)'
    BY <2>1 DEF Closing
  <2>3. frame[t].value \in Priority \cup {NoPriority}
    BY DEF Accounting, TypedButCount, Frame
  <2>4. TypedButCount'
    BY <1>4, <2>1, <2>3 DEF SetPriority, countVars, Accounting, TypedButCount
  <2> QED
    BY <1>1, <1>4, <2>1, <2>2, <2>4, OtherFrame DEF SetPriority, countVars, Accounting
<1> QED
  BY <1>2, <1>3, <1>4

LEMMA InjectStep ==
  ASSUME Accounting, UNCHANGED parentPriority, NEW t \in Thread,
         Inject(t) \/ SetHeader(t) \/ WriteChunk(t)
  PROVE  Accounting'
<1>1. ~Closing(t)
  BY DEF Inject, SetHeader, WriteChunk, Closing
<1>2. /\ frame' \in [Thread -> Frame] /\ frame'[t].pc \in {"idle", "inject"}
      /\ \A u \in Thread \ {t} : frame'[u] = frame[u]
  BY ReturnFrame, GotoFrame DEF Inject, SetHeader, WriteChunk, Accounting, Pc
<1>3. ~Closing(t)'
  BY <1>2 DEF Closing
<1>4. state' = state /\ openSpans' = openSpans
  BY DEF Inject, SetHeader, WriteChunk, countVars
<1>5. /\ samplingPriority' \in Priority \cup {NoPriority}
      /\ samplingPriorityLocked' \in BOOLEAN /\ overtaken' \in BOOLEAN
      /\ headers' \subseteq Priority \cup {NoPriority}
  BY DEF Inject, SetHeader, WriteChunk, LockSamplingPriority, priorityVars,
         Accounting, TypedButCount
<1>6. written' \in [Span -> Nat]
  <2>1. CASE WriteChunk(t)
    <3>1. frame[t].chunk \in Seq(Span)
      BY DEF Accounting, TypedButCount, Frame
    <3>2. \A s \in Span : written[s] + Occurrences(frame[t].chunk, s) \in Nat
      BY <3>1, OccurrencesType DEF Accounting, TypedButCount
    <3> QED
      BY <2>1, <3>2 DEF WriteChunk
  <2> QED
    BY <2>1 DEF Inject, SetHeader, Accounting, TypedButCount
<1>7. UNCHANGED <<rootSpan, spans, metric>>
  BY DEF Inject, SetHeader, WriteChunk, countVars
<1>8. TypedButCount'
  BY <1>2, <1>4, <1>5, <1>6, <1>7 DEF Accounting, TypedButCount
<1> QED
  BY <1>1, <1>2, <1>3, <1>4, <1>8, OtherFrame DEF Accounting

LEMMA FinishStep ==
  ASSUME Accounting, UNCHANGED parentPriority, NEW t \in Thread, Finish(t)
  PROVE  Accounting'
<1> PICK s \in Span :
      /\ state[s] = "open"
      /\ state' = [state EXCEPT ![s] = "finished"]
      /\ frame' = [frame EXCEPT ![t] =
            [Idle EXCEPT !.pc = IF s = rootSpan THEN "lock" ELSE "close",
                         !.span = s]]
  BY DEF Finish
<1>1. /\ frame[t].pc = "idle"
      /\ UNCHANGED <<rootSpan, countVars, priorityVars, metric, written, headers>>
  BY DEF Finish
<1> DEFINE f == [Idle EXCEPT !.pc = IF s = rootSpan THEN "lock" ELSE "close",
                             !.span = s]
<1>2. f \in Frame /\ f.pc \in {"lock", "close"} /\ f.span = s
  BY IdleFrame DEF Frame, Pc
<1>3. /\ frame' \in [Thread -> Frame] /\ frame'[t] = f
      /\ \A u \in Thread \ {t} : frame'[u] = frame[u]
  BY <1>2 DEF Accounting, TypedButCount
<1> HIDE DEF f
<1>4. TypedButCount'
  BY <1>1, <1>3 DEF countVars, priorityVars, Accounting, TypedButCount
<1>5. ~Closing(t) /\ Closing(t)'
  BY <1>1, <1>2, <1>3 DEF Closing
<1>6. \A u \in Thread \ {t} : Closing(u)' <=> Closing(u)
  BY <1>3 DEF Closing
<1>7. \A u \in Thread : Closing(u) => frame[u].span # s
  BY DEF Accounting, OneCloser
<1>8. frame'[t].span = s
  BY <1>2, <1>3
<1>9. OneCloser'
  <2>1. ASSUME NEW u \in Thread, Closing(u)'
        PROVE  frame'[u].span \in Span /\ state'[frame'[u].span] = "finished"
    BY <2>1, <1>3, <1>6, <1>8 DEF Accounting, OneCloser, TypedButCount
  <2>2. ASSUME NEW u \in Thread, NEW v \in Thread, Closing(u)', Closing(v)', u # v
        PROVE  frame'[u].span # frame'[v].span
    BY <2>2, <1>3, <1>6, <1>7, <1>8 DEF Accounting, OneCloser
  <2> QED
    BY <2>1, <2>2 DEF OneCloser
<1>10. Unclosed' = Unclosed
  <2>1. ASSUME NEW r \in Span
        PROVE  (\E u \in Thread : Closing(u)' /\ frame'[u].span = r)
               <=> (r = s \/ \E u \in Thread : Closing(u) /\ frame[u].span = r)
    BY <1>3, <1>5, <1>6, <1>8
  <2>2. ASSUME NEW r \in Span
        PROVE  state'[r] = "open" <=> state[r] = "open" /\ r # s
    BY DEF Accounting, TypedButCount
  <2> QED
    BY <2>1, <2>2 DEF Unclosed
<1> QED
  BY <1>1, <1>4, <1>9, <1>10, SameUnclosed DEF countVars, Accounting

(* A step of CloseSpan that is still to come to its lock.                  *)
LEMMA CloseRootStep ==
  ASSUME Accounting, UNCHANGED parentPriority, NEW t \in Thread,
         LockOnClose(t) \/ SetMetric(t)
  PROVE  Accounting'
<1>1. /\ frame' \in [Thread -> Frame] /\ frame'[t].pc \in {"metric", "close"}
      /\ frame'[t].span = frame[t].span
      /\ \A u \in Thread \ {t} : frame'[u] = frame[u]
  BY GotoFrame DEF LockOnClose, SetMetric, Accounting, Pc
<1>2. Closing(t) /\ Closing(t)'
  BY <1>1 DEF LockOnClose, SetMetric, Closing
<1>3. /\ \A u \in Thread : Closing(u)' <=> Closing(u)
      /\ \A u \in Thread : frame'[u].span = frame[u].span
  BY <1>1, <1>2 DEF Closing
<1>4. UNCHANGED <<rootSpan, openSpans, spans, state, written, headers>>
  BY DEF LockOnClose, SetMetric, countVars
<1>5. /\ samplingPriority' \in Priority \cup {NoPriority}
      /\ samplingPriorityLocked' \in BOOLEAN /\ overtaken' \in BOOLEAN
      /\ metric' \in [Span -> Priority \cup {NoPriority}]
  BY DEF LockOnClose, SetMetric, LockSamplingPriority, priorityVars,
         Accounting, TypedButCount
<1>6. TypedButCount'
  BY <1>1, <1>4, <1>5 DEF Accounting, TypedButCount
<1>7. OneCloser'
  BY <1>3, <1>4 DEF Accounting, OneCloser
<1>8. Unclosed' = Unclosed
  BY <1>3, <1>4 DEF Unclosed
<1> QED
  BY <1>4, <1>6, <1>7, <1>8, SameUnclosed DEF Accounting

LEMMA CloseSpanStep ==
  ASSUME Accounting, UNCHANGED parentPriority, NEW t \in Thread, CloseSpan(t)
  PROVE  Accounting'
<1> DEFINE s == frame[t].span
           closed == Append(spans, s)
<1>1. Closing(t) /\ s \in Span /\ state[s] = "finished"
  BY DEF CloseSpan, Closing, Accounting, OneCloser
<1>2. closed \in Seq(Span)
  BY <1>1 DEF Accounting, TypedButCount
<1>3. /\ openSpans' = openSpans - 1
      /\ UNCHANGED <<rootSpan, priorityVars, state, metric, written, headers>>
  BY DEF CloseSpan
<1>4. \/ spans' = closed /\ Return(t)
      \/ /\ spans' = <<>>
         /\ frame' = [frame EXCEPT ![t] = [Idle EXCEPT !.pc = "write", !.chunk = closed]]
  BY DEF CloseSpan
<1>5. /\ frame' \in [Thread -> Frame] /\ frame'[t].pc \in {"idle", "write"}
      /\ \A u \in Thread \ {t} : frame'[u] = frame[u]
  <2>1. [Idle EXCEPT !.pc = "write", !.chunk = closed] \in Frame
    BY <1>2, IdleFrame DEF Frame, Pc
  <2>2. [Idle EXCEPT !.pc = "write", !.chunk = closed].pc = "write"
    BY IdleFrame DEF Frame
  <2> QED
    BY <1>4, <2>1, <2>2, ReturnFrame DEF Accounting, TypedButCount
<1>6. spans' \in Seq(Span)
  <2>1. <<>> \in Seq(Span)
    OBVIOUS
  <2> HIDE DEF closed
  <2> QED
    BY <1>2, <1>4, <2>1
<1>7. TypedButCount'
  BY <1>3, <1>5, <1>6 DEF priorityVars, Accounting, TypedButCount
<1>8. ~Closing(t)' /\ \A u \in Thread \ {t} : Closing(u)' <=> Closing(u)
  BY <1>5 DEF Closing
<1>9. OneCloser'
  BY <1>3, <1>5, <1>8 DEF Accounting, OneCloser
<1>10. s \in Unclosed /\ Unclosed' = Unclosed \ {s}
  <2>1. s \in Unclosed
    BY <1>1 DEF Unclosed
  <2>2. \A u \in Thread \ {t} : Closing(u) => frame[u].span # s
    BY <1>1 DEF Accounting, OneCloser
  <2> QED
    BY <1>1, <1>3, <1>5, <1>8, <2>1, <2>2 DEF Unclosed
<1>11. OpenSpansExact'
  BY <1>3, <1>10, UnclosedFinite, FS_RemoveElement DEF Accounting, OpenSpansExact
<1> QED
  BY <1>7, <1>9, <1>11 DEF Accounting

-----------------------------------------------------------------------------
LEMMA InitAccounting == Init => Accounting
<1> SUFFICES ASSUME Init PROVE Accounting
  OBVIOUS
<1>1. <<>> \in Seq(Span)
  OBVIOUS
<1>2. parentPriority \in Priority \cup {NoPriority}
  BY TraceAssumption DEF Init
<1>3. TypedButCount
  BY <1>1, <1>2, IdleFrame DEF Init, TypedButCount
<1>4. \A t \in Thread : ~Closing(t)
  BY IdleFrame DEF Init, Closing
<1>5. OneCloser
  BY <1>4 DEF OneCloser
<1>6. Unclosed = {}
  BY <1>4 DEF Init, Unclosed
<1>7. OpenSpansExact
  BY <1>6, FS_EmptySet DEF Init, OpenSpansExact
<1> QED
  BY <1>3, <1>5, <1>7 DEF Accounting

LEMMA StutterAccounting == Accounting /\ UNCHANGED vars => Accounting'
<1> SUFFICES ASSUME Accounting, UNCHANGED vars PROVE Accounting'
  OBVIOUS
<1> USE DEF vars, countVars, priorityVars
<1>1. TypedButCount'
  BY DEF Accounting, TypedButCount
<1>2. \A t \in Thread : Closing(t)' <=> Closing(t)
  BY DEF Closing
<1>3. OneCloser'
  BY <1>2 DEF Accounting, OneCloser
<1>4. Unclosed' = Unclosed
  BY <1>2 DEF Unclosed
<1> QED
  BY <1>1, <1>3, <1>4, SameUnclosed DEF Accounting

LEMMA NextIsStep == Next => UNCHANGED parentPriority /\ \E t \in Thread : Step(t)
BY DEF Next, Step

LEMMA AccountingStep == Accounting /\ [Next]_vars => Accounting'
<1>1. ASSUME Accounting, UNCHANGED parentPriority, NEW t \in Thread, Step(t)
      PROVE  Accounting'
  BY <1>1, AddSpanStep, SetTagStep, InjectStep, FinishStep, CloseRootStep,
     CloseSpanStep DEF Step
<1> QED
  BY <1>1, NextIsStep, StutterAccounting

THEOREM AccountingInvariant == Spec => []Accounting
<1> QED
  BY InitAccounting, AccountingStep, PTL DEF Spec

(* The count of open spans is exact (TraceContext.AddSpan, CloseSpan):     *)
(* whatever number of threads start and finish spans, it is the number of  *)
(* spans that have not been through CloseSpan.                             *)
THEOREM CountIsExact == Spec => []OpenSpansExact
<1>1. Accounting => OpenSpansExact
  BY DEF Accounting
<1> QED
  BY <1>1, AccountingInvariant, PTL

(* Type correctness.  That the count never falls below zero is a           *)
(* consequence of its being exact.                                         *)
THEOREM TypeCorrect == Spec => []TypeOK
<1>1. Accounting => TypeOK
  BY UnclosedFinite DEF Accounting, OpenSpansExact, TypedButCount, TypeOK
<1> QED
  BY <1>1, AccountingInvariant, PTL

-----------------------------------------------------------------------------
(* No closed span is stranded (CloseSpan): none waits when no span is      *)
(* open, and a partial flush leaves fewer waiting than it takes to trigger *)
(* one.                                                                    *)
THEOREM NothingStranded == Spec => []NoneStranded
<1>1. Init => NoneStranded
  BY TraceAssumption DEF Init, NoneStranded
<1>2. Accounting /\ NoneStranded /\ [Next]_vars => NoneStranded'
  <2> SUFFICES ASSUME Accounting, NoneStranded, [Next]_vars PROVE NoneStranded'
    OBVIOUS
  <2>1. CASE UNCHANGED countVars
    BY <2>1 DEF countVars, NoneStranded
  <2>2. ASSUME NEW t \in Thread, AddSpan(t) PROVE NoneStranded'
    BY <2>2, UnclosedFinite DEF AddSpan, Accounting, OpenSpansExact, NoneStranded
  <2>3. ASSUME NEW t \in Thread, CloseSpan(t) PROVE NoneStranded'
    <3> DEFINE closed == Append(spans, frame[t].span)
    <3>1. \/ spans' = closed /\ ~ShouldFlush(closed, openSpans')
          \/ spans' = <<>>
      BY <2>3 DEF CloseSpan
    <3>2. closed \in Seq(Span)
      BY <2>3 DEF CloseSpan, Closing, Accounting, OneCloser, TypedButCount
    <3>3. CASE spans' = closed /\ ~ShouldFlush(closed, openSpans')
      <4>1. Len(closed) \in Nat
        BY <3>2
      <4> HIDE DEF closed
      <4> QED
        BY <3>3, <4>1, TraceAssumption DEF ShouldFlush, NoneStranded
    <3>4. CASE spans' = <<>>
      BY <3>4, TraceAssumption DEF NoneStranded
    <3> QED
      BY <3>1, <3>3, <3>4
  <2>4. ASSUME NEW t \in Thread, Step(t), ~AddSpan(t), ~CloseSpan(t)
        PROVE  UNCHANGED countVars
    BY <2>4 DEF Step, SetTag, TestLocked, SetPriority, Inject, SetHeader, Finish,
                LockOnClose, SetMetric, WriteChunk
  <2> QED
    BY <2>1, <2>2, <2>3, <2>4, NextIsStep DEF vars
<1> QED
  BY <1>1, <1>2, AccountingInvariant, PTL DEF Spec

-----------------------------------------------------------------------------
(* The sampling priority.  A step other than the seven below leaves what   *)
(* ToldOnlyWhenLocked speaks of alone.                                     *)

LEMMA InitTold == Init => ToldOnlyWhenLocked
<1> SUFFICES ASSUME Init PROVE ToldOnlyWhenLocked
  OBVIOUS
<1>1. Sent = {}
  BY DEF Init, Sent
<1>2. \A t \in Thread : frame[t].pc = "idle"
  BY IdleFrame DEF Init
<1> QED
  BY <1>1, <1>2 DEF Init, ToldOnlyWhenLocked

(* Nothing new is told, and no thread comes to tell.                       *)
LEMMA NothingTold ==
  ASSUME Accounting, ToldOnlyWhenLocked, NEW t \in Thread,
         \A s \in Span : state'[s] # "new" => state[s] # "new",
         UNCHANGED <<rootSpan, samplingPriority, samplingPriorityLocked, headers,
                     metric, overtaken>>,
         frame'[t].pc \notin {"inject", "metric"},
         frame'[t].pc \in {"test", "set"} => frame'[t].value # NoPriority,
         \A u \in Thread \ {t} : frame'[u] = frame[u]
  PROVE  ToldOnlyWhenLocked'
<1>1. Sent' = Sent
  BY DEF Sent
<1> QED
  BY <1>1 DEF ToldOnlyWhenLocked

LEMMA AddSpanTold ==
  ASSUME Accounting, ToldOnlyWhenLocked, NEW t \in Thread, AddSpan(t)
  PROVE  ToldOnlyWhenLocked'
<1>1. UNCHANGED <<frame, metric, headers, overtaken>> /\ Sent' = Sent
  BY DEF AddSpan, Sent
<1>2. rootSpan' # NoSpan
  BY TraceAssumption DEF AddSpan
<1>3. CASE rootSpan # NoSpan \/ samplingPriority # NoPriority
  <2>1. UNCHANGED <<samplingPriority, samplingPriorityLocked>> /\ samplingPriority # NoPriority
    BY <1>3 DEF AddSpan, DecidePriority, ToldOnlyWhenLocked
  <2> QED
    BY <1>1, <1>2, <2>1 DEF ToldOnlyWhenLocked
<1>4. CASE rootSpan = NoSpan /\ samplingPriority = NoPriority
  <2>1. ~samplingPriorityLocked
    BY <1>4 DEF ToldOnlyWhenLocked
  <2>2. Sent = {} /\ \A u \in Thread : frame[u].pc \notin {"inject", "metric"}
    BY <2>1 DEF ToldOnlyWhenLocked
  <2>3. samplingPriority' # NoPriority
    BY <1>4, TraceAssumption DEF AddSpan, DecidePriority
  <2> QED
    BY <1>1, <1>2, <2>2, <2>3 DEF ToldOnlyWhenLocked
<1> QED
  BY <1>3, <1>4

(* The setter: a value stored after the lock is an overtaken one.          *)
LEMMA SetPriorityTold ==
  ASSUME Accounting, ToldOnlyWhenLocked, NEW t \in Thread, SetPriority(t)
  PROVE  ToldOnlyWhenLocked'
<1>1. /\ samplingPriority' = frame[t].value
      /\ overtaken' = (overtaken \/ samplingPriorityLocked)
      /\ UNCHANGED <<rootSpan, samplingPriorityLocked, state, metric, headers>>
      /\ frame'[t].pc = "idle" /\ \A u \in Thread \ {t} : frame'[u] = frame[u]
  BY ReturnFrame DEF SetPriority, Accounting
<1>0. frame[t].value # NoPriority
  BY DEF SetPriority, ToldOnlyWhenLocked
<1>2. Sent' = Sent
  BY <1>1 DEF Sent
<1>3. \A u \in Thread : frame'[u].pc \in {"inject", "metric"} => samplingPriorityLocked
  BY <1>1 DEF ToldOnlyWhenLocked
<1>4. overtaken' \/ Sent = {}
  BY <1>1 DEF ToldOnlyWhenLocked
<1> QED
  BY <1>0, <1>1, <1>2, <1>3, <1>4 DEF ToldOnlyWhenLocked

(* Inject and the close of the root lock before they tell.                 *)
LEMMA LockTold ==
  ASSUME Accounting, ToldOnlyWhenLocked, NEW t \in Thread,
         Inject(t) \/ LockOnClose(t)
  PROVE  ToldOnlyWhenLocked'
<1>1. /\ UNCHANGED <<rootSpan, samplingPriority, overtaken, state, metric, headers>>
      /\ samplingPriorityLocked' = (samplingPriorityLocked \/ samplingPriority # NoPriority)
  BY DEF Inject, LockOnClose, LockSamplingPriority
<1>5. frame'[t].pc \in {"inject", "metric"} /\ \A u \in Thread \ {t} : frame'[u] = frame[u]
  BY GotoFrame DEF Inject, LockOnClose, Accounting, Pc
<1>2. \E s \in Span : state[s] # "new"
  BY DEF Inject, LockOnClose, Closing, Accounting, OneCloser
<1>3. rootSpan # NoSpan /\ samplingPriority # NoPriority
  BY <1>2 DEF ToldOnlyWhenLocked
<1>4. Sent' = Sent /\ samplingPriorityLocked'
  BY <1>1, <1>3 DEF Sent
<1> QED
  BY <1>1, <1>3, <1>4, <1>5 DEF ToldOnlyWhenLocked

(* SetHeader and SetMetric tell the current priority.                      *)
LEMMA TellTold ==
  ASSUME Accounting, ToldOnlyWhenLocked, NEW t \in Thread,
         SetHeader(t) \/ SetMetric(t)
  PROVE  ToldOnlyWhenLocked'
<1>1. frame[t].pc \in {"inject", "metric"}
  BY DEF SetHeader, SetMetric
<1>2. samplingPriorityLocked
  BY <1>1 DEF ToldOnlyWhenLocked
<1>3. UNCHANGED <<rootSpan, samplingPriority, samplingPriorityLocked, overtaken, state>>
  BY DEF SetHeader, SetMetric, priorityVars
<1>4. Sent' \subseteq Sent \cup {samplingPriority}
  <2>1. CASE SetHeader(t)
    BY <2>1 DEF SetHeader, Sent
  <2>2. CASE SetMetric(t)
    BY <2>2 DEF SetMetric, Sent, Accounting, TypedButCount
  <2> QED
    BY <2>1, <2>2
<1>5. frame'[t].pc \in {"idle", "close"} /\ \A u \in Thread \ {t} : frame'[u] = frame[u]
  BY GotoFrame, ReturnFrame DEF SetHeader, SetMetric, Accounting, Pc
<1> QED
  BY <1>2, <1>3, <1>4, <1>5 DEF ToldOnlyWhenLocked

LEMMA SetTagTold ==
  ASSUME Accounting, ToldOnlyWhenLocked, NEW t \in Thread,
         SetTag(t) \/ TestLocked(t)
  PROVE  ToldOnlyWhenLocked'
<1>1. UNCHANGED <<rootSpan, samplingPriority, samplingPriorityLocked, headers,
                  metric, overtaken, state>>
  BY DEF SetTag, TestLocked, priorityVars
<1>2. CASE SetTag(t)
  <2> PICK v \in Priority :
        frame' = [frame EXCEPT ![t] = [Idle EXCEPT !.pc = "test", !.value = v]]
    BY <1>2 DEF SetTag
  <2>1. /\ frame'[t].pc = "test" /\ frame'[t].value = v
        /\ \A u \in Thread \ {t} : frame'[u] = frame[u]
    BY IdleFrame DEF Accounting, TypedButCount, Frame
  <2> QED
    BY <1>1, <2>1, NothingTold, TraceAssumption
<1>3. CASE TestLocked(t)
  <2>1. /\ frame'[t].pc = "idle" \/ (frame'[t].pc = "set" /\ frame'[t].value = frame[t].value)
        /\ \A u \in Thread \ {t} : frame'[u] = frame[u]
    BY <1>3, ReturnFrame, GotoFrame DEF TestLocked, Accounting, Pc
  <2>2. frame[t].value # NoPriority
    BY <1>3 DEF TestLocked, ToldOnlyWhenLocked
  <2> QED
    BY <1>1, <2>1, <2>2, NothingTold
<1> QED
  BY <1>2, <1>3

LEMMA CloseTold ==
  ASSUME Accounting, ToldOnlyWhenLocked, NEW t \in Thread,
         Finish(t) \/ CloseSpan(t) \/ WriteChunk(t)
  PROVE  ToldOnlyWhenLocked'
<1>1. UNCHANGED <<rootSpan, samplingPriority, samplingPriorityLocked, headers,
                  metric, overtaken>>
  BY DEF Finish, CloseSpan, WriteChunk, priorityVars
<1>2. \A s \in Span : state'[s] # "new" => state[s] # "new"
  BY DEF Finish, CloseSpan, WriteChunk, Accounting, TypedButCount
<1>3. /\ frame'[t].pc \in {"lock", "close", "write", "idle"}
      /\ \A u \in Thread \ {t} : frame'[u] = frame[u]
  <2>1. CASE Finish(t)
    <3> PICK s \in Span : frame' = [frame EXCEPT ![t] =
            [Idle EXCEPT !.pc = IF s = rootSpan THEN "lock" ELSE "close", !.span = s]]
      BY <2>1 DEF Finish
    <3>1. [Idle EXCEPT !.pc = IF s = rootSpan THEN "lock" ELSE "close",
                       !.span = s].pc \in {"lock", "close"}
      BY DEF Idle
    <3> QED
      BY <3>1 DEF Accounting, TypedButCount
  <2>2. CASE CloseSpan(t)
    <3>1. \/ Return(t)
          \/ frame' = [frame EXCEPT ![t] = [Idle EXCEPT !.pc = "write",
                          !.chunk = Append(spans, frame[t].span)]]
      BY <2>2 DEF CloseSpan
    <3>2. [Idle EXCEPT !.pc = "write", !.chunk = Append(spans, frame[t].span)].pc = "write"
      BY DEF Idle
    <3> QED
      BY <3>1, <3>2, ReturnFrame DEF Accounting, TypedButCount
  <2>3. CASE WriteChunk(t)
    BY <2>3, ReturnFrame DEF WriteChunk, Accounting
  <2> QED
    BY <2>1, <2>2, <2>3
<1> QED
  BY <1>1, <1>2, <1>3, NothingTold

LEMMA ToldStep ==
  Accounting /\ ToldOnlyWhenLocked /\ [Next]_vars => ToldOnlyWhenLocked'
<1>1. ASSUME Accounting, ToldOnlyWhenLocked, NEW t \in Thread, Step(t)
      PROVE  ToldOnlyWhenLocked'
  BY <1>1, AddSpanTold, SetPriorityTold, LockTold, TellTold, SetTagTold, CloseTold
     DEF Step
<1>2. ToldOnlyWhenLocked /\ UNCHANGED vars => ToldOnlyWhenLocked'
  BY DEF vars, priorityVars, ToldOnlyWhenLocked, Sent
<1> QED
  BY <1>1, <1>2, NextIsStep

(* Every service the trace calls, and the agent, are told one sampling     *)
(* priority (SpanContextPropagator.Inject, CloseSpan), unless a set was    *)
(* overtaken by the lock.                                                  *)
THEOREM OnePriority == Spec => []OnePrioritySent
<1>1. ToldOnlyWhenLocked => OnePrioritySent
  BY DEF ToldOnlyWhenLocked, OnePrioritySent
<1> QED
  BY <1>1, InitTold, ToldStep, AccountingInvariant, PTL DEF Spec

-----------------------------------------------------------------------------
(* Every finished span is in one place.                                    *)

(* A step of a thread that closes, moves and writes no span.               *)
LEMMA NothingPlaced ==
  ASSUME Placed, NEW t \in Thread,
         frame[t].pc # "write", frame'[t].chunk = <<>>,
         Closing(t)' <=> Closing(t), Closing(t) => frame'[t].span = frame[t].span,
         \A u \in Thread \ {t} : frame'[u] = frame[u],
         UNCHANGED <<spans, written>>,
         \A s \in Span : state'[s] = "finished" <=> state[s] = "finished"
  PROVE  Placed'
<1>1. \A u \in Thread : frame'[u].chunk = frame[u].chunk
  BY DEF Placed, ChunkInWrite
<1>2. \A u \in Thread : Closing(u)' <=> Closing(u)
  BY DEF Closing
<1>3. \A u \in Thread : Closing(u) => frame'[u].span = frame[u].span
  OBVIOUS
<1>4. \A s \in Span : BeingClosed(s)' <=> BeingClosed(s)
  BY <1>2, <1>3 DEF BeingClosed
<1>5. \A s \in Span : (Waiting(s)' <=> Waiting(s)) /\ (InChunk(s)' <=> InChunk(s))
  BY <1>1 DEF Waiting, InChunk
<1>6. Kept' /\ Apart'
  BY <1>4, <1>5 DEF Placed, Kept, Apart
<1>7. Unrepeated'
  <2>1. Unrepeated /\ spans' = spans /\ written' = written
    BY DEF Placed
  <2>2. ASSUME NEW u \in Thread, NEW v \in Thread,
               NEW i \in 1..Len(frame'[u].chunk), NEW j \in 1..Len(frame'[v].chunk),
               frame'[u].chunk[i] = frame'[v].chunk[j]
        PROVE  u = v /\ i = j
    <3>1. frame'[u].chunk = frame[u].chunk /\ frame'[v].chunk = frame[v].chunk
      BY <1>1
    <3> QED
      BY <2>1, <2>2, <3>1 DEF Unrepeated
  <2> QED
    BY <2>1, <2>2 DEF Unrepeated
<1>8. ChunkInWrite'
  BY DEF Placed, ChunkInWrite
<1> QED
  BY <1>6, <1>7, <1>8 DEF Placed

LEMMA OtherStepPlaced ==
  ASSUME Accounting, Placed, NEW t \in Thread, Step(t),
         ~Finish(t), ~CloseSpan(t), ~WriteChunk(t)
  PROVE  Placed'
<1>1. frame \in [Thread -> Frame] /\ frame[t] \in Frame /\ Idle.chunk = <<>>
  BY DEF Accounting, TypedButCount, Idle
<1>2. UNCHANGED <<spans, written>> /\ frame[t].pc # "write"
  BY DEF Step, AddSpan, SetTag, TestLocked, SetPriority, Inject, SetHeader, LockOnClose,
         SetMetric, countVars
<1>3. frame[t].chunk = <<>>
  BY <1>2 DEF Placed, ChunkInWrite
<1>4. \A s \in Span : state'[s] = "finished" <=> state[s] = "finished"
  BY DEF Step, AddSpan, SetTag, TestLocked, SetPriority, Inject, SetHeader, LockOnClose,
         SetMetric, Accounting, TypedButCount
<1>5. CASE frame' = frame
  BY <1>2, <1>3, <1>4, <1>5, NothingPlaced DEF Closing
<1>6. CASE Return(t) /\ ~Closing(t)
  <2>1. frame'[t] = Idle /\ \A u \in Thread \ {t} : frame'[u] = frame[u]
    BY <1>1, <1>6 DEF Return
  <2> QED
    BY <1>1, <1>2, <1>4, <1>6, <2>1, IdleFrame, NothingPlaced DEF Closing
<1>7. ASSUME NEW pc \in Pc, Goto(t, pc), Closing(t) <=> pc \in {"metric", "close"},
             pc # "lock"
      PROVE  Placed'
  <2>1. /\ frame'[t].pc = pc /\ frame'[t].span = frame[t].span
        /\ \A u \in Thread \ {t} : frame'[u] = frame[u]
    BY <1>7, GotoFrame DEF Accounting
  <2>2. frame'[t].chunk = <<>>
    BY <1>1, <1>3, <1>7 DEF Goto, Frame
  <2> QED
    BY <1>2, <1>4, <1>7, <2>1, <2>2, NothingPlaced DEF Closing
<1>8. CASE SetTag(t)
  <2>1. PICK v \in Priority :
           frame' = [frame EXCEPT ![t] = [Idle EXCEPT !.pc = "test", !.value = v]]
    BY <1>8 DEF SetTag
  <2>2. /\ frame'[t].pc = "test" /\ frame'[t].chunk = <<>>
        /\ \A u \in Thread \ {t} : frame'[u] = frame[u]
    BY <1>1, <2>1, IdleFrame DEF Frame
  <2>3. ~Closing(t) /\ ~Closing(t)'
    BY <1>8, <2>2 DEF SetTag, Closing
  <2> QED
    BY <1>2, <1>4, <2>2, <2>3, NothingPlaced
<1>9. CASE AddSpan(t)
  BY <1>5, <1>9 DEF AddSpan
<1>10. CASE TestLocked(t)
  BY <1>6, <1>7, <1>10 DEF TestLocked, Closing, Pc
<1>11. CASE SetPriority(t) \/ SetHeader(t)
  BY <1>6, <1>11 DEF SetPriority, SetHeader, Closing
<1>12. CASE Inject(t) \/ LockOnClose(t) \/ SetMetric(t)
  BY <1>7, <1>12 DEF Inject, LockOnClose, SetMetric, Closing, Pc
<1> QED
  BY <1>8, <1>9, <1>10, <1>11, <1>12 DEF Step

LEMMA FinishPlaced ==
  ASSUME Accounting, Placed, NEW t \in Thread, Finish(t)
  PROVE  Placed'
<1>1. PICK s \in Span :
        /\ state[s] = "open"
        /\ state' = [state EXCEPT ![s] = "finished"]
        /\ frame' = [frame EXCEPT ![t] =
              [Idle EXCEPT !.pc = IF s = rootSpan THEN "lock" ELSE "close", !.span = s]]
  BY DEF Finish
<1>2. frame[t].pc = "idle" /\ UNCHANGED <<spans, written>>
  BY DEF Finish, countVars
<1>3. /\ frame'[t].pc \in {"lock", "close"} /\ frame'[t].span = s
      /\ frame'[t].chunk = <<>> /\ \A u \in Thread \ {t} : frame'[u] = frame[u]
  BY <1>1, IdleFrame DEF Accounting, TypedButCount, Frame, Idle
<1>4. \A u \in Thread : frame'[u].chunk = frame[u].chunk
  BY <1>2, <1>3 DEF Placed, ChunkInWrite
<1>5. ~Closing(t) /\ Closing(t)' /\ \A u \in Thread \ {t} : Closing(u)' <=> Closing(u)
  BY <1>2, <1>3 DEF Closing
<1>6. \A r \in Span : BeingClosed(r)' <=> BeingClosed(r) \/ r = s
  BY <1>3, <1>5 DEF BeingClosed
<1>7. \A r \in Span : (Waiting(r)' <=> Waiting(r)) /\ (InChunk(r)' <=> InChunk(r))
  BY <1>2, <1>4 DEF Waiting, InChunk
<1>8. \A r \in Span : state'[r] = "finished" <=> state[r] = "finished" \/ r = s
  BY <1>1 DEF Accounting, TypedButCount
<1>9. ~BeingClosed(s) /\ ~Waiting(s) /\ ~InChunk(s) /\ written[s] = 0
  <2>1. state[s] # "finished" /\ written[s] \in Nat
    BY <1>1 DEF Accounting, TypedButCount
  <2>2. ~(BeingClosed(s) \/ Waiting(s) \/ InChunk(s) \/ written[s] > 0)
    BY <2>1 DEF Placed, Kept
  <2> QED
    BY <2>1, <2>2
<1>10. Kept' /\ Apart'
  BY <1>2, <1>6, <1>7, <1>8, <1>9 DEF Placed, Kept, Apart
<1>11. Unrepeated'
  BY <1>2, <1>4 DEF Placed, Unrepeated
<1>12. ChunkInWrite'
  BY <1>3 DEF Placed, ChunkInWrite
<1> QED
  BY <1>10, <1>11, <1>12 DEF Placed

LEMMA CloseSpanPlaced ==
  ASSUME Accounting, Placed, NEW t \in Thread, CloseSpan(t)
  PROVE  Placed'
<1> DEFINE s == frame[t].span
           closed == Append(spans, s)
<1>1. Closing(t) /\ s \in Span /\ state[s] = "finished" /\ frame[t].chunk = <<>>
  BY DEF CloseSpan, Closing, Accounting, OneCloser, Placed, ChunkInWrite
<1>2. spans \in Seq(Span) /\ closed \in Seq(Span) /\ Len(spans) \in Nat
      /\ Len(closed) = Len(spans) + 1 /\ closed[Len(spans) + 1] = s
      /\ \A i \in 1..Len(spans) : closed[i] = spans[i]
  BY <1>1 DEF Accounting, TypedButCount
<1>3. UNCHANGED <<state, written>>
  BY DEF CloseSpan
<1>4. \/ spans' = closed /\ Return(t)
      \/ /\ spans' = <<>>
         /\ frame' = [frame EXCEPT ![t] = [Idle EXCEPT !.pc = "write", !.chunk = closed]]
  BY DEF CloseSpan
<1> HIDE DEF closed
<1>5. /\ \A u \in Thread \ {t} : frame'[u] = frame[u]
      /\ \/ spans' = closed /\ frame'[t].pc = "idle" /\ frame'[t].chunk = <<>>
         \/ spans' = <<>> /\ frame'[t].pc = "write" /\ frame'[t].chunk = closed
  <2>1. frame \in [Thread -> Frame]
    BY DEF Accounting, TypedButCount
  <2>2. CASE spans' = closed /\ Return(t)
    <3>1. frame'[t] = Idle /\ \A u \in Thread \ {t} : frame'[u] = frame[u]
      BY <2>1, <2>2 DEF Return
    <3>2. Idle.pc = "idle" /\ Idle.chunk = <<>>
      BY DEF Idle
    <3> QED
      BY <2>2, <3>1, <3>2
  <2>3. ASSUME spans' = <<>>,
               frame' = [frame EXCEPT ![t] = [Idle EXCEPT !.pc = "write", !.chunk = closed]]
        PROVE  /\ frame'[t].pc = "write" /\ frame'[t].chunk = closed
               /\ \A u \in Thread \ {t} : frame'[u] = frame[u]
    BY <2>1, <2>3, IdleFrame DEF Frame
  <2> QED
    BY <1>4, <2>2, <2>3
<1>6. ~Closing(t)' /\ \A u \in Thread \ {t} : Closing(u)' <=> Closing(u)
  BY <1>5 DEF Closing
<1>7. \A r \in Span : BeingClosed(r)' <=> BeingClosed(r) /\ r # s
  BY <1>1, <1>5, <1>6 DEF BeingClosed, Accounting, OneCloser
<1>8. BeingClosed(s) /\ ~Waiting(s) /\ ~InChunk(s) /\ written[s] = 0
  BY <1>1 DEF BeingClosed, Placed, Apart
<1>9. \A r \in Span : (\E i \in 1..Len(closed) : closed[i] = r) <=> Waiting(r) \/ r = s
  BY <1>2 DEF Waiting
<1>10. \A i, j \in 1..Len(closed) : closed[i] = closed[j] => i = j
  <2>1. \A i \in 1..Len(spans) : closed[i] # s
    BY <1>2, <1>8 DEF Waiting
  <2>2. \A i, j \in 1..Len(spans) : closed[i] = closed[j] => i = j
    BY <1>2 DEF Placed, Unrepeated
  <2>3. \A i \in 1..Len(closed) : i \in 1..Len(spans) \/ i = Len(spans) + 1
    BY <1>2
  <2> QED
    BY <1>2, <2>1, <2>2, <2>3
<1>11. ChunkInWrite'
  BY <1>5 DEF Placed, ChunkInWrite
<1>12. CASE spans' = closed /\ frame'[t].chunk = <<>>
  <2>1. \A u \in Thread : frame'[u].chunk = frame[u].chunk
    BY <1>1, <1>5, <1>12
  <2>2. \A r \in Span : InChunk(r)' <=> InChunk(r)
    BY <2>1 DEF InChunk
  <2>3. \A r \in Span : Waiting(r)' <=> Waiting(r) \/ r = s
    BY <1>9, <1>12 DEF Waiting
  <2>4. Kept' /\ Apart'
    BY <1>1, <1>3, <1>7, <1>8, <2>2, <2>3 DEF Placed, Kept, Apart
  <2>5. Unrepeated'
    BY <1>3, <1>10, <1>12, <2>1 DEF Placed, Unrepeated
  <2> QED
    BY <1>11, <2>4, <2>5 DEF Placed
<1>13. CASE spans' = <<>> /\ frame'[t].chunk = closed
  <2>1. \A u \in Thread \ {t} : frame'[u].chunk = frame[u].chunk
    BY <1>5
  <2>2. \A r \in Span : ~Waiting(r)'
    BY <1>13 DEF Waiting
  <2>3. \A r \in Span : InChunk(r)' <=> InChunk(r) \/ Waiting(r) \/ r = s
    <3>1. \A r \in Span : InChunk(r) <=> \E u \in Thread \ {t} :
              \E i \in 1..Len(frame[u].chunk) : frame[u].chunk[i] = r
      BY <1>1 DEF InChunk
    <3>2. \A r \in Span : InChunk(r)' <=>
             \/ \E u \in Thread \ {t} :
                   \E i \in 1..Len(frame[u].chunk) : frame[u].chunk[i] = r
             \/ \E i \in 1..Len(closed) : closed[i] = r
      BY <1>13, <2>1 DEF InChunk
    <3> QED
      BY <1>9, <3>1, <3>2
  <2>4. Kept' /\ Apart'
    BY <1>1, <1>3, <1>7, <1>8, <2>2, <2>3 DEF Placed, Kept, Apart
  <2>5. Unrepeated'
    <3>1. ASSUME NEW u \in Thread \ {t}, NEW i \in 1..Len(frame[u].chunk),
                 NEW j \in 1..Len(closed)
          PROVE  frame[u].chunk[i] # closed[j]
      <4>1. closed[j] \in Span /\ (Waiting(closed[j]) \/ closed[j] = s)
        BY <1>2, <1>9
      <4>2. ~InChunk(closed[j])
        BY <1>8, <4>1 DEF Placed, Apart
      <4> QED
        BY <4>2 DEF InChunk
    <3>2. \A u, v \in Thread \ {t} :
             \A i \in 1..Len(frame[u].chunk), j \in 1..Len(frame[v].chunk) :
                frame[u].chunk[i] = frame[v].chunk[j] => u = v /\ i = j
      BY DEF Placed, Unrepeated
    <3>3. ASSUME NEW u \in Thread, NEW v \in Thread,
                 NEW i \in 1..Len(frame'[u].chunk), NEW j \in 1..Len(frame'[v].chunk),
                 frame'[u].chunk[i] = frame'[v].chunk[j]
          PROVE  u = v /\ i = j
      <4>1. CASE u = t /\ v = t
        BY <1>10, <1>13, <3>3, <4>1
      <4>2. CASE u # t /\ v = t
        BY <1>13, <2>1, <3>1, <3>3, <4>2
      <4>3. CASE u = t /\ v # t
        BY <1>13, <2>1, <3>1, <3>3, <4>3
      <4>4. CASE u # t /\ v # t
        BY <2>1, <3>2, <3>3, <4>4
      <4> QED
        BY <4>1, <4>2, <4>3, <4>4
    <3> QED
      BY <1>3, <1>13, <3>3 DEF Placed, Unrepeated
  <2> QED
    BY <1>11, <2>4, <2>5 DEF Placed
<1> QED
  BY <1>5, <1>12, <1>13

(* How often a sequence that repeats nothing holds a span.                 *)
LEMMA OccurrencesOnce ==
  ASSUME NEW seq \in Seq(Span), NEW s \in Span,
         \A i, j \in 1..Len(seq) : seq[i] = seq[j] => i = j
  PROVE  Occurrences(seq, s) = IF \E i \in 1..Len(seq) : seq[i] = s THEN 1 ELSE 0
<1>1. CASE \E i \in 1..Len(seq) : seq[i] = s
  <2>1. PICK i \in 1..Len(seq) : seq[i] = s
    BY <1>1
  <2>2. {j \in 1..Len(seq) : seq[j] = s} = {i}
    BY <2>1
  <2> QED
    BY <1>1, <2>2, FS_Singleton DEF Occurrences
<1>2. CASE ~\E i \in 1..Len(seq) : seq[i] = s
  <2>1. {j \in 1..Len(seq) : seq[j] = s} = {}
    BY <1>2
  <2> QED
    BY <1>2, <2>1, FS_EmptySet DEF Occurrences
<1> QED
  BY <1>1, <1>2

LEMMA WriteChunkPlaced ==
  ASSUME Accounting, Placed, NEW t \in Thread, WriteChunk(t)
  PROVE  Placed'
<1> DEFINE chunk == frame[t].chunk
           In(s) == \E i \in 1..Len(chunk) : chunk[i] = s
<1>1. frame \in [Thread -> Frame] /\ chunk \in Seq(Span) /\ written \in [Span -> Nat]
  BY DEF Accounting, TypedButCount, Frame
<1>2. UNCHANGED <<state, spans>> /\ ~Closing(t)
  BY DEF WriteChunk, countVars, Closing
<1>3. /\ frame'[t] = Idle /\ frame'[t].chunk = <<>> /\ ~Closing(t)'
      /\ \A u \in Thread \ {t} : frame'[u] = frame[u]
  BY <1>1 DEF WriteChunk, Return, Idle, Closing
<1>4. \A s \in Span : written'[s] = IF In(s) THEN written[s] + 1 ELSE written[s]
  <2>1. \A i, j \in 1..Len(chunk) : chunk[i] = chunk[j] => i = j
    BY DEF Placed, Unrepeated
  <2>2. ASSUME NEW s \in Span
        PROVE  Occurrences(chunk, s) = IF In(s) THEN 1 ELSE 0
    BY <1>1, <2>1, OccurrencesOnce
  <2>3. \A s \in Span : written'[s] = written[s] + Occurrences(chunk, s)
    BY DEF WriteChunk
  <2> QED
    BY <1>1, <2>2, <2>3
<1>5. \A s \in Span : BeingClosed(s)' <=> BeingClosed(s)
  BY <1>2, <1>3 DEF BeingClosed, Closing
<1>6. \A s \in Span : (Waiting(s)' <=> Waiting(s)) /\ (In(s) => InChunk(s))
  BY <1>2 DEF Waiting, InChunk
<1>7. \A s \in Span : InChunk(s)' <=> InChunk(s) /\ ~In(s)
  <2>1. \A s \in Span : InChunk(s)' <=> \E u \in Thread \ {t} :
           \E i \in 1..Len(frame[u].chunk) : frame[u].chunk[i] = s
    BY <1>3 DEF InChunk
  <2>2. ASSUME NEW s \in Span, NEW u \in Thread \ {t},
               NEW i \in 1..Len(frame[u].chunk), frame[u].chunk[i] = s
        PROVE  ~In(s)
    BY <2>2 DEF Placed, Unrepeated
  <2> QED
    BY <2>1, <2>2 DEF InChunk
<1> HIDE DEF In
<1>8. Kept'
  BY <1>1, <1>2, <1>4, <1>5, <1>6, <1>7 DEF Placed, Kept
<1>9. Apart'
  BY <1>1, <1>2, <1>4, <1>5, <1>6, <1>7 DEF Placed, Apart
<1>10. Unrepeated'
  <2>1. \A s \in Span : written'[s] <= 1
    BY <1>1, <1>4, <1>6 DEF Placed, Apart, Unrepeated
  <2>2. \A u, v \in Thread :
           \A i \in 1..Len(frame'[u].chunk), j \in 1..Len(frame'[v].chunk) :
              frame'[u].chunk[i] = frame'[v].chunk[j] => u = v /\ i = j
    BY <1>3 DEF Placed, Unrepeated
  <2> QED
    BY <1>2, <2>1, <2>2 DEF Placed, Unrepeated
<1>11. ChunkInWrite'
  BY <1>3 DEF Placed, ChunkInWrite
<1> QED
  BY <1>8, <1>9, <1>10, <1>11 DEF Placed

LEMMA InitPlaced == Init => Placed
<1> SUFFICES ASSUME Init PROVE Placed
  OBVIOUS
<1>1. /\ \A t \in Thread : ~Closing(t) /\ frame[t].chunk = <<>>
      /\ spans = <<>> /\ \A s \in Span : written[s] = 0 /\ state[s] = "new"
  BY DEF Init, Closing, Idle
<1> QED
  BY <1>1 DEF Placed, Kept, Apart, Unrepeated, ChunkInWrite, BeingClosed, Waiting, InChunk

LEMMA PlacedStep == Accounting /\ Placed /\ [Next]_vars => Placed'
<1>1. ASSUME Accounting, Placed, NEW t \in Thread, Step(t)
      PROVE  Placed'
  BY <1>1, OtherStepPlaced, FinishPlaced, CloseSpanPlaced, WriteChunkPlaced
<1>2. Placed /\ UNCHANGED vars => Placed'
  BY DEF vars, countVars, Placed, Kept, Apart, Unrepeated, ChunkInWrite, BeingClosed,
         Waiting, InChunk, Closing
<1> QED
  BY <1>1, <1>2, NextIsStep

LEMMA PlacedMeans == Accounting /\ Placed => SpansInOnePlace
<1> SUFFICES ASSUME Accounting, Placed, NEW s \in Span
             PROVE  IF state[s] = "finished" THEN \E x \in Places(s) : Places(s) = {x}
                    ELSE Places(s) = {}
  BY DEF SpansInOnePlace
<1>1. \A x : x \in Places(s) <=>
         \/ \E t \in Thread : Closing(t) /\ frame[t].span = s /\ x = <<"closing", t>>
         \/ \E i \in 1..Len(spans) : spans[i] = s /\ x = <<"spans", i>>
         \/ \E t \in Thread : \E i \in 1..Len(frame[t].chunk) :
               frame[t].chunk[i] = s /\ x = <<"chunk", t, i>>
         \/ \E i \in 1..written[s] : x = <<"written", i>>
  BY DEF Places
<1>2. /\ \A t, u \in Thread : Closing(t) /\ Closing(u) /\ frame[t].span = frame[u].span
            => t = u
      /\ written[s] \in 0..1
  BY DEF Accounting, OneCloser, TypedButCount, Placed, Unrepeated
<1>3. \A x, y \in Places(s) : x = y
  <2>1. CASE BeingClosed(s)
    <3>1. ~Waiting(s) /\ ~InChunk(s) /\ written[s] = 0
      BY <2>1 DEF Placed, Apart
    <3>2. \A x \in Places(s) : \E t \in Thread :
             Closing(t) /\ frame[t].span = s /\ x = <<"closing", t>>
      BY <1>1, <3>1 DEF Waiting, InChunk
    <3> QED
      BY <1>2, <3>2
  <2>2. CASE Waiting(s) /\ ~BeingClosed(s)
    <3>1. ~InChunk(s) /\ written[s] = 0
      BY <2>2 DEF Placed, Apart
    <3>2. \A x \in Places(s) : \E i \in 1..Len(spans) : spans[i] = s /\ x = <<"spans", i>>
      BY <1>1, <2>2, <3>1 DEF BeingClosed, InChunk
    <3> QED
      BY <3>2 DEF Placed, Unrepeated
  <2>3. CASE InChunk(s) /\ ~Waiting(s) /\ ~BeingClosed(s)
    <3>1. written[s] = 0
      BY <2>3 DEF Placed, Apart
    <3>2. \A x \in Places(s) : \E t \in Thread : \E i \in 1..Len(frame[t].chunk) :
             frame[t].chunk[i] = s /\ x = <<"chunk", t, i>>
      BY <1>1, <2>3, <3>1 DEF BeingClosed, Waiting
    <3> QED
      BY <3>2 DEF Placed, Unrepeated
  <2>4. CASE ~InChunk(s) /\ ~Waiting(s) /\ ~BeingClosed(s)
    <3>1. \A x \in Places(s) : \E i \in 1..written[s] : x = <<"written", i>>
      BY <1>1, <2>4 DEF BeingClosed, Waiting, InChunk
    <3> QED
      BY <1>2, <3>1
  <2> QED
    BY <2>1, <2>2, <2>3, <2>4
<1>4. Places(s) # {} <=> BeingClosed(s) \/ Waiting(s) \/ InChunk(s) \/ written[s] > 0
  <2>1. BeingClosed(s) => \E x : x \in Places(s)
    BY <1>1 DEF BeingClosed
  <2>2. Waiting(s) => \E x : x \in Places(s)
    BY <1>1 DEF Waiting
  <2>3. InChunk(s) => \E x : x \in Places(s)
    BY <1>1 DEF InChunk
  <2>4. written[s] > 0 => \E x : x \in Places(s)
    <3>1. written[s] > 0 => 1 \in 1..written[s]
      BY <1>2
    <3>2. 1 \in 1..written[s] => <<"written", 1>> \in Places(s)
      BY <1>1
    <3> QED
      BY <3>1, <3>2
  <2>5. ASSUME NEW x \in Places(s)
        PROVE  BeingClosed(s) \/ Waiting(s) \/ InChunk(s) \/ written[s] > 0
    BY <1>1, <1>2 DEF BeingClosed, Waiting, InChunk
  <2> QED
    BY <2>1, <2>2, <2>3, <2>4, <2>5
<1>5. Places(s) # {} <=> state[s] = "finished"
  BY <1>4 DEF Placed, Kept
<1> QED
  BY <1>3, <1>5

(* However closes, partial flushes and new spans interleave (AddSpan,      *)
(* CloseSpan), no finished span is lost, written twice, or written while   *)
(* it is open.                                                             *)
THEOREM SpansConserved == Spec => []SpansInOnePlace
  BY InitPlaced, PlacedStep, PlacedMeans, AccountingInvariant, PTL DEF Spec
=============================================================================
