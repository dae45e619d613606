---------------------------- MODULE TraceContext ----------------------------
(***************************************************************************)
(* One local trace (TraceContext.cs): the spans that threads start, tag    *)
(* and finish concurrently, the chunks in which finished spans go to the   *)
(* agent writer, and the sampling priority that is decided, overridden and *)
(* locked on the way.                                                      *)
(*                                                                         *)
(* Only AddSpan and a part of CloseSpan run under the lock of the trace;   *)
(* the sampling priority is read and written outside of it.  A thread's    *)
(* frame names its next statement that touches shared state.               *)
(***************************************************************************)
EXTENDS Integers, Sequences, FiniteSets

CONSTANTS
    Thread,
    Span,
    NoSpan,
    Priority,
    NoPriority,           \* null
    ParentPriority,       \* what a propagated context may carry
    SamplerDecision,      \* what the sampler may answer
    PartialFlushEnabled,
    PartialFlushMinSpans

ASSUME TraceAssumption ==
    /\ IsFiniteSet(Span)
    /\ NoSpan \notin Span
    /\ NoPriority \notin Priority
    /\ ParentPriority \subseteq Priority \cup {NoPriority}
    /\ SamplerDecision \subseteq Priority   \* a Tracer always has a sampler
    /\ PartialFlushEnabled \in BOOLEAN
    /\ PartialFlushMinSpans \in Nat \ {0}

VARIABLES
    parentPriority,         \* carried by the context the root started from
    rootSpan,
    openSpans,
    spans,                  \* closed and not yet written
    samplingPriority,
    samplingPriorityLocked,
    state,                  \* per span: "new", "open" or "finished"
    metric,                 \* per span: its sampling priority metric
    frame,                  \* per thread
    written,                \* history: how often each span was written
    headers,                \* history: the priorities that were injected
    overtaken               \* history: a set took effect after a lock

countVars    == <<openSpans, spans>>
priorityVars == <<samplingPriority, samplingPriorityLocked, overtaken>>
vars == <<parentPriority, rootSpan, countVars, priorityVars, state, metric,
          frame, written, headers>>

Idle == [pc |-> "idle", span |-> NoSpan, value |-> NoPriority, chunk |-> <<>>]

(* CreateSpanContext: a new trace takes over the parent's priority.        *)
Init ==
    /\ parentPriority \in ParentPriority
    /\ rootSpan = NoSpan
    /\ openSpans = 0
    /\ spans = <<>>
    /\ samplingPriority = parentPriority
    /\ samplingPriorityLocked = FALSE
    /\ state = [s \in Span |-> "new"]
    /\ metric = [s \in Span |-> NoPriority]
    /\ frame = [t \in Thread |-> Idle]
    /\ written = [s \in Span |-> 0]
    /\ headers = {}
    /\ overtaken = FALSE

Return(t) == frame' = [frame EXCEPT ![t] = Idle]
Goto(t, pc) == frame' = [frame EXCEPT ![t].pc = pc]

-----------------------------------------------------------------------------
(* AddSpan.                                                                *)

(* The first span is the root; it decides the priority, unless the trace   *)
(* was created with one.                                                   *)
DecidePriority ==
    IF rootSpan # NoSpan \/ samplingPriority # NoPriority
      THEN UNCHANGED <<samplingPriority, samplingPriorityLocked>>
    ELSE IF parentPriority # NoPriority
      THEN samplingPriority' = parentPriority /\ samplingPriorityLocked' = TRUE
    ELSE /\ samplingPriority' \in SamplerDecision
         /\ UNCHANGED samplingPriorityLocked

AddSpan(t) ==
    /\ frame[t].pc = "idle"
    /\ \E s \in Span :
          /\ state[s] = "new"
          /\ state' = [state EXCEPT ![s] = "open"]
          /\ rootSpan' = IF rootSpan = NoSpan THEN s ELSE rootSpan
    /\ DecidePriority
    /\ openSpans' = openSpans + 1
    /\ UNCHANGED <<spans, frame, metric, written, headers, overtaken>>

-----------------------------------------------------------------------------
(* SetTag with the sampling priority, or to keep or drop the trace: it is  *)
(* refused on a finished span; the setter then tests the lock, and only    *)
(* then stores the value.                                                  *)
SetTag(t) ==
    /\ frame[t].pc = "idle"
    /\ \E s \in Span : state[s] = "open"
    /\ \E v \in Priority :
          frame' = [frame EXCEPT ![t] = [Idle EXCEPT !.pc = "test", !.value = v]]
    /\ UNCHANGED <<rootSpan, countVars, priorityVars, state, metric, written,
                   headers>>

TestLocked(t) ==
    /\ frame[t].pc = "test"
    /\ IF samplingPriorityLocked THEN Return(t) ELSE Goto(t, "set")
    /\ UNCHANGED <<rootSpan, countVars, priorityVars, state, metric, written,
                   headers>>

SetPriority(t) ==
    /\ frame[t].pc = "set"
    /\ samplingPriority' = frame[t].value
    /\ overtaken' = (overtaken \/ samplingPriorityLocked)
    /\ Return(t)
    /\ UNCHANGED <<rootSpan, countVars, samplingPriorityLocked, state, metric,
                   written, headers>>

(* Variant: nothing is locked.                                             *)
NoLock == UNCHANGED <<samplingPriority, samplingPriorityLocked, overtaken>>

LockSamplingPriority ==
    /\ samplingPriorityLocked' =
          (samplingPriorityLocked \/ samplingPriority # NoPriority)
    /\ UNCHANGED <<samplingPriority, overtaken>>

(* SpanContextPropagator.Inject: lock, then read.                          *)
Inject(t) ==
    /\ frame[t].pc = "idle"
    /\ \E s \in Span : state[s] # "new"
    /\ LockSamplingPriority
    /\ Goto(t, "inject")
    /\ UNCHANGED <<rootSpan, countVars, state, metric, written, headers>>

SetHeader(t) ==
    /\ frame[t].pc = "inject"
    /\ headers' = headers \cup {samplingPriority}
    /\ Return(t)
    /\ UNCHANGED <<rootSpan, countVars, priorityVars, state, metric, written>>

-----------------------------------------------------------------------------
(* Span.Finish and CloseSpan.                                              *)

(* Variant: IsFinished is not tested before the span is closed.            *)
FinishTwice(t) ==
    /\ frame[t].pc = "idle"
    /\ \E s \in Span :
          /\ state[s] # "new"
          /\ state' = [state EXCEPT ![s] = "finished"]
          /\ frame' = [frame EXCEPT ![t] =
                [Idle EXCEPT !.pc = IF s = rootSpan THEN "lock" ELSE "close",
                             !.span = s]]
    /\ UNCHANGED <<rootSpan, countVars, priorityVars, metric, written, headers>>

(* A second Finish of a span does nothing.                                 *)
Finish(t) ==
    /\ frame[t].pc = "idle"
    /\ \E s \in Span :
          /\ state[s] = "open"
          /\ state' = [state EXCEPT ![s] = "finished"]
          /\ frame' = [frame EXCEPT ![t] =
                [Idle EXCEPT !.pc = IF s = rootSpan THEN "lock" ELSE "close",
                             !.span = s]]
    /\ UNCHANGED <<rootSpan, countVars, priorityVars, metric, written, headers>>

LockOnClose(t) ==
    /\ frame[t].pc = "lock"
    /\ LockSamplingPriority
    /\ Goto(t, "metric")
    /\ UNCHANGED <<rootSpan, countVars, state, metric, written, headers>>

SetMetric(t) ==
    /\ frame[t].pc = "metric"
    /\ metric' = [metric EXCEPT ![frame[t].span] = samplingPriority]
    /\ Goto(t, "close")
    /\ UNCHANGED <<rootSpan, countVars, priorityVars, state, written, headers>>

(* Variant: a partial flush is triggered one span late.                    *)
ShouldFlushLate(closed, open) ==
    open = 0 \/ (PartialFlushEnabled /\ Len(closed) > PartialFlushMinSpans)

ShouldFlush(closed, open) ==
    open = 0 \/ (PartialFlushEnabled /\ Len(closed) >= PartialFlushMinSpans)

(* Variant: the last span to close is tested before it is counted.         *)
CloseThenCount(t) ==
    LET closed == Append(spans, frame[t].span)
    IN  /\ frame[t].pc = "close"
        /\ openSpans' = openSpans - 1
        /\ IF ShouldFlush(closed, openSpans)
              THEN /\ spans' = <<>>
                   /\ frame' = [frame EXCEPT ![t] =
                                  [Idle EXCEPT !.pc = "write", !.chunk = closed]]
              ELSE spans' = closed /\ Return(t)
        /\ UNCHANGED <<rootSpan, priorityVars, state, metric, written, headers>>

(* Variant: _spans is not replaced on a partial flush.                     *)
CloseKeepingSpans(t) ==
    LET closed == Append(spans, frame[t].span)
        open   == openSpans - 1
    IN  /\ frame[t].pc = "close"
        /\ openSpans' = open
        /\ spans' = IF open = 0 THEN <<>> ELSE closed
        /\ IF ShouldFlush(closed, open)
              THEN frame' = [frame EXCEPT ![t] =
                                  [Idle EXCEPT !.pc = "write", !.chunk = closed]]
              ELSE Return(t)
        /\ UNCHANGED <<rootSpan, priorityVars, state, metric, written, headers>>

(* The part of CloseSpan under the lock of the trace.                      *)
CloseSpan(t) ==
    LET closed == Append(spans, frame[t].span)
        open   == openSpans - 1
    IN  /\ frame[t].pc = "close"
        /\ openSpans' = open
        /\ IF ShouldFlush(closed, open)
              THEN /\ spans' = <<>>
                   /\ frame' = [frame EXCEPT ![t] =
                                  [Idle EXCEPT !.pc = "write", !.chunk = closed]]
              ELSE spans' = closed /\ Return(t)
        /\ UNCHANGED <<rootSpan, priorityVars, state, metric, written, headers>>

Occurrences(seq, s) == Cardinality({i \in 1..Len(seq) : seq[i] = s})

(* Tracer.Write.                                                           *)
WriteChunk(t) ==
    /\ frame[t].pc = "write"
    /\ written' = [s \in Span |-> written[s] + Occurrences(frame[t].chunk, s)]
    /\ Return(t)
    /\ UNCHANGED <<rootSpan, countVars, priorityVars, state, metric, headers>>

-----------------------------------------------------------------------------
Next ==
    /\ \E t \in Thread :
          \/ AddSpan(t)
          \/ SetTag(t) \/ TestLocked(t) \/ SetPriority(t)
          \/ Inject(t) \/ SetHeader(t)
          \/ Finish(t) \/ LockOnClose(t) \/ SetMetric(t)
          \/ CloseSpan(t) \/ WriteChunk(t)
    /\ UNCHANGED parentPriority

Spec == Init /\ [][Next]_vars

-----------------------------------------------------------------------------
(* What must hold.                                                         *)

Pc == {"idle", "test", "set", "inject", "lock", "metric", "close", "write"}

Frame == [pc : Pc, span : Span \cup {NoSpan},
          value : Priority \cup {NoPriority}, chunk : Seq(Span)]

(* Every variable, and every thread's frame, has its type; the count of    *)
(* open spans in particular never falls below zero.                        *)
TypeOK ==
    /\ parentPriority \in Priority \cup {NoPriority}
    /\ rootSpan \in Span \cup {NoSpan}
    /\ openSpans \in Nat
    /\ spans \in Seq(Span)
    /\ samplingPriority \in Priority \cup {NoPriority}
    /\ samplingPriorityLocked \in BOOLEAN /\ overtaken \in BOOLEAN
    /\ state \in [Span -> {"new", "open", "finished"}]
    /\ metric \in [Span -> Priority \cup {NoPriority}]
    /\ frame \in [Thread -> Frame]
    /\ written \in [Span -> Nat]
    /\ headers \subseteq Priority \cup {NoPriority}

(* The span a thread is about to close.                                    *)
Closing(t) == frame[t].pc \in {"lock", "metric", "close"}

(* Where a finished span is.                                               *)
Places(s) ==
    {<<"closing", t>> : t \in {u \in Thread : Closing(u) /\ frame[u].span = s}}
    \cup {<<"spans", i>> : i \in {j \in 1..Len(spans) : spans[j] = s}}
    \cup (UNION {{<<"chunk", t, i>> : i \in {j \in 1..Len(frame[t].chunk) :
                                               frame[t].chunk[j] = s}}
                 : t \in Thread})
    \cup {<<"written", i>> : i \in 1..written[s]}

(* Every finished span is in exactly one place, and an open one in none:   *)
(* however closes, partial flushes and new spans interleave, no span is    *)
(* lost, written twice, or written while it is open.                       *)
SpansInOnePlace ==
    \A s \in Span :
        IF state[s] = "finished" THEN \E x \in Places(s) : Places(s) = {x}
        ELSE Places(s) = {}

Unclosed == {s \in Span : \/ state[s] = "open"
                           \/ \E t \in Thread : Closing(t) /\ frame[t].span = s}

(* _openSpans counts the spans that have not been through CloseSpan, so    *)
(* that it is zero exactly when the trace has nothing left to wait for.    *)
OpenSpansExact == openSpans = Cardinality(Unclosed)

(* Closed spans do not wait for a close that may never come: none waits    *)
(* when no span is open, and fewer than a partial flush takes wait at all. *)
NoneStranded ==
    /\ openSpans = 0 => spans = <<>>
    /\ PartialFlushEnabled => Len(spans) < PartialFlushMinSpans

Sent == (headers \cup {metric[s] : s \in Span}) \ {NoPriority}

(* Every service this trace calls, and the agent, are told the same        *)
(* sampling priority, unless a set that had passed its test of the lock    *)
(* was overtaken by the lock.                                              *)
OnePrioritySent == overtaken \/ \A p, q \in Sent : p = q

(* The inductive part of OnePrioritySent: there is a priority from the     *)
(* first span on, nothing is locked before it, nothing is told before the  *)
(* lock, and what is told is the current priority until a set overtakes    *)
(* the lock.                                                               *)
ToldOnlyWhenLocked ==
    /\ \A s \in Span : state[s] # "new" => rootSpan # NoSpan
    /\ rootSpan # NoSpan => samplingPriority # NoPriority
    /\ samplingPriorityLocked => rootSpan # NoSpan
    /\ \A t \in Thread : frame[t].pc \in {"test", "set"} => frame[t].value # NoPriority
    /\ \A t \in Thread : frame[t].pc \in {"inject", "metric"} => samplingPriorityLocked
    /\ Sent # {} => samplingPriorityLocked
    /\ overtaken \/ Sent \subseteq {samplingPriority}

(* The inductive part of OpenSpansExact: a span is closed by one thread,   *)
(* once, after it is marked finished.                                      *)
OneCloser ==
    /\ \A t \in Thread : Closing(t) =>
          frame[t].span \in Span /\ state[frame[t].span] = "finished"
    /\ \A t, u \in Thread : (Closing(t) /\ Closing(u) /\ t # u) =>
          frame[t].span # frame[u].span

(* The inductive part of SpansInOnePlace: a finished span is being closed, *)
(* waits among the closed ones, is in a chunk on its way to the writer, or *)
(* has been written, once in one of these places; only a thread about to   *)
(* write has a chunk.                                                      *)
BeingClosed(s) == \E t \in Thread : Closing(t) /\ frame[t].span = s
Waiting(s)     == \E i \in 1..Len(spans) : spans[i] = s
InChunk(s)     == \E t \in Thread : \E i \in 1..Len(frame[t].chunk) :
                      frame[t].chunk[i] = s

Kept == \A s \in Span :
    state[s] = "finished"
       <=> BeingClosed(s) \/ Waiting(s) \/ InChunk(s) \/ written[s] > 0
Apart == \A s \in Span :
    /\ BeingClosed(s) => ~Waiting(s) /\ ~InChunk(s) /\ written[s] = 0
    /\ Waiting(s) => ~InChunk(s) /\ written[s] = 0
    /\ InChunk(s) => written[s] = 0
Unrepeated ==
    /\ \A i, j \in 1..Len(spans) : spans[i] = spans[j] => i = j
    /\ \A t, u \in Thread :
          \A i \in 1..Len(frame[t].chunk), j \in 1..Len(frame[u].chunk) :
             frame[t].chunk[i] = frame[u].chunk[j] => t = u /\ i = j
    /\ \A s \in Span : written[s] <= 1
ChunkInWrite == \A t \in Thread : frame[t].pc # "write" => frame[t].chunk = <<>>
Placed == Kept /\ Apart /\ Unrepeated /\ ChunkInWrite

(* "lock sampling priority when a span is started from a propagated trace" *)
(* (TraceContext.cs:72).                                                   *)
PropagatedPriorityLocked ==
    (rootSpan # NoSpan /\ parentPriority # NoPriority) => samplingPriorityLocked
=============================================================================
