----------------------------- MODULE RateLimiter -----------------------------
(***************************************************************************)
(* The rate limiter of the sampler (RateLimiter.cs): threads ask           *)
(* concurrently whether a trace may be kept.  The timestamps of the        *)
(* admitted ones are in a queue; a caller that wins the flag `refreshing'  *)
(* shifts the statistics and removes old timestamps, the others go on with *)
(* what they find.  A frame names the thread's next statement that touches *)
(* shared state.                                                           *)
(*                                                                         *)
(* Limits of zero and below return before they touch any state, and are    *)
(* left out.  The clock does not run backwards.                            *)
(***************************************************************************)
EXTENDS Integers, Sequences, FiniteSets

CONSTANTS
    Thread,
    Trace,                \* each asks once, when its root span is added
    NoTrace,
    Limit,                \* _maxTracesPerInterval
    Interval,             \* _interval, in ticks of the clock
    MaxTime               \* bound: the clock stops here

ASSUME LimiterAssumption ==
    /\ IsFiniteSet(Thread)
    /\ NoTrace \notin Trace
    /\ Limit \in Nat \ {0}
    /\ Interval \in Nat
    /\ MaxTime \in Nat

VARIABLES
    clock,                  \* Clock.UtcNow
    intervalQueue,          \* timestamps; an entry also names its trace
    windowBegin,
    refreshing,
    windowChecks, windowAllowed,
    previousWindowChecks, previousWindowAllowed,
    frame,                  \* per thread
    asked,                  \* history: the traces a call was made for
    admitted                \* history: every entry that was ever enqueued

counters == <<windowChecks, windowAllowed, previousWindowChecks,
              previousWindowAllowed, windowBegin>>
vars == <<clock, intervalQueue, refreshing, counters, frame, asked, admitted>>

NoTime == -1
Entry == [trace : Trace, time : 0 .. MaxTime]

(* now: when this call refreshed; time: the timestamp it will enqueue.     *)
Idle == [pc |-> "idle", trace |-> NoTrace, now |-> NoTime, time |-> NoTime]

Init ==
    /\ clock = 0
    /\ intervalQueue = <<>>
    /\ windowBegin = 0
    /\ refreshing = FALSE
    /\ windowChecks = 0 /\ windowAllowed = 0
    /\ previousWindowChecks = 0 /\ previousWindowAllowed = 0
    /\ frame = [t \in Thread |-> Idle]
    /\ asked = {}
    /\ admitted = {}

At(t, pc) == frame[t].pc = pc
Goto(t, pc) == frame' = [frame EXCEPT ![t].pc = pc]
Return(t) == frame' = [frame EXCEPT ![t] = Idle]

Tick ==
    /\ clock < MaxTime
    /\ clock' = clock + 1
    /\ UNCHANGED <<intervalQueue, refreshing, counters, frame, asked, admitted>>

-----------------------------------------------------------------------------
(* WaitForRefresh.                                                         *)

Allowed(t) ==
    /\ At(t, "idle")
    /\ \E r \in Trace \ asked :
         /\ frame' = [frame EXCEPT ![t].pc = "refresh", ![t].trace = r]
         /\ asked' = asked \cup {r}
    /\ UNCHANGED <<clock, intervalQueue, refreshing, counters, admitted>>

(* A caller that finds a refresh in progress does not wait for it.         *)
TryRefresh(t) ==
    /\ At(t, "refresh")
    /\ refreshing' = TRUE
    /\ Goto(t, IF refreshing THEN "check" ELSE "now")
    /\ UNCHANGED <<clock, intervalQueue, counters, asked, admitted>>

ReadClock(t) ==
    /\ At(t, "now")
    /\ frame' = [frame EXCEPT ![t].now = clock,
          ![t].pc = IF clock - windowBegin >= Interval THEN "shiftAllowed" ELSE "peek"]
    /\ UNCHANGED <<clock, intervalQueue, refreshing, counters, asked, admitted>>

(* The counts are copied and reset one after the other, while callers that *)
(* did not refresh increment them.                                         *)
ShiftAllowed(t) ==
    /\ At(t, "shiftAllowed")
    /\ previousWindowAllowed' = windowAllowed
    /\ Goto(t, "shiftChecks")
    /\ UNCHANGED <<clock, intervalQueue, refreshing, windowBegin, windowChecks,
                   windowAllowed, previousWindowChecks, asked, admitted>>

ShiftChecks(t) ==
    /\ At(t, "shiftChecks")
    /\ previousWindowChecks' = windowChecks
    /\ Goto(t, "resetAllowed")
    /\ UNCHANGED <<clock, intervalQueue, refreshing, windowBegin, windowChecks,
                   windowAllowed, previousWindowAllowed, asked, admitted>>

(* Variant: the reset of one count is forgotten.                           *)
KeepAllowed(t) ==
    /\ At(t, "resetAllowed")
    /\ Goto(t, "resetChecks")
    /\ UNCHANGED <<clock, intervalQueue, refreshing, counters, asked, admitted>>

ResetAllowed(t) ==
    /\ At(t, "resetAllowed")
    /\ windowAllowed' = 0
    /\ Goto(t, "resetChecks")
    /\ UNCHANGED <<clock, intervalQueue, refreshing, windowBegin, windowChecks,
                   previousWindowChecks, previousWindowAllowed, asked, admitted>>

(* Only the refreshing thread reads windowBegin.                           *)
ResetChecks(t) ==
    /\ At(t, "resetChecks")
    /\ windowChecks' = 0
    /\ windowBegin' = frame[t].now
    /\ Goto(t, "peek")
    /\ UNCHANGED <<clock, intervalQueue, refreshing, windowAllowed,
                   previousWindowChecks, previousWindowAllowed, asked, admitted>>

(* Variant: an entry leaves when it is exactly one interval old.           *)
ExpiredEarly(now, entry) == now - entry.time >= Interval

Expired(now, entry) == now - entry.time > Interval

(* The loop over old timestamps: TryPeek and TryDequeue are two steps.     *)
Peek(t) ==
    /\ At(t, "peek")
    /\ Goto(t, IF intervalQueue # <<>> /\ Expired(frame[t].now, Head(intervalQueue))
                 THEN "dequeue" ELSE "release")
    /\ UNCHANGED <<clock, intervalQueue, refreshing, counters, asked, admitted>>

(* Variant: one old timestamp is removed, not all.                         *)
DequeueOne(t) ==
    /\ At(t, "dequeue")
    /\ intervalQueue' = IF intervalQueue = <<>> THEN <<>> ELSE Tail(intervalQueue)
    /\ Goto(t, "release")
    /\ UNCHANGED <<clock, refreshing, counters, asked, admitted>>

Dequeue(t) ==
    /\ At(t, "dequeue")
    /\ intervalQueue' = IF intervalQueue = <<>> THEN <<>> ELSE Tail(intervalQueue)
    /\ Goto(t, "peek")
    /\ UNCHANGED <<clock, refreshing, counters, asked, admitted>>

Release(t) ==
    /\ At(t, "release")
    /\ refreshing' = FALSE
    /\ Goto(t, "check")
    /\ UNCHANGED <<clock, intervalQueue, counters, asked, admitted>>

-----------------------------------------------------------------------------
(* The rest of Allowed.                                                    *)

CountCheck(t) ==
    /\ At(t, "check")
    /\ windowChecks' = windowChecks + 1
    /\ Goto(t, "count")
    /\ UNCHANGED <<clock, intervalQueue, refreshing, windowBegin, windowAllowed,
                   previousWindowChecks, previousWindowAllowed, asked, admitted>>

(* The count may be out of date when the timestamp is enqueued.            *)
Refuse(t) ==
    /\ At(t, "count")
    /\ Len(intervalQueue) >= Limit
    /\ Return(t)
    /\ UNCHANGED <<clock, intervalQueue, refreshing, counters, asked, admitted>>

Admit(t) ==
    /\ At(t, "count")
    /\ Len(intervalQueue) < Limit
    /\ Goto(t, "stamp")
    /\ UNCHANGED <<clock, intervalQueue, refreshing, counters, asked, admitted>>

(* Variant: the timestamp is the time of the call's refresh.               *)
StampWithRefreshTime(t) ==
    /\ At(t, "stamp")
    /\ frame' = [frame EXCEPT ![t].pc = "enqueue", ![t].time = frame[t].now]
    /\ UNCHANGED <<clock, intervalQueue, refreshing, counters, asked, admitted>>

Stamp(t) ==
    /\ At(t, "stamp")
    /\ frame' = [frame EXCEPT ![t].pc = "enqueue", ![t].time = clock]
    /\ UNCHANGED <<clock, intervalQueue, refreshing, counters, asked, admitted>>

EntryOf(t) == [trace |-> frame[t].trace, time |-> frame[t].time]

Enqueue(t) ==
    /\ At(t, "enqueue")
    /\ intervalQueue' = Append(intervalQueue, EntryOf(t))
    /\ admitted' = admitted \cup {EntryOf(t)}
    /\ Goto(t, "allowed")
    /\ UNCHANGED <<clock, refreshing, counters, asked>>

CountAllowed(t) ==
    /\ At(t, "allowed")
    /\ windowAllowed' = windowAllowed + 1
    /\ Return(t)
    /\ UNCHANGED <<clock, intervalQueue, refreshing, windowBegin, windowChecks,
                   previousWindowChecks, previousWindowAllowed, asked, admitted>>

-----------------------------------------------------------------------------
WaitForRefresh(t) ==
    \/ TryRefresh(t) \/ ReadClock(t)
    \/ ShiftAllowed(t) \/ ShiftChecks(t) \/ ResetAllowed(t) \/ ResetChecks(t)
    \/ Peek(t) \/ Dequeue(t) \/ Release(t)

Decide(t) ==
    \/ CountCheck(t) \/ Refuse(t) \/ Admit(t)
    \/ Stamp(t) \/ Enqueue(t) \/ CountAllowed(t)

Next ==
    \/ Tick
    \/ \E t \in Thread : Allowed(t) \/ WaitForRefresh(t) \/ Decide(t)

Spec == Init /\ [][Next]_vars

-----------------------------------------------------------------------------
(* Properties.                                                             *)

Refresher == {"now", "shiftAllowed", "shiftChecks", "resetAllowed",
              "resetChecks", "peek", "dequeue", "release"}
Frame == [pc : Refresher \cup {"idle", "refresh", "check", "count", "stamp",
                               "enqueue", "allowed"},
          trace : Trace \cup {NoTrace},
          now : 0 .. MaxTime \cup {NoTime},
          time : 0 .. MaxTime \cup {NoTime}]

(* Types: a frame that holds a timestamp to enqueue, or the time of its    *)
(* refresh, has read the clock.                                            *)
TypeOK ==
    /\ clock \in 0 .. MaxTime
    /\ intervalQueue \in Seq(Entry)
    /\ windowBegin \in 0 .. MaxTime
    /\ refreshing \in BOOLEAN
    /\ windowChecks \in Nat /\ windowAllowed \in Nat
    /\ previousWindowChecks \in Nat /\ previousWindowAllowed \in Nat
    /\ frame \in [Thread -> Frame]
    /\ asked \subseteq Trace
    /\ admitted \subseteq Entry
    /\ \A t \in Thread :
         /\ ~ At(t, "idle") => frame[t].trace \in Trace
         /\ At(t, "enqueue") => frame[t].time # NoTime
         /\ frame[t].pc \in Refresher \ {"now"} => frame[t].now # NoTime

Window(x) == x .. x + Interval
AdmittedIn(x) == {e \in admitted : e.time \in Window(x)}

(* Allowed 63-71: no window of one interval, wherever it begins, holds     *)
(* more admitted traces than the limit and one for every further thread    *)
(* that read the count at the same time, although timestamps are enqueued  *)
(* late and old ones are removed meanwhile.                                *)
LimitHolds ==
    \A x \in 0 .. MaxTime :
        Cardinality(AdmittedIn(x)) <= Limit + Cardinality(Thread) - 1

(* WaitForRefresh 139-142: when a call that refreshed reads the count, at  *)
(* most one entry for every other thread is one its refresh should have    *)
(* removed (out of order in the queue, or enqueued late).  An old burst    *)
(* does not make the limiter refuse what comes after it.                   *)
RefreshEffective ==
    \A t \in Thread :
        At(t, "count") /\ frame[t].now # NoTime =>
            Cardinality({i \in DOMAIN intervalQueue :
                           Expired(frame[t].now, intervalQueue[i])})
              < Cardinality(Thread)

Shifting == \E t \in Thread :
    frame[t].pc \in {"shiftChecks", "resetAllowed", "resetChecks"}

(* WaitForRefresh 132-135: increments that race with the shift of the      *)
(* counts may get lost, but none is counted in two windows.                *)
CountedOnce ==
    ~ Shifting =>
        /\ windowAllowed + previousWindowAllowed <= Cardinality(admitted)
        /\ windowChecks + previousWindowChecks <= Cardinality(asked)
=============================================================================
