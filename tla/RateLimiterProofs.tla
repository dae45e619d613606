------------------------- MODULE RateLimiterProofs -------------------------
(***************************************************************************)
(* Proofs about RateLimiter, for every number of threads and traces, every *)
(* limit and every interval.                                               *)
(***************************************************************************)
EXTENDS RateLimiter, FiniteSetTheorems, SequenceTheorems, TLAPS

Pc == Refresher \cup {"idle", "refresh", "check", "count", "stamp",
                      "enqueue", "allowed"}
N == Cardinality(Thread)

(* At most one thread is inside the refresh, and then the flag is set.     *)
OneRefresher ==
    \A t \in Thread : frame[t].pc \in Refresher =>
        /\ refreshing
        /\ \A u \in Thread : frame[u].pc \in Refresher => u = t

(* No timestamp is ahead of the clock.                                     *)
PastTimes ==
    /\ \A e \in admitted : e.time <= clock
    /\ \A t \in Thread : frame[t].now <= clock /\ frame[t].time <= clock

(* What a refresh is about to remove is old.                               *)
HeadExpired ==
    \A t \in Thread : At(t, "dequeue") =>
        /\ intervalQueue # <<>>
        /\ Expired(frame[t].now, Head(intervalQueue))

(* An admitted entry that is not older than the interval is in the queue.  *)
Queued(e) == \E i \in 1 .. Len(intervalQueue) : intervalQueue[i] = e
YoungQueued == \A e \in admitted : clock - e.time <= Interval => Queued(e)

(* The threads that have passed the test of the count, and those of them   *)
(* whose timestamp lies in a window.                                       *)
Passed == {t \in Thread : frame[t].pc \in {"stamp", "enqueue"}}
StampedIn(x) == {t \in Thread : At(t, "enqueue") /\ frame[t].time \in Window(x)}

RoomForPassed == Len(intervalQueue) + Cardinality(Passed) <= Limit + N - 1
WindowBound ==
    \A x \in 0 .. MaxTime :
        Cardinality(AdmittedIn(x)) + Cardinality(StampedIn(x)) <= Limit + N - 1

QueueInv == OneRefresher /\ PastTimes /\ HeadExpired /\ YoungQueued
Bound == IsFiniteSet(admitted) /\ RoomForPassed /\ WindowBound
IInv == TypeOK /\ QueueInv /\ Bound

-----------------------------------------------------------------------------
(* Types.                                                                  *)

LEMMA IdleFrame == Idle \in Frame /\ Idle.pc = "idle" /\ Idle.now = NoTime
                   /\ Idle.time = NoTime
BY DEF Idle, Frame, Refresher, NoTime

(* A frame moved to another statement keeps its other fields.              *)
LEMMA GotoFrame ==
  ASSUME TypeOK, NEW t \in Thread, NEW pc \in Pc, Goto(t, pc)
  PROVE  /\ frame' \in [Thread -> Frame]
         /\ frame'[t].pc = pc
         /\ frame'[t].trace = frame[t].trace
         /\ frame'[t].now = frame[t].now
         /\ frame'[t].time = frame[t].time
         /\ \A u \in Thread \ {t} : frame'[u] = frame[u]
BY DEF TypeOK, Goto, Frame, Pc

LEMMA ReturnFrame ==
  ASSUME TypeOK, NEW t \in Thread, Return(t)
  PROVE  /\ frame' \in [Thread -> Frame]
         /\ frame'[t] = Idle
         /\ \A u \in Thread \ {t} : frame'[u] = frame[u]
BY IdleFrame DEF TypeOK, Return

(* What TypeOK asks of a frame, for the frame of the thread that moved.    *)
Ready(t) ==
    /\ ~ At(t, "idle") => frame[t].trace \in Trace
    /\ At(t, "enqueue") => frame[t].time # NoTime
    /\ frame[t].pc \in Refresher \ {"now"} => frame[t].now # NoTime

LEMMA OneFrameMoves ==
  ASSUME TypeOK, NEW t \in Thread,
         \A u \in Thread \ {t} : frame'[u] = frame[u], Ready(t)'
  PROVE  \A u \in Thread : Ready(u)'
BY DEF TypeOK, Ready, At

LEMMA InitType == Init => TypeOK
<1> SUFFICES ASSUME Init PROVE TypeOK
  OBVIOUS
<1>1. <<>> \in Seq(Entry)
  OBVIOUS
<1>2. 0 \in 0 .. MaxTime
  BY LimiterAssumption
<1>3. /\ frame \in [Thread -> Frame]
      /\ \A t \in Thread : frame[t].pc = "idle"
  BY IdleFrame DEF Init
<1> QED
  BY <1>1, <1>2, <1>3 DEF Init, TypeOK, At, Refresher

LEMMA TypeStep == TypeOK /\ [Next]_vars => TypeOK'
<1> SUFFICES ASSUME TypeOK, [Next]_vars PROVE TypeOK'
  OBVIOUS
<1>1. CASE UNCHANGED vars
  BY <1>1 DEF TypeOK, vars, counters, At
<1>2. CASE Tick
  BY <1>2, LimiterAssumption DEF Tick, TypeOK, counters, At
<1> SUFFICES ASSUME NEW t \in Thread, Allowed(t) \/ WaitForRefresh(t) \/ Decide(t)
             PROVE  TypeOK'
  BY <1>1, <1>2 DEF Next
<1>3. CASE Allowed(t)
  <2> PICK r \in Trace \ asked :
             /\ frame' = [frame EXCEPT ![t].pc = "refresh", ![t].trace = r]
             /\ asked' = asked \cup {r}
    BY <1>3 DEF Allowed
  <2>1. /\ frame' \in [Thread -> Frame]
        /\ frame'[t].pc = "refresh" /\ frame'[t].trace = r
        /\ \A u \in Thread \ {t} : frame'[u] = frame[u]
    BY DEF TypeOK, Frame
  <2> QED
    BY <1>3, <2>1 DEF Allowed, TypeOK, counters, At, Refresher
<1>4. CASE TryRefresh(t)
  <2> DEFINE pc == IF refreshing THEN "check" ELSE "now"
  <2>1. pc \in Pc /\ pc \notin Refresher \ {"now"} /\ pc # "enqueue"
    BY DEF Pc, Refresher
  <2>2. Goto(t, pc)
    BY <1>4 DEF TryRefresh
  <2> HIDE DEF pc
  <2> QED
    BY <1>4, <2>1, <2>2, GotoFrame DEF TryRefresh, TypeOK, counters, At
<1>5. CASE ReadClock(t)
  BY <1>5, LimiterAssumption
     DEF ReadClock, TypeOK, counters, At, Frame, Refresher, NoTime
<1>6. CASE ShiftAllowed(t)
  BY <1>6, GotoFrame DEF ShiftAllowed, TypeOK, counters, At, Pc, Refresher
<1>7. CASE ShiftChecks(t)
  BY <1>7, GotoFrame DEF ShiftChecks, TypeOK, counters, At, Pc, Refresher
<1>8. CASE ResetAllowed(t)
  BY <1>8, GotoFrame DEF ResetAllowed, TypeOK, counters, At, Pc, Refresher
<1>9. CASE ResetChecks(t)
  <2>1. frame[t].now \in 0 .. MaxTime
    BY <1>9 DEF ResetChecks, TypeOK, At, Frame, Refresher
  <2> QED
    BY <1>9, <2>1, GotoFrame DEF ResetChecks, TypeOK, counters, At, Pc, Refresher
<1>10. CASE Peek(t)
  <2> DEFINE pc == IF intervalQueue # <<>> /\ Expired(frame[t].now, Head(intervalQueue))
                     THEN "dequeue" ELSE "release"
  <2>1. pc \in Pc /\ pc # "enqueue" /\ pc # "idle"
    BY DEF Pc, Refresher
  <2>2. Goto(t, pc)
    BY <1>10 DEF Peek
  <2>3. frame[t].now # NoTime /\ frame[t].trace \in Trace
    BY <1>10 DEF Peek, TypeOK, At, Refresher
  <2> HIDE DEF pc
  <2>4. /\ frame' \in [Thread -> Frame]
        /\ frame'[t].pc = pc
        /\ frame'[t].trace = frame[t].trace
        /\ frame'[t].now = frame[t].now
        /\ \A u \in Thread \ {t} : frame'[u] = frame[u]
    BY <2>1, <2>2, GotoFrame
  <2> QED
    BY <1>10, <2>1, <2>3, <2>4 DEF Peek, TypeOK, counters, At
<1>11. CASE Dequeue(t)
  <2>1. intervalQueue' \in Seq(Entry)
    BY <1>11, HeadTailProperties DEF Dequeue, TypeOK
  <2>2. frame[t].trace \in Trace /\ frame[t].now # NoTime
    BY <1>11 DEF Dequeue, TypeOK, At, Refresher
  <2>3. /\ frame' \in [Thread -> Frame]
        /\ frame'[t].pc = "peek"
        /\ frame'[t].trace = frame[t].trace
        /\ frame'[t].now = frame[t].now
        /\ \A u \in Thread \ {t} : frame'[u] = frame[u]
    BY <1>11, GotoFrame DEF Dequeue, Pc, Refresher
  <2>4. \A u \in Thread : Ready(u)'
    BY <2>2, <2>3, OneFrameMoves DEF Ready, At
  <2> QED
    BY <1>11, <2>1, <2>3, <2>4 DEF Dequeue, TypeOK, counters, Ready, At
<1>12. CASE Release(t)
  <2>1. frame[t].trace \in Trace
    BY <1>12 DEF Release, TypeOK, At
  <2>2. /\ frame' \in [Thread -> Frame]
        /\ frame'[t].pc = "check"
        /\ frame'[t].trace = frame[t].trace
        /\ \A u \in Thread \ {t} : frame'[u] = frame[u]
    BY <1>12, GotoFrame DEF Release, Pc
  <2>3. \A u \in Thread : Ready(u)'
    BY <2>1, <2>2, OneFrameMoves DEF Ready, At, Refresher
  <2> QED
    BY <1>12, <2>2, <2>3 DEF Release, TypeOK, counters, Ready, At
<1>13. CASE CountCheck(t)
  BY <1>13, GotoFrame DEF CountCheck, TypeOK, counters, At, Pc, Refresher
<1>14. CASE Refuse(t)
  BY <1>14, ReturnFrame, IdleFrame DEF Refuse, TypeOK, counters, At, Refresher
<1>15. CASE Admit(t)
  BY <1>15, GotoFrame DEF Admit, TypeOK, counters, At, Pc, Refresher
<1>16. CASE Stamp(t)
  <2>1. frame[t].trace \in Trace
    BY <1>16 DEF Stamp, TypeOK, At
  <2>2. /\ frame' \in [Thread -> Frame]
        /\ frame'[t].pc = "enqueue"
        /\ frame'[t].trace = frame[t].trace
        /\ frame'[t].time = clock
        /\ \A u \in Thread \ {t} : frame'[u] = frame[u]
    BY <1>16 DEF Stamp, TypeOK, Frame
  <2>3. clock # NoTime
    BY DEF TypeOK, NoTime
  <2>4. \A u \in Thread : Ready(u)'
    BY <2>1, <2>2, <2>3, OneFrameMoves DEF Ready, At, Refresher
  <2> QED
    BY <1>16, <2>2, <2>4 DEF Stamp, TypeOK, counters, Ready, At
<1>17. CASE Enqueue(t)
  <2>1. EntryOf(t) \in Entry
    BY <1>17 DEF Enqueue, EntryOf, Entry, TypeOK, At, Frame
  <2>2. Append(intervalQueue, EntryOf(t)) \in Seq(Entry)
    BY <2>1 DEF TypeOK
  <2>3. admitted' \subseteq Entry
    BY <1>17, <2>1 DEF Enqueue, TypeOK
  <2> QED
    BY <1>17, <2>2, <2>3, GotoFrame DEF Enqueue, TypeOK, counters, At, Pc, Refresher
<1>18. CASE CountAllowed(t)
  BY <1>18, ReturnFrame, IdleFrame DEF CountAllowed, TypeOK, counters, At, Refresher
<1> QED
  BY <1>3, <1>4, <1>5, <1>6, <1>7, <1>8, <1>9, <1>10, <1>11, <1>12, <1>13,
     <1>14, <1>15, <1>16, <1>17, <1>18 DEF WaitForRefresh, Decide

(* Every variable keeps its type; a thread that is about to enqueue has    *)
(* read the clock (Allowed 71).                                            *)
THEOREM TypeCorrect == Spec => []TypeOK
BY InitType, TypeStep, PTL DEF Spec

-----------------------------------------------------------------------------
(* The queue.                                                              *)

(* A step of thread t is one of these; the invariants tell them apart by   *)
(* what they do to the flag, the queue and the sets of threads.            *)
Enter(t) == Allowed(t) \/ CountCheck(t)
Refresh(t) ==
    \/ ReadClock(t)
    \/ ShiftAllowed(t) \/ ShiftChecks(t) \/ ResetAllowed(t) \/ ResetChecks(t)
Leave(t) == Refuse(t) \/ CountAllowed(t)

LEMMA StepKinds ==
  ASSUME TypeOK, [Next]_vars
  PROVE  \/ UNCHANGED vars
         \/ Tick
         \/ \E t \in Thread :
              \/ Enter(t) \/ TryRefresh(t) \/ Refresh(t) \/ Peek(t) \/ Dequeue(t)
              \/ Release(t) \/ Admit(t) \/ Stamp(t) \/ Enqueue(t) \/ Leave(t)
BY DEF Next, WaitForRefresh, Decide, Enter, Refresh, Leave

(* How each kind of step moves its thread.                                 *)
LEMMA EnterMoves ==
  ASSUME TypeOK, NEW t \in Thread, Enter(t)
  PROVE  /\ \A u \in Thread \ {t} : frame'[u] = frame[u]
         /\ frame[t].pc \in {"idle", "check"} /\ frame'[t].pc \in {"refresh", "count"}
         /\ frame'[t].now = frame[t].now /\ frame'[t].time = frame[t].time
         /\ UNCHANGED <<clock, intervalQueue, refreshing, admitted>>
<1>1. CASE Allowed(t)
  BY <1>1 DEF Allowed, TypeOK, Frame, At
<1>2. CASE CountCheck(t)
  BY <1>2 DEF CountCheck, Goto, TypeOK, Frame, At
<1> QED
  BY <1>1, <1>2 DEF Enter

LEMMA RefreshMoves ==
  ASSUME TypeOK, NEW t \in Thread, Refresh(t)
  PROVE  /\ \A u \in Thread \ {t} : frame'[u] = frame[u]
         /\ frame[t].pc \in Refresher
         /\ frame'[t].pc \in Refresher \ {"dequeue"}
         /\ frame'[t].now \in {frame[t].now, clock}
         /\ frame'[t].time = frame[t].time
         /\ UNCHANGED <<clock, intervalQueue, refreshing, admitted>>
<1>1. CASE ReadClock(t)
  BY <1>1 DEF ReadClock, TypeOK, Frame, At, Refresher
<1>2. CASE ShiftAllowed(t)
  BY <1>2 DEF ShiftAllowed, Goto, TypeOK, Frame, At, Refresher
<1>3. CASE ShiftChecks(t)
  BY <1>3 DEF ShiftChecks, Goto, TypeOK, Frame, At, Refresher
<1>4. CASE ResetAllowed(t)
  BY <1>4 DEF ResetAllowed, Goto, TypeOK, Frame, At, Refresher
<1>5. CASE ResetChecks(t)
  BY <1>5 DEF ResetChecks, Goto, TypeOK, Frame, At, Refresher
<1> QED
  BY <1>1, <1>2, <1>3, <1>4, <1>5 DEF Refresh

LEMMA LeaveMoves ==
  ASSUME TypeOK, NEW t \in Thread, Leave(t)
  PROVE  /\ \A u \in Thread \ {t} : frame'[u] = frame[u]
         /\ frame[t].pc \in {"count", "allowed"} /\ frame'[t] = Idle
         /\ UNCHANGED <<clock, intervalQueue, refreshing, admitted>>
<1>1. CASE Refuse(t)
  BY <1>1, ReturnFrame DEF Refuse, At, counters
<1>2. CASE CountAllowed(t)
  BY <1>2, ReturnFrame DEF CountAllowed, At
<1> QED
  BY <1>1, <1>2 DEF Leave

(* The statements that only move on.                                       *)
LEMMA OtherMoves ==
  ASSUME TypeOK, NEW t \in Thread,
         \/ TryRefresh(t) \/ Peek(t) \/ Dequeue(t) \/ Release(t)
         \/ Admit(t) \/ Stamp(t) \/ Enqueue(t)
  PROVE  /\ \A u \in Thread \ {t} : frame'[u] = frame[u]
         /\ frame'[t].now = frame[t].now
         /\ frame'[t].time \in {frame[t].time, clock}
         /\ clock' = clock
<1>1. CASE TryRefresh(t)
  BY <1>1 DEF TryRefresh, Goto, TypeOK, Frame
<1>2. CASE Peek(t)
  BY <1>2 DEF Peek, Goto, TypeOK, Frame
<1>3. CASE Dequeue(t) \/ Release(t)
  BY <1>3 DEF Dequeue, Release, Goto, TypeOK, Frame
<1>4. CASE Admit(t) \/ Enqueue(t)
  BY <1>4 DEF Admit, Enqueue, Goto, TypeOK, Frame
<1>5. CASE Stamp(t)
  BY <1>5 DEF Stamp, TypeOK, Frame
<1> QED
  BY <1>1, <1>2, <1>3, <1>4, <1>5

LEMMA OneRefresherStep ==
  ASSUME TypeOK, OneRefresher, [Next]_vars
  PROVE  OneRefresher'
<1>1. CASE UNCHANGED vars
  BY <1>1 DEF OneRefresher, vars
<1>2. CASE Tick
  BY <1>2 DEF Tick, OneRefresher
<1>3. CASE \E t \in Thread : Enter(t)
  BY <1>3, EnterMoves DEF OneRefresher, Refresher
<1>4. CASE \E t \in Thread : Refresh(t)
  BY <1>4, RefreshMoves DEF OneRefresher
<1>5. CASE \E t \in Thread : Leave(t)
  BY <1>5, LeaveMoves, IdleFrame DEF OneRefresher, Refresher
<1>6. ASSUME NEW t \in Thread, TryRefresh(t)
      PROVE  OneRefresher'
  <2>1. /\ \A u \in Thread \ {t} : frame'[u] = frame[u]
        /\ frame'[t].pc = IF refreshing THEN "check" ELSE "now"
        /\ frame[t].pc = "refresh" /\ refreshing' = TRUE
    BY <1>6, OtherMoves DEF TryRefresh, Goto, TypeOK, Frame, At
  <2>2. CASE refreshing
    BY <2>1, <2>2 DEF OneRefresher, Refresher
  <2>3. CASE ~ refreshing
    <3>1. \A u \in Thread : frame[u].pc \notin Refresher
      BY <2>3 DEF OneRefresher
    <3> QED
      BY <2>1, <3>1 DEF OneRefresher
  <2> QED
    BY <2>2, <2>3
<1>7. ASSUME NEW t \in Thread, Peek(t) \/ Dequeue(t)
      PROVE  OneRefresher'
  <2>1. /\ \A u \in Thread \ {t} : frame'[u] = frame[u]
        /\ frame[t].pc \in Refresher /\ frame'[t].pc \in Refresher
        /\ refreshing' = refreshing
    BY <1>7, OtherMoves DEF Peek, Dequeue, Goto, TypeOK, Frame, At, Refresher
  <2> QED
    BY <2>1 DEF OneRefresher
<1>8. ASSUME NEW t \in Thread, Release(t)
      PROVE  OneRefresher'
  <2>1. /\ \A u \in Thread \ {t} : frame'[u] = frame[u]
        /\ frame[t].pc \in Refresher /\ frame'[t].pc = "check"
    BY <1>8, OtherMoves DEF Release, Goto, TypeOK, Frame, At, Refresher
  <2>2. \A u \in Thread : frame'[u].pc \notin Refresher
    BY <2>1 DEF OneRefresher, Refresher
  <2> QED
    BY <2>2 DEF OneRefresher
<1>9. ASSUME NEW t \in Thread, Admit(t) \/ Stamp(t) \/ Enqueue(t)
      PROVE  OneRefresher'
  <2>1. /\ \A u \in Thread \ {t} : frame'[u] = frame[u]
        /\ frame[t].pc \notin Refresher /\ frame'[t].pc \notin Refresher
        /\ refreshing' = refreshing
    BY <1>9, OtherMoves DEF Admit, Stamp, Enqueue, Goto, TypeOK, Frame, At, Refresher
  <2> QED
    BY <2>1 DEF OneRefresher
<1> QED
  BY <1>1, <1>2, <1>3, <1>4, <1>5, <1>6, <1>7, <1>8, <1>9, StepKinds

LEMMA PastTimesStep ==
  ASSUME TypeOK, PastTimes, [Next]_vars
  PROVE  PastTimes'
<1> USE DEF PastTimes
<1>0. clock \in Nat /\ \A t \in Thread : frame[t].now \in Int /\ frame[t].time \in Int
  BY DEF TypeOK, Frame, NoTime
<1>1. CASE UNCHANGED vars
  BY <1>1 DEF vars
<1>2. CASE Tick
  <2>1. \A e \in admitted : e.time \in Int
    BY DEF TypeOK, Entry
  <2> QED
    BY <1>0, <1>2, <2>1 DEF Tick
<1>3. CASE \E t \in Thread : Enter(t)
  BY <1>3, EnterMoves
<1>4. CASE \E t \in Thread : Refresh(t)
  BY <1>0, <1>4, RefreshMoves
<1>5. CASE \E t \in Thread : Leave(t)
  <2>1. Idle.now <= clock /\ Idle.time <= clock
    BY <1>0, IdleFrame DEF NoTime
  <2> QED
    BY <1>5, <2>1, LeaveMoves
<1>6. ASSUME NEW t \in Thread, TryRefresh(t) \/ Peek(t) \/ Dequeue(t) \/ Release(t)
                               \/ Admit(t) \/ Stamp(t)
      PROVE  PastTimes'
  <2>1. admitted' = admitted
    BY <1>6 DEF TryRefresh, Peek, Dequeue, Release, Admit, Stamp
  <2> QED
    BY <1>0, <1>6, <2>1, OtherMoves
<1>7. ASSUME NEW t \in Thread, Enqueue(t)
      PROVE  PastTimes'
  <2>1. admitted' = admitted \cup {EntryOf(t)} /\ EntryOf(t).time = frame[t].time
    BY <1>7 DEF Enqueue, EntryOf
  <2> QED
    BY <1>0, <1>7, <2>1, OtherMoves
<1> QED
  BY <1>1, <1>2, <1>3, <1>4, <1>5, <1>6, <1>7, StepKinds

LEMMA HeadExpiredStep ==
  ASSUME TypeOK, OneRefresher, HeadExpired, [Next]_vars
  PROVE  HeadExpired'
<1> USE DEF HeadExpired, At, Expired
<1>1. CASE UNCHANGED vars
  BY <1>1 DEF vars
<1>2. CASE Tick
  BY <1>2 DEF Tick
<1>3. CASE \E t \in Thread : Enter(t)
  BY <1>3, EnterMoves
<1>4. CASE \E t \in Thread : Refresh(t)
  BY <1>4, RefreshMoves
<1>5. CASE \E t \in Thread : Leave(t)
  BY <1>5, LeaveMoves, IdleFrame
<1>6. ASSUME NEW t \in Thread, TryRefresh(t) \/ Release(t) \/ Admit(t) \/ Stamp(t)
      PROVE  HeadExpired'
  <2>1. frame'[t].pc # "dequeue" /\ intervalQueue' = intervalQueue
    BY <1>6 DEF TryRefresh, Release, Admit, Stamp, Goto, TypeOK, Frame
  <2> QED
    BY <1>6, <2>1, OtherMoves
<1>7. ASSUME NEW t \in Thread, Peek(t)
      PROVE  HeadExpired'
  <2>1. /\ intervalQueue' = intervalQueue
        /\ frame'[t].pc = "dequeue" => /\ intervalQueue # <<>>
                                       /\ Expired(frame[t].now, Head(intervalQueue))
    BY <1>7 DEF Peek, Goto, TypeOK, Frame
  <2> QED
    BY <1>7, <2>1, OtherMoves
<1>8. ASSUME NEW t \in Thread, Dequeue(t)
      PROVE  HeadExpired'
  <2>1. frame[t].pc = "dequeue" /\ frame'[t].pc = "peek"
    BY <1>8 DEF Dequeue, Goto, TypeOK, Frame
  <2>2. \A u \in Thread \ {t} : frame[u].pc # "dequeue"
    BY <2>1 DEF OneRefresher, Refresher
  <2> QED
    BY <1>8, <2>1, <2>2, OtherMoves
<1>9. ASSUME NEW t \in Thread, Enqueue(t)
      PROVE  HeadExpired'
  <2>1. intervalQueue' = Append(intervalQueue, EntryOf(t)) /\ frame'[t].pc = "allowed"
    BY <1>9 DEF Enqueue, Goto, TypeOK, Frame
  <2>2. intervalQueue # <<>> => /\ intervalQueue' # <<>>
                                /\ Head(intervalQueue') = Head(intervalQueue)
    BY <2>1, HeadTailAppend DEF TypeOK
  <2> QED
    BY <1>9, <2>1, <2>2, OtherMoves
<1> QED
  BY <1>1, <1>2, <1>3, <1>4, <1>5, <1>6, <1>7, <1>8, <1>9, StepKinds

LEMMA YoungQueuedStep ==
  ASSUME TypeOK, PastTimes, HeadExpired, YoungQueued, [Next]_vars
  PROVE  YoungQueued'
<1>0. /\ clock \in Nat /\ Interval \in Nat
      /\ \A e \in admitted : e.time \in Nat
  BY LimiterAssumption DEF TypeOK, Entry
<1>1. CASE UNCHANGED <<clock, intervalQueue, admitted>>
  BY <1>1 DEF YoungQueued, Queued
<1>2. CASE Tick
  <2>1. clock' = clock + 1 /\ UNCHANGED <<intervalQueue, admitted>>
    BY <1>2 DEF Tick
  <2>2. \A e \in admitted : clock + 1 - e.time <= Interval => clock - e.time <= Interval
    BY <1>0
  <2>3. \A e : Queued(e) => Queued(e)'
    BY <2>1 DEF Queued
  <2>4. SUFFICES ASSUME NEW e \in admitted', clock' - e.time <= Interval
                 PROVE  Queued(e)'
    BY DEF YoungQueued
  <2>5. e \in admitted /\ clock - e.time <= Interval
    BY <1>0, <2>1, <2>2, <2>4
  <2>6. Queued(e)
    BY <2>5 DEF YoungQueued
  <2> QED
    BY <2>3, <2>6
<1>3. ASSUME NEW t \in Thread, Dequeue(t)
      PROVE  YoungQueued'
  <2>1. /\ intervalQueue # <<>> /\ intervalQueue' = Tail(intervalQueue)
        /\ Expired(frame[t].now, Head(intervalQueue))
        /\ clock' = clock /\ admitted' = admitted
    BY <1>3 DEF Dequeue, HeadExpired
  <2>2. frame[t].now <= clock /\ frame[t].now \in Int
    BY DEF PastTimes, TypeOK, Frame, NoTime
  <2>3. SUFFICES ASSUME NEW e \in admitted, clock - e.time <= Interval
                 PROVE  Queued(e)'
    BY <2>1 DEF YoungQueued
  <2>4. PICK i \in 1 .. Len(intervalQueue) : intervalQueue[i] = e
    BY <2>3 DEF YoungQueued, Queued
  <2>5. e # Head(intervalQueue)
    BY <1>0, <2>1, <2>2, <2>3 DEF Expired
  <2>6. intervalQueue \in Seq(Entry) /\ Len(intervalQueue) \in Nat
        /\ Head(intervalQueue) = intervalQueue[1]
    BY <2>1 DEF TypeOK
  <2>7. i # 1 /\ i \in Int
    BY <2>4, <2>5, <2>6
  <2>8. /\ Len(Tail(intervalQueue)) = Len(intervalQueue) - 1
        /\ \A k \in 1 .. Len(Tail(intervalQueue)) :
             Tail(intervalQueue)[k] = intervalQueue[k + 1]
    BY <2>1, <2>6, HeadTailProperties
  <2>9. i - 1 \in 1 .. Len(Tail(intervalQueue)) /\ Tail(intervalQueue)[i - 1] = e
    BY <2>4, <2>6, <2>7, <2>8
  <2> QED
    BY <2>1, <2>9 DEF Queued
<1>4. ASSUME NEW t \in Thread, Enqueue(t)
      PROVE  YoungQueued'
  <2> DEFINE n == EntryOf(t)
  <2>1. /\ intervalQueue' = Append(intervalQueue, n)
        /\ admitted' = admitted \cup {n} /\ clock' = clock
    BY <1>4 DEF Enqueue
  <2>2. /\ Len(intervalQueue') = Len(intervalQueue) + 1
        /\ \A i \in 1 .. Len(intervalQueue) : intervalQueue'[i] = intervalQueue[i]
        /\ intervalQueue'[Len(intervalQueue) + 1] = n
        /\ Len(intervalQueue) \in Nat
    BY <2>1 DEF TypeOK
  <2> HIDE DEF n
  <2>3. \A e : e = n \/ Queued(e) => Queued(e)'
    BY <2>2 DEF Queued
  <2> QED
    BY <2>1, <2>3 DEF YoungQueued
<1>5. ASSUME NEW t \in Thread,
             \/ Enter(t) \/ Refresh(t) \/ Leave(t)
             \/ TryRefresh(t) \/ Peek(t) \/ Release(t) \/ Admit(t) \/ Stamp(t)
      PROVE  UNCHANGED <<clock, intervalQueue, admitted>>
  BY <1>5, EnterMoves, RefreshMoves, LeaveMoves
     DEF TryRefresh, Peek, Release, Admit, Stamp
<1> QED
  BY <1>1, <1>2, <1>3, <1>4, <1>5, StepKinds DEF vars

LEMMA QueueStep == TypeOK /\ QueueInv /\ [Next]_vars => QueueInv'
BY OneRefresherStep, PastTimesStep, HeadExpiredStep, YoungQueuedStep DEF QueueInv

-----------------------------------------------------------------------------
(* Counting.                                                               *)

(* A set whose members all occur in a sequence is no larger than it.       *)
LEMMA OccurringBound ==
  ASSUME NEW S, NEW q \in Seq(S), NEW T,
         \A e \in T : \E i \in 1 .. Len(q) : q[i] = e
  PROVE  IsFiniteSet(T) /\ Cardinality(T) <= Len(q)
<1> DEFINE dom == 1 .. Len(q)
           all == {q[i] : i \in dom}
           f == [i \in dom |-> q[i]]
<1>1. Len(q) \in Nat
  OBVIOUS
<1>2. IsFiniteSet(dom) /\ Cardinality(dom) = Len(q)
  BY <1>1, FS_Interval
<1>3. f \in Surjection(dom, all)
  BY DEF Surjection
<1>4. IsFiniteSet(all) /\ Cardinality(all) <= Cardinality(dom)
  BY <1>2, <1>3, FS_Surjection
<1>5. T \in SUBSET all
  OBVIOUS
<1>6. IsFiniteSet(T) /\ Cardinality(T) <= Cardinality(all)
  BY <1>4, <1>5, FS_Subset
<1>7. Cardinality(T) \in Nat /\ Cardinality(all) \in Nat
  BY <1>4, <1>6, FS_CardinalityType
<1> HIDE DEF dom, all, f
<1> QED
  BY <1>1, <1>2, <1>4, <1>6, <1>7

LEMMA FiniteThreads ==
  ASSUME NEW S, S \subseteq Thread
  PROVE  IsFiniteSet(S) /\ Cardinality(S) \in Nat /\ Cardinality(S) <= N
BY FS_Subset, FS_CardinalityType, LimiterAssumption DEF N

LEMMA NNat == N \in Nat /\ Limit \in Nat \ {0}
BY FiniteThreads, LimiterAssumption DEF N

LEMMA FiniteAdmitted ==
  ASSUME IsFiniteSet(admitted), NEW x
  PROVE  IsFiniteSet(AdmittedIn(x)) /\ Cardinality(AdmittedIn(x)) \in Nat
<1>1. AdmittedIn(x) \in SUBSET admitted
  BY DEF AdmittedIn
<1> QED
  BY <1>1, FS_Subset, FS_CardinalityType

(* A step that admits nothing, and makes no thread pass the test.          *)
LEMMA QuietBound ==
  ASSUME TypeOK, Bound, admitted' = admitted,
         Len(intervalQueue') \in Nat, Len(intervalQueue') <= Len(intervalQueue),
         Passed' \subseteq Passed,
         \A x \in 0 .. MaxTime : StampedIn(x)' \subseteq StampedIn(x)
  PROVE  Bound'
<1>1. Passed \subseteq Thread /\ \A x : StampedIn(x) \subseteq Thread
  BY DEF Passed, StampedIn
<1>2. Cardinality(Passed') <= Cardinality(Passed) /\ Cardinality(Passed') \in Nat
      /\ Cardinality(Passed) \in Nat
  BY <1>1, FiniteThreads, FS_Subset
<1>3. RoomForPassed'
  <2>1. Len(intervalQueue) \in Nat
    BY DEF TypeOK
  <2> QED
    BY <1>2, <2>1, NNat DEF Bound, RoomForPassed, N
<1>4. ASSUME NEW x \in 0 .. MaxTime
      PROVE  (Cardinality(AdmittedIn(x)) + Cardinality(StampedIn(x)) <= Limit + N - 1)'
  <2>1. AdmittedIn(x)' = AdmittedIn(x)
    BY DEF AdmittedIn
  <2>2. Cardinality(StampedIn(x)') <= Cardinality(StampedIn(x))
        /\ Cardinality(StampedIn(x)') \in Nat /\ Cardinality(StampedIn(x)) \in Nat
    BY <1>1, FiniteThreads, FS_Subset
  <2>3. Cardinality(AdmittedIn(x)) \in Nat
    BY FiniteAdmitted DEF Bound
  <2>4. Cardinality(AdmittedIn(x)) + Cardinality(StampedIn(x)) <= Limit + N - 1
    BY DEF Bound, WindowBound
  <2> QED
    BY <2>1, <2>2, <2>3, <2>4, NNat DEF N
<1> QED
  BY <1>3, <1>4 DEF Bound, WindowBound

LEMMA EnqueueBound ==
  ASSUME TypeOK, Bound, NEW t \in Thread, Enqueue(t)
  PROVE  Bound'
<1> DEFINE n == EntryOf(t)
<1>1. /\ intervalQueue' = Append(intervalQueue, n)
      /\ admitted' = admitted \cup {n}
      /\ n.time = frame[t].time /\ frame[t].pc = "enqueue" /\ frame'[t].pc = "allowed"
      /\ \A u \in Thread \ {t} : frame'[u] = frame[u]
  BY DEF Enqueue, EntryOf, Goto, TypeOK, Frame, At
<1> HIDE DEF n
<1>2. Len(intervalQueue') = Len(intervalQueue) + 1 /\ Len(intervalQueue) \in Nat
  BY <1>1 DEF TypeOK
<1>3. IsFiniteSet(admitted')
  BY <1>1, FS_AddElement DEF Bound
<1>4. RoomForPassed'
  <2>1. Passed' = Passed \ {t} /\ t \in Passed /\ Passed \subseteq Thread
    BY <1>1 DEF Passed
  <2>2. IsFiniteSet(Passed) /\ Cardinality(Passed) \in Nat
    BY <2>1, FiniteThreads
  <2>3. Cardinality(Passed') = Cardinality(Passed) - 1
    BY <2>1, <2>2, FS_RemoveElement
  <2> QED
    BY <1>2, <2>2, <2>3, NNat DEF Bound, RoomForPassed, N
<1>5. ASSUME NEW x \in 0 .. MaxTime
      PROVE  (Cardinality(AdmittedIn(x)) + Cardinality(StampedIn(x)) <= Limit + N - 1)'
  <2>0. Cardinality(AdmittedIn(x)) + Cardinality(StampedIn(x)) <= Limit + N - 1
    BY DEF Bound, WindowBound
  <2>1. IsFiniteSet(AdmittedIn(x)) /\ Cardinality(AdmittedIn(x)) \in Nat
    BY FiniteAdmitted DEF Bound
  <2>2. StampedIn(x) \subseteq Thread /\ StampedIn(x)' = StampedIn(x) \ {t}
    BY <1>1 DEF StampedIn, At
  <2>3. IsFiniteSet(StampedIn(x)) /\ Cardinality(StampedIn(x)) \in Nat
    BY <2>2, FiniteThreads
  <2>4. CASE n.time \in Window(x)
    <3>1. AdmittedIn(x)' = AdmittedIn(x) \cup {n} /\ t \in StampedIn(x)
      BY <1>1, <2>4 DEF AdmittedIn, StampedIn, At
    <3>2. Cardinality(AdmittedIn(x)') <= Cardinality(AdmittedIn(x)) + 1
          /\ Cardinality(AdmittedIn(x)') \in Nat
      BY <2>1, <3>1, FS_AddElement
    <3>3. Cardinality(StampedIn(x)') = Cardinality(StampedIn(x)) - 1
      BY <2>2, <2>3, <3>1, FS_RemoveElement
    <3> QED
      BY <2>0, <2>1, <2>3, <3>2, <3>3, NNat DEF N
  <2>5. CASE n.time \notin Window(x)
    <3>1. AdmittedIn(x)' = AdmittedIn(x) /\ t \notin StampedIn(x)
      BY <1>1, <2>5 DEF AdmittedIn, StampedIn
    <3>2. StampedIn(x)' = StampedIn(x)
      BY <2>2, <3>1
    <3> QED
      BY <2>0, <3>1, <3>2 DEF N
  <2> QED
    BY <2>4, <2>5
<1> QED
  BY <1>3, <1>4, <1>5 DEF Bound, WindowBound

(* The entries of a window that is not over yet are all in the queue.      *)
LEMMA WindowQueued ==
  ASSUME TypeOK, YoungQueued, NEW x \in 0 .. MaxTime, clock \in Window(x)
  PROVE  Cardinality(AdmittedIn(x)) <= Len(intervalQueue)
<1>1. ASSUME NEW e \in AdmittedIn(x)
      PROVE  Queued(e)
  <2>1. e \in admitted /\ e.time \in x .. x + Interval
    BY DEF AdmittedIn, Window
  <2>2. clock - e.time <= Interval
    BY <2>1, LimiterAssumption DEF Window
  <2> QED
    BY <2>1, <2>2 DEF YoungQueued
<1> QED
  BY <1>1, OccurringBound DEF Queued, TypeOK

LEMMA StampBound ==
  ASSUME TypeOK, YoungQueued, Bound, NEW t \in Thread, Stamp(t)
  PROVE  Bound'
<1>1. /\ intervalQueue' = intervalQueue /\ admitted' = admitted
      /\ frame[t].pc = "stamp" /\ frame'[t].pc = "enqueue" /\ frame'[t].time = clock
      /\ \A u \in Thread \ {t} : frame'[u] = frame[u]
  BY DEF Stamp, TypeOK, Frame, At
<1>2. Passed' = Passed /\ Passed \subseteq Thread
  BY <1>1 DEF Passed
<1>3. RoomForPassed'
  BY <1>1, <1>2 DEF Bound, RoomForPassed, N
<1>4. ASSUME NEW x \in 0 .. MaxTime
      PROVE  (Cardinality(AdmittedIn(x)) + Cardinality(StampedIn(x)) <= Limit + N - 1)'
  <2>1. AdmittedIn(x)' = AdmittedIn(x)
    BY <1>1 DEF AdmittedIn
  <2>2. CASE clock \in Window(x)
    <3>1. Cardinality(AdmittedIn(x)) <= Len(intervalQueue)
          /\ Cardinality(AdmittedIn(x)) \in Nat
      BY <2>2, WindowQueued, FiniteAdmitted DEF Bound
    <3>2. StampedIn(x)' \subseteq Passed
      BY <1>1 DEF StampedIn, Passed, At
    <3>3. Cardinality(StampedIn(x)') <= Cardinality(Passed)
          /\ Cardinality(StampedIn(x)') \in Nat /\ Cardinality(Passed) \in Nat
      BY <1>2, <3>2, FiniteThreads, FS_Subset
    <3>4. Len(intervalQueue) + Cardinality(Passed) <= Limit + N - 1
          /\ Len(intervalQueue) \in Nat
      BY DEF Bound, RoomForPassed, TypeOK
    <3> QED
      BY <2>1, <3>1, <3>3, <3>4, NNat DEF N
  <2>3. CASE clock \notin Window(x)
    <3>1. StampedIn(x)' = StampedIn(x)
      BY <1>1, <2>3 DEF StampedIn, At
    <3> QED
      BY <2>1, <3>1 DEF Bound, WindowBound, N
  <2> QED
    BY <2>2, <2>3
<1> QED
  BY <1>1, <1>3, <1>4 DEF Bound, WindowBound

LEMMA AdmitBound ==
  ASSUME TypeOK, Bound, NEW t \in Thread, Admit(t)
  PROVE  Bound'
<1>1. /\ intervalQueue' = intervalQueue /\ admitted' = admitted
      /\ Len(intervalQueue) < Limit /\ Len(intervalQueue) \in Nat
      /\ frame[t].pc = "count" /\ frame'[t].pc = "stamp"
      /\ \A u \in Thread \ {t} : frame'[u] = frame[u]
  BY DEF Admit, Goto, TypeOK, Frame, At
<1>2. RoomForPassed'
  <2>1. Passed' \subseteq Thread
    BY DEF Passed
  <2>2. Cardinality(Passed') <= N /\ Cardinality(Passed') \in Nat
    BY <2>1, FiniteThreads
  <2> QED
    BY <1>1, <2>2, NNat DEF RoomForPassed, N
<1>3. \A x : AdmittedIn(x)' = AdmittedIn(x) /\ StampedIn(x)' = StampedIn(x)
  BY <1>1 DEF AdmittedIn, StampedIn, At
<1> QED
  BY <1>1, <1>2, <1>3 DEF Bound, WindowBound, N

LEMMA BoundStep ==
  ASSUME TypeOK, QueueInv, Bound, [Next]_vars
  PROVE  Bound'
<1>0. Len(intervalQueue) \in Nat
  BY DEF TypeOK
<1>1. CASE UNCHANGED vars \/ Tick
  <2>1. UNCHANGED <<intervalQueue, admitted, frame>>
    BY <1>1 DEF vars, Tick
  <2>2. Passed' = Passed /\ \A x : StampedIn(x)' = StampedIn(x)
    BY <2>1 DEF Passed, StampedIn, At
  <2> QED
    BY <1>0, <2>1, <2>2, QuietBound
<1>2. ASSUME NEW t \in Thread, Enter(t) \/ Refresh(t) \/ Leave(t)
      PROVE  Bound'
  <2>1. /\ UNCHANGED <<intervalQueue, admitted>>
        /\ frame'[t].pc \notin {"stamp", "enqueue"}
        /\ \A u \in Thread \ {t} : frame'[u] = frame[u]
    BY <1>2, EnterMoves, RefreshMoves, LeaveMoves, IdleFrame DEF Refresher
  <2>2. Passed' \subseteq Passed /\ \A x : StampedIn(x)' \subseteq StampedIn(x)
    BY <2>1 DEF Passed, StampedIn, At
  <2> QED
    BY <1>0, <2>1, <2>2, QuietBound
<1>3. ASSUME NEW t \in Thread, TryRefresh(t) \/ Peek(t) \/ Dequeue(t) \/ Release(t)
      PROVE  Bound'
  <2>1. /\ admitted' = admitted
        /\ frame'[t].pc \notin {"stamp", "enqueue"}
        /\ \A u \in Thread \ {t} : frame'[u] = frame[u]
    BY <1>3, OtherMoves DEF TryRefresh, Peek, Dequeue, Release, Goto, TypeOK, Frame
  <2>2. Passed' \subseteq Passed /\ \A x : StampedIn(x)' \subseteq StampedIn(x)
    BY <2>1 DEF Passed, StampedIn, At
  <2>3. Len(intervalQueue') \in Nat /\ Len(intervalQueue') <= Len(intervalQueue)
    <3>1. CASE intervalQueue' = intervalQueue
      BY <1>0, <3>1
    <3>2. CASE intervalQueue # <<>> /\ intervalQueue' = Tail(intervalQueue)
      BY <1>0, <3>2, HeadTailProperties DEF TypeOK
    <3> QED
      BY <1>3, <3>1, <3>2 DEF TryRefresh, Peek, Dequeue, Release
  <2> QED
    BY <2>1, <2>2, <2>3, QuietBound
<1> QED
  BY <1>1, <1>2, <1>3, AdmitBound, StampBound, EnqueueBound, StepKinds DEF QueueInv

LEMMA InitInv == Init => QueueInv /\ Bound
<1> SUFFICES ASSUME Init PROVE QueueInv /\ Bound
  OBVIOUS
<1>1. /\ intervalQueue = <<>> /\ admitted = {} /\ clock = 0
      /\ \A t \in Thread : frame[t] = Idle
  BY DEF Init
<1>2. QueueInv
  BY <1>1, IdleFrame DEF QueueInv, OneRefresher, PastTimes, HeadExpired, YoungQueued,
     At, Refresher, NoTime
<1>3. Passed = {} /\ \A x : AdmittedIn(x) = {} /\ StampedIn(x) = {}
  BY <1>1, IdleFrame DEF Passed, AdmittedIn, StampedIn, At
<1>4. IsFiniteSet({}) /\ Cardinality({}) = 0
  BY FS_EmptySet
<1>5. 0 <= Limit + N - 1
  BY NNat
<1>6. RoomForPassed
  <2>1. Len(intervalQueue) = 0
    BY <1>1
  <2> QED
    BY <1>3, <1>4, <1>5, <2>1 DEF RoomForPassed
<1>7. WindowBound
  BY <1>3, <1>4, <1>5 DEF WindowBound
<1> QED
  BY <1>1, <1>2, <1>4, <1>6, <1>7 DEF Bound

LEMMA BoundImpliesLimit == Bound => LimitHolds
<1> SUFFICES ASSUME Bound, NEW x \in 0 .. MaxTime
             PROVE  Cardinality(AdmittedIn(x)) <= Limit + Cardinality(Thread) - 1
  BY DEF LimitHolds
<1>1. StampedIn(x) \subseteq Thread
  BY DEF StampedIn
<1>2. Cardinality(StampedIn(x)) \in Nat /\ Cardinality(AdmittedIn(x)) \in Nat
  BY <1>1, FiniteThreads, FiniteAdmitted DEF Bound
<1> QED
  BY <1>2, NNat DEF Bound, WindowBound, N

(* In no window of one interval are more traces admitted than the limit    *)
(* and one for each further thread, whatever refreshes, late timestamps    *)
(* and out-of-order entries there are (Allowed 63-71, WaitForRefresh).     *)
THEOREM LimitIsKept == Spec => []LimitHolds
<1>1. Init => IInv
  BY InitType, InitInv DEF IInv
<1>2. IInv /\ [Next]_vars => IInv'
  BY TypeStep, QueueStep, BoundStep DEF IInv
<1>3. IInv => LimitHolds
  BY BoundImpliesLimit DEF IInv
<1> QED
  BY <1>1, <1>2, <1>3, PTL DEF Spec

-----------------------------------------------------------------------------
(* Traces.                                                                 *)

(* A call keeps its trace to itself, and no trace is admitted before its   *)
(* call enqueues it.                                                       *)
OwnTrace ==
    \A t \in Thread : frame[t].pc # "idle" =>
        /\ frame[t].trace \in asked
        /\ \A u \in Thread : frame[u].pc # "idle" /\ frame[u].trace = frame[t].trace => u = t
        /\ At(t, "allowed") => EntryOf(t) \in admitted
        /\ ~ At(t, "allowed") => \A e \in admitted : e.trace # frame[t].trace
AdmittedAsked == \A e \in admitted : e.trace \in asked

(* The calls that are counted: a trace whose call is past the check, and   *)
(* an entry whose call is past its last statement.                         *)
Unchecked == {t \in Thread : frame[t].pc \in Refresher \cup {"refresh", "check"}}
Checked == {r \in asked : \A t \in Unchecked : frame[t].trace # r}
Counted == {e \in admitted : \A t \in Thread : At(t, "allowed") => EntryOf(t) # e}

ChecksBound ==
    /\ IsFiniteSet(asked)
    /\ windowChecks <= Cardinality(Checked)
    /\ previousWindowChecks <= Cardinality(Checked)
    /\ \/ windowChecks + previousWindowChecks <= Cardinality(Checked)
       \/ \E t \in Thread : frame[t].pc \in {"resetAllowed", "resetChecks"}
AllowedBound ==
    /\ windowAllowed <= Cardinality(Counted)
    /\ previousWindowAllowed <= Cardinality(Counted)
    /\ \/ windowAllowed + previousWindowAllowed <= Cardinality(Counted)
       \/ \E t \in Thread : frame[t].pc \in {"shiftChecks", "resetAllowed"}

TraceInv == OwnTrace /\ AdmittedAsked

(* The statements in the middle of a call.                                 *)
Inside(t) ==
    \/ CountCheck(t) \/ TryRefresh(t) \/ Refresh(t) \/ Peek(t) \/ Dequeue(t)
    \/ Release(t) \/ Admit(t) \/ Stamp(t)

LEMMA InsideMoves ==
  ASSUME TypeOK, NEW t \in Thread, Inside(t)
  PROVE  /\ \A u \in Thread \ {t} : frame'[u] = frame[u]
         /\ frame'[t].trace = frame[t].trace
         /\ frame[t].pc \notin {"idle", "allowed"}
         /\ frame'[t].pc \notin {"idle", "allowed"}
         /\ UNCHANGED <<asked, admitted>>
<1>1. CASE CountCheck(t)
  BY <1>1 DEF CountCheck, Goto, TypeOK, Frame, At
<1>2. CASE TryRefresh(t)
  BY <1>2 DEF TryRefresh, Goto, TypeOK, Frame, At
<1>3. CASE ReadClock(t)
  BY <1>3 DEF ReadClock, TypeOK, Frame, At
<1>4. CASE ShiftAllowed(t) \/ ShiftChecks(t)
  BY <1>4 DEF ShiftAllowed, ShiftChecks, Goto, TypeOK, Frame, At
<1>5. CASE ResetAllowed(t) \/ ResetChecks(t)
  BY <1>5 DEF ResetAllowed, ResetChecks, Goto, TypeOK, Frame, At
<1>6. CASE Peek(t)
  BY <1>6 DEF Peek, Goto, TypeOK, Frame, At
<1>7. CASE Dequeue(t) \/ Release(t) \/ Admit(t)
  BY <1>7 DEF Dequeue, Release, Admit, Goto, TypeOK, Frame, At
<1>8. CASE Stamp(t)
  BY <1>8 DEF Stamp, TypeOK, Frame, At
<1> QED
  BY <1>1, <1>2, <1>3, <1>4, <1>5, <1>6, <1>7, <1>8 DEF Inside, Refresh

LEMMA AllowedMoves ==
  ASSUME TypeOK, NEW t \in Thread, Allowed(t)
  PROVE  /\ \A u \in Thread \ {t} : frame'[u] = frame[u]
         /\ frame[t].pc = "idle" /\ frame'[t].pc = "refresh"
         /\ frame'[t].trace \in Trace \ asked
         /\ asked' = asked \cup {frame'[t].trace}
         /\ admitted' = admitted
BY DEF Allowed, TypeOK, Frame, At

LEMMA EnqueueMoves ==
  ASSUME TypeOK, NEW t \in Thread, Enqueue(t)
  PROVE  /\ \A u \in Thread \ {t} : frame'[u] = frame[u]
         /\ frame[t].pc = "enqueue" /\ frame'[t].pc = "allowed"
         /\ frame'[t].trace = frame[t].trace
         /\ EntryOf(t)' = EntryOf(t) /\ EntryOf(t).trace = frame[t].trace
         /\ asked' = asked
         /\ admitted' = admitted \cup {EntryOf(t)}
BY DEF Enqueue, EntryOf, Goto, TypeOK, Frame, At

LEMMA LeaveTrace ==
  ASSUME TypeOK, NEW t \in Thread, Leave(t)
  PROVE  /\ \A u \in Thread \ {t} : frame'[u] = frame[u]
         /\ frame[t].pc \in {"count", "allowed"} /\ frame'[t].pc = "idle"
         /\ UNCHANGED <<asked, admitted>>
BY LeaveMoves, IdleFrame DEF Leave, Refuse, CountAllowed

LEMMA TraceKinds ==
  ASSUME TypeOK, [Next]_vars
  PROVE  \/ UNCHANGED vars
         \/ Tick
         \/ \E t \in Thread : Allowed(t) \/ Inside(t) \/ Enqueue(t) \/ Leave(t)
BY DEF Next, WaitForRefresh, Decide, Inside, Refresh, Leave

LEMMA SameEntry ==
  ASSUME NEW u \in Thread, frame'[u] = frame[u]
  PROVE  EntryOf(u)' = EntryOf(u)
BY DEF EntryOf

LEMMA TraceInvStep ==
  ASSUME TypeOK, TraceInv, [Next]_vars
  PROVE  TraceInv'
<1> USE DEF TraceInv, OwnTrace, AdmittedAsked, At
<1>1. CASE UNCHANGED vars \/ Tick
  BY <1>1 DEF vars, Tick, EntryOf
<1>2. ASSUME NEW t \in Thread, Allowed(t)
      PROVE  TraceInv'
  <2>1. \A u \in Thread \ {t} : EntryOf(u)' = EntryOf(u)
    BY <1>2, AllowedMoves, SameEntry
  <2> QED
    BY <1>2, <2>1, AllowedMoves
<1>3. ASSUME NEW t \in Thread, Inside(t)
      PROVE  TraceInv'
  <2>1. \A u \in Thread \ {t} : EntryOf(u)' = EntryOf(u)
    BY <1>3, InsideMoves, SameEntry
  <2> QED
    BY <1>3, <2>1, InsideMoves
<1>4. ASSUME NEW t \in Thread, Enqueue(t)
      PROVE  TraceInv'
  <2>1. \A u \in Thread \ {t} : EntryOf(u)' = EntryOf(u)
    BY <1>4, EnqueueMoves, SameEntry
  <2> QED
    BY <1>4, <2>1, EnqueueMoves
<1>5. ASSUME NEW t \in Thread, Leave(t)
      PROVE  TraceInv'
  <2>1. \A u \in Thread \ {t} : EntryOf(u)' = EntryOf(u)
    BY <1>5, LeaveTrace, SameEntry
  <2> QED
    BY <1>5, <2>1, LeaveTrace
<1> QED
  BY <1>1, <1>2, <1>3, <1>4, <1>5, TraceKinds

-----------------------------------------------------------------------------
(* The counts of a window.                                                 *)

LEMMA CheckedFinite ==
  ASSUME IsFiniteSet(asked)
  PROVE  IsFiniteSet(Checked) /\ Cardinality(Checked) \in Nat
         /\ Cardinality(Checked) <= Cardinality(asked) /\ Cardinality(asked) \in Nat
<1>1. Checked \in SUBSET asked
  BY DEF Checked
<1> QED
  BY <1>1, FS_Subset, FS_CardinalityType

LEMMA CountedFinite ==
  ASSUME IsFiniteSet(admitted)
  PROVE  IsFiniteSet(Counted) /\ Cardinality(Counted) \in Nat
         /\ Cardinality(Counted) <= Cardinality(admitted) /\ Cardinality(admitted) \in Nat
<1>1. Counted \in SUBSET admitted
  BY DEF Counted
<1> QED
  BY <1>1, FS_Subset, FS_CardinalityType

(* No step forgets a call that was counted.                                *)
LEMMA CheckedKept ==
  ASSUME TypeOK, TraceInv, NEW t \in Thread,
         Allowed(t) \/ Enqueue(t) \/ Leave(t) \/ (Inside(t) /\ ~ CountCheck(t))
  PROVE  Checked' = Checked
<1> USE DEF TraceInv, OwnTrace, Checked, Unchecked
<1>1. CASE Allowed(t)
  BY <1>1, AllowedMoves DEF Refresher
<1>2. CASE Enqueue(t)
  BY <1>2, EnqueueMoves DEF Refresher
<1>3. CASE Leave(t)
  BY <1>3, LeaveTrace DEF Refresher
<1>4. CASE Inside(t) /\ ~ CountCheck(t)
  <2>1. t \in Unchecked <=> t \in Unchecked'
    <3>1. CASE TryRefresh(t) \/ Refresh(t) \/ Peek(t) \/ Dequeue(t) \/ Release(t)
      <4>1. frame[t].pc \in Refresher \cup {"refresh"}
        BY <3>1, RefreshMoves DEF TryRefresh, Peek, Dequeue, Release, At, Refresher
      <4>2. frame'[t].pc \in Refresher \cup {"check"}
        BY <3>1, RefreshMoves DEF TryRefresh, Peek, Dequeue, Release, Goto, TypeOK,
           Frame, Refresher
      <4> QED
        BY <4>1, <4>2
    <3>2. CASE Admit(t) \/ Stamp(t)
      BY <3>2 DEF Admit, Stamp, Goto, TypeOK, Frame, At, Refresher
    <3> QED
      BY <1>4, <3>1, <3>2 DEF Inside
  <2>2. Unchecked' = Unchecked
    BY <1>4, <2>1, InsideMoves
  <2>3. \A u \in Unchecked : frame'[u].trace = frame[u].trace
    BY <1>4, InsideMoves
  <2>4. asked' = asked
    BY <1>4, InsideMoves
  <2> HIDE DEF Unchecked
  <2> QED
    BY <2>2, <2>3, <2>4
<1> QED
  BY <1>1, <1>2, <1>3, <1>4

LEMMA CountedKept ==
  ASSUME TypeOK, TraceInv, NEW t \in Thread,
         Allowed(t) \/ Inside(t) \/ Enqueue(t) \/ Refuse(t)
  PROVE  Counted' = Counted
<1> USE DEF TraceInv, OwnTrace, Counted, At
<1>1. CASE Allowed(t) \/ Inside(t)
  <2>1. /\ \A u \in Thread \ {t} : frame'[u] = frame[u]
        /\ frame[t].pc # "allowed" /\ frame'[t].pc # "allowed"
        /\ admitted' = admitted
    BY <1>1, AllowedMoves, InsideMoves
  <2>2. \A u \in Thread \ {t} : EntryOf(u)' = EntryOf(u)
    BY <2>1, SameEntry
  <2> QED
    BY <2>1, <2>2
<1>2. CASE Enqueue(t)
  <2>1. \A u \in Thread \ {t} : EntryOf(u)' = EntryOf(u)
    BY <1>2, EnqueueMoves, SameEntry
  <2>2. EntryOf(t) \notin admitted
    BY <1>2, EnqueueMoves
  <2> QED
    BY <1>2, <2>1, <2>2, EnqueueMoves
<1>3. CASE Refuse(t)
  <2>1. /\ \A u \in Thread \ {t} : frame'[u] = frame[u]
        /\ frame[t].pc # "allowed" /\ frame'[t].pc # "allowed"
        /\ admitted' = admitted
    BY <1>3, LeaveTrace DEF Leave, Refuse
  <2>2. \A u \in Thread \ {t} : EntryOf(u)' = EntryOf(u)
    BY <2>1, SameEntry
  <2> QED
    BY <2>1, <2>2
<1> QED
  BY <1>1, <1>2, <1>3

(* A count grows with the calls that are counted.                          *)
LEMMA CheckCounts ==
  ASSUME TypeOK, TraceInv, IsFiniteSet(asked), NEW t \in Thread, CountCheck(t)
  PROVE  Cardinality(Checked') = Cardinality(Checked) + 1
<1>1. /\ \A u \in Thread \ {t} : frame'[u] = frame[u]
      /\ frame[t].pc = "check" /\ frame'[t].pc = "count"
      /\ asked' = asked /\ frame'[t].trace = frame[t].trace
  BY DEF CountCheck, Goto, TypeOK, Frame, At
<1>2. Checked' = Checked \cup {frame[t].trace} /\ frame[t].trace \notin Checked
  BY <1>1 DEF Checked, Unchecked, Refresher, TraceInv, OwnTrace
<1> QED
  BY <1>2, CheckedFinite, FS_AddElement

LEMMA AllowedCounts ==
  ASSUME TypeOK, TraceInv, IsFiniteSet(admitted), NEW t \in Thread, CountAllowed(t)
  PROVE  Cardinality(Counted') = Cardinality(Counted) + 1
<1>1. /\ \A u \in Thread \ {t} : frame'[u] = frame[u]
      /\ frame[t].pc = "allowed" /\ frame'[t].pc = "idle"
      /\ admitted' = admitted
  BY LeaveTrace DEF Leave, CountAllowed, At
<1>2. \A u \in Thread \ {t} : EntryOf(u)' = EntryOf(u)
  BY <1>1, SameEntry
<1>3. \A u \in Thread \ {t} : At(u, "allowed") => EntryOf(u) # EntryOf(t)
  BY <1>1 DEF TraceInv, OwnTrace, EntryOf, At
<1>4. EntryOf(t) \in admitted
  BY <1>1 DEF TraceInv, OwnTrace, At
<1>5. Counted' = Counted \cup {EntryOf(t)} /\ EntryOf(t) \notin Counted
  BY <1>1, <1>2, <1>3, <1>4 DEF Counted, At
<1> QED
  BY <1>5, CountedFinite, FS_AddElement

(* A step that leaves the counts of the checks alone.                      *)
LEMMA ChecksKept ==
  ASSUME TypeOK, TraceInv, ChecksBound, NEW t \in Thread,
         \/ Allowed(t) \/ Enqueue(t) \/ Leave(t)
         \/ TryRefresh(t) \/ ReadClock(t) \/ ShiftAllowed(t) \/ ResetAllowed(t)
         \/ Peek(t) \/ Dequeue(t) \/ Release(t) \/ Admit(t) \/ Stamp(t)
  PROVE  ChecksBound'
<1>1. Checked' = Checked
  <2>1. Allowed(t) \/ Enqueue(t) \/ Leave(t) \/ (Inside(t) /\ ~ CountCheck(t))
    BY DEF Inside, Refresh, TryRefresh, ReadClock, ShiftAllowed, ResetAllowed, Peek,
       Dequeue, Release, Admit, Stamp, CountCheck, At
  <2> QED
    BY <2>1, CheckedKept
<1>2. IsFiniteSet(asked')
  <2>1. asked' = asked \/ \E r : asked' = asked \cup {r}
    BY AllowedMoves, EnqueueMoves, LeaveTrace, InsideMoves DEF Inside, Refresh
  <2> QED
    BY <2>1, FS_AddElement DEF ChecksBound
<1>3. windowChecks' = windowChecks /\ previousWindowChecks' = previousWindowChecks
  BY DEF Allowed, Enqueue, Leave, Refuse, CountAllowed, TryRefresh, ReadClock,
     ShiftAllowed, ResetAllowed, Peek, Dequeue, Release, Admit, Stamp, counters
<1>4. ASSUME NEW u \in Thread, frame[u].pc \in {"resetAllowed", "resetChecks"}
      PROVE  frame'[u].pc \in {"resetAllowed", "resetChecks"}
  <2>1. CASE u # t
    <3>1. frame'[u] = frame[u]
      BY <2>1, AllowedMoves, EnqueueMoves, LeaveTrace, InsideMoves DEF Inside, Refresh
    <3> QED
      BY <1>4, <3>1
  <2>2. CASE u = t
    <3>1. ResetAllowed(t)
      BY <1>4, <2>2, AllowedMoves, EnqueueMoves, LeaveTrace
         DEF TryRefresh, ReadClock, ShiftAllowed, Peek, Dequeue, Release, Admit, Stamp, At
    <3> QED
      BY <2>2, <3>1 DEF ResetAllowed, Goto, TypeOK, Frame
  <2> QED
    BY <2>1, <2>2
<1> QED
  BY <1>1, <1>2, <1>3, <1>4 DEF ChecksBound

LEMMA ChecksBoundStep ==
  ASSUME TypeOK, TraceInv, ChecksBound, [Next]_vars
  PROVE  ChecksBound'
<1>0. /\ Cardinality(Checked) \in Nat
      /\ windowChecks \in Nat /\ previousWindowChecks \in Nat
  BY CheckedFinite DEF ChecksBound, TypeOK
<1>1. CASE UNCHANGED vars \/ Tick
  <2>1. UNCHANGED <<frame, asked, windowChecks, previousWindowChecks>>
    BY <1>1 DEF vars, Tick, counters
  <2> QED
    BY <2>1 DEF ChecksBound, Checked, Unchecked
<1>2. ASSUME NEW t \in Thread, CountCheck(t)
      PROVE  ChecksBound'
  <2>1. Cardinality(Checked') = Cardinality(Checked) + 1
    BY <1>2, CheckCounts DEF ChecksBound
  <2>2. /\ windowChecks' = windowChecks + 1
        /\ previousWindowChecks' = previousWindowChecks /\ asked' = asked
        /\ frame[t].pc = "check" /\ \A u \in Thread \ {t} : frame'[u] = frame[u]
    BY <1>2, InsideMoves DEF CountCheck, Inside, At
  <2>3. \A u \in Thread : frame[u].pc \in {"resetAllowed", "resetChecks"} =>
                            frame'[u].pc \in {"resetAllowed", "resetChecks"}
    BY <2>2
  <2> QED
    BY <1>0, <2>1, <2>2, <2>3 DEF ChecksBound
<1>3. ASSUME NEW t \in Thread, ShiftChecks(t)
      PROVE  ChecksBound'
  <2>1. Checked' = Checked /\ asked' = asked
    BY <1>3, CheckedKept, InsideMoves DEF Inside, Refresh, ShiftChecks, CountCheck, At
  <2>2. /\ windowChecks' = windowChecks /\ previousWindowChecks' = windowChecks
        /\ frame'[t].pc = "resetAllowed"
    BY <1>3 DEF ShiftChecks, Goto, TypeOK, Frame
  <2> QED
    BY <2>1, <2>2 DEF ChecksBound
<1>4. ASSUME NEW t \in Thread, ResetChecks(t)
      PROVE  ChecksBound'
  <2>1. Checked' = Checked /\ asked' = asked
    BY <1>4, CheckedKept, InsideMoves DEF Inside, Refresh, ResetChecks, CountCheck, At
  <2>2. windowChecks' = 0 /\ previousWindowChecks' = previousWindowChecks
    BY <1>4 DEF ResetChecks
  <2> QED
    BY <1>0, <2>1, <2>2 DEF ChecksBound
<1> QED
  BY <1>1, <1>2, <1>3, <1>4, ChecksKept DEF Next, WaitForRefresh, Decide, Leave

(* The same for the counts of the admitted.                                *)
LEMMA AllowedKept ==
  ASSUME TypeOK, TraceInv, AllowedBound, NEW t \in Thread,
         \/ Allowed(t) \/ Enqueue(t) \/ Refuse(t)
         \/ TryRefresh(t) \/ ReadClock(t) \/ ShiftChecks(t) \/ ResetChecks(t)
         \/ Peek(t) \/ Dequeue(t) \/ Release(t)
         \/ CountCheck(t) \/ Admit(t) \/ Stamp(t)
  PROVE  AllowedBound'
<1>1. Counted' = Counted
  BY CountedKept DEF Inside, Refresh
<1>2. windowAllowed' = windowAllowed /\ previousWindowAllowed' = previousWindowAllowed
  BY DEF Allowed, Enqueue, Refuse, TryRefresh, ReadClock, ShiftChecks, ResetChecks,
     Peek, Dequeue, Release, CountCheck, Admit, Stamp, counters
<1>3. ASSUME NEW u \in Thread, frame[u].pc \in {"shiftChecks", "resetAllowed"}
      PROVE  frame'[u].pc \in {"shiftChecks", "resetAllowed"}
  <2>1. CASE u # t
    <3>1. frame'[u] = frame[u]
      BY <2>1, AllowedMoves, EnqueueMoves, LeaveTrace, InsideMoves DEF Inside, Refresh, Leave
    <3> QED
      BY <1>3, <3>1
  <2>2. CASE u = t
    <3>1. ShiftChecks(t)
      BY <1>3, <2>2 DEF Allowed, Enqueue, Refuse, TryRefresh, ReadClock, ResetChecks,
         Peek, Dequeue, Release, CountCheck, Admit, Stamp, At
    <3> QED
      BY <2>2, <3>1 DEF ShiftChecks, Goto, TypeOK, Frame
  <2> QED
    BY <2>1, <2>2
<1> QED
  BY <1>1, <1>2, <1>3 DEF AllowedBound

LEMMA AllowedBoundStep ==
  ASSUME TypeOK, TraceInv, IsFiniteSet(admitted), AllowedBound, [Next]_vars
  PROVE  AllowedBound'
<1>0. /\ Cardinality(Counted) \in Nat
      /\ windowAllowed \in Nat /\ previousWindowAllowed \in Nat
  BY CountedFinite DEF TypeOK
<1>1. CASE UNCHANGED vars \/ Tick
  <2>1. UNCHANGED <<frame, admitted, windowAllowed, previousWindowAllowed>>
    BY <1>1 DEF vars, Tick, counters
  <2> QED
    BY <2>1 DEF AllowedBound, Counted, EntryOf, At
<1>2. ASSUME NEW t \in Thread, CountAllowed(t)
      PROVE  AllowedBound'
  <2>1. Cardinality(Counted') = Cardinality(Counted) + 1
    BY <1>2, AllowedCounts
  <2>2. /\ windowAllowed' = windowAllowed + 1
        /\ previousWindowAllowed' = previousWindowAllowed
        /\ frame[t].pc = "allowed" /\ \A u \in Thread \ {t} : frame'[u] = frame[u]
    BY <1>2, LeaveTrace DEF CountAllowed, Leave, At
  <2>3. \A u \in Thread : frame[u].pc \in {"shiftChecks", "resetAllowed"} =>
                            frame'[u].pc \in {"shiftChecks", "resetAllowed"}
    BY <2>2
  <2> QED
    BY <1>0, <2>1, <2>2, <2>3 DEF AllowedBound
<1>3. ASSUME NEW t \in Thread, ShiftAllowed(t)
      PROVE  AllowedBound'
  <2>1. Counted' = Counted
    BY <1>3, CountedKept DEF Inside, Refresh
  <2>2. /\ windowAllowed' = windowAllowed /\ previousWindowAllowed' = windowAllowed
        /\ frame'[t].pc = "shiftChecks"
    BY <1>3 DEF ShiftAllowed, Goto, TypeOK, Frame
  <2> QED
    BY <2>1, <2>2 DEF AllowedBound
<1>4. ASSUME NEW t \in Thread, ResetAllowed(t)
      PROVE  AllowedBound'
  <2>1. Counted' = Counted
    BY <1>4, CountedKept DEF Inside, Refresh
  <2>2. windowAllowed' = 0 /\ previousWindowAllowed' = previousWindowAllowed
    BY <1>4 DEF ResetAllowed
  <2> QED
    BY <1>0, <2>1, <2>2 DEF AllowedBound
<1> QED
  BY <1>1, <1>2, <1>3, <1>4, AllowedKept DEF Next, WaitForRefresh, Decide

CountInv == TraceInv /\ ChecksBound /\ AllowedBound

LEMMA InitCounts == Init => CountInv
<1> SUFFICES ASSUME Init PROVE CountInv
  OBVIOUS
<1>1. /\ admitted = {} /\ asked = {} /\ \A t \in Thread : frame[t].pc = "idle"
      /\ windowChecks = 0 /\ windowAllowed = 0
      /\ previousWindowChecks = 0 /\ previousWindowAllowed = 0
  BY IdleFrame DEF Init
<1>2. Checked = {} /\ Counted = {}
  BY <1>1 DEF Checked, Counted
<1>3. IsFiniteSet({}) /\ Cardinality({}) = 0
  BY FS_EmptySet
<1>4. TraceInv
  BY <1>1 DEF TraceInv, OwnTrace, AdmittedAsked
<1>5. ChecksBound
  BY <1>1, <1>2, <1>3 DEF ChecksBound
<1>6. AllowedBound
  BY <1>1, <1>2, <1>3 DEF AllowedBound
<1> QED
  BY <1>4, <1>5, <1>6 DEF CountInv

LEMMA BoundImpliesCounted == TypeOK /\ Bound /\ CountInv => CountedOnce
<1> SUFFICES ASSUME TypeOK, Bound, CountInv, ~ Shifting
             PROVE  /\ windowAllowed + previousWindowAllowed <= Cardinality(admitted)
                    /\ windowChecks + previousWindowChecks <= Cardinality(asked)
  BY DEF CountedOnce
<1>1. /\ windowAllowed + previousWindowAllowed <= Cardinality(Counted)
      /\ windowChecks + previousWindowChecks <= Cardinality(Checked)
  BY DEF CountInv, ChecksBound, AllowedBound, Shifting
<1>2. /\ Cardinality(Counted) <= Cardinality(admitted)
      /\ Cardinality(Counted) \in Nat /\ Cardinality(admitted) \in Nat
  BY CountedFinite DEF Bound
<1>3. /\ Cardinality(Checked) <= Cardinality(asked)
      /\ Cardinality(Checked) \in Nat /\ Cardinality(asked) \in Nat
  BY CheckedFinite DEF CountInv, ChecksBound
<1> QED
  BY <1>1, <1>2, <1>3 DEF TypeOK

(* Increments that race with the shift of the counts may get lost, but     *)
(* between two shifts the counts of the two windows add up to no more than *)
(* the calls that were made and admitted (WaitForRefresh 132-135).         *)
THEOREM CountsExact == Spec => []CountedOnce
<1>1. Init => IInv /\ CountInv
  BY InitType, InitInv, InitCounts DEF IInv
<1>2. IInv /\ CountInv /\ [Next]_vars => (IInv /\ CountInv)'
  BY TypeStep, QueueStep, BoundStep, TraceInvStep, ChecksBoundStep, AllowedBoundStep
     DEF IInv, CountInv, Bound
<1>3. IInv /\ CountInv => CountedOnce
  BY BoundImpliesCounted DEF IInv
<1> QED
  BY <1>1, <1>2, <1>3, PTL DEF Spec

-----------------------------------------------------------------------------
(* Late entries.                                                           *)

(* The entries of a queue behind place i, and the threads about to         *)
(* enqueue, whose timestamp is before x.                                   *)
LateIn(q, i, x) == {j \in i + 1 .. Len(q) : q[j].time < x}
StampedBefore(f, x) == {t \in Thread : f[t].pc = "enqueue" /\ f[t].time < x}
FewLate(q, f, i, x) ==
    Cardinality(LateIn(q, i, x)) + Cardinality(StampedBefore(f, x)) < N

(* Behind an entry there are older ones only from threads that were        *)
(* already stamped when it entered, one from each.                         *)
FewBehind ==
    \A i \in 1 .. Len(intervalQueue) :
        FewLate(intervalQueue, frame, i, intervalQueue[i].time)

(* What the loop over old timestamps leaves behind, until the call that    *)
(* made it reads the count.                                                *)
Refreshed(t) == frame[t].pc \in {"release", "check", "count"} /\ frame[t].now # NoTime
FewAfterRefresh ==
    \A t \in Thread :
        Refreshed(t) => FewLate(intervalQueue, frame, 0, frame[t].now - Interval)

QueuePast == \A i \in 1 .. Len(intervalQueue) : intervalQueue[i].time <= clock
FreshCall == \A t \in Thread : frame[t].pc \in {"idle", "refresh"} => frame[t].now = NoTime

LateInv == FewBehind /\ FewAfterRefresh /\ QueuePast /\ FreshCall

LEMMA LateFinite ==
  ASSUME NEW q \in Seq(Entry), NEW i \in Nat, NEW x
  PROVE  IsFiniteSet(LateIn(q, i, x)) /\ Cardinality(LateIn(q, i, x)) \in Nat
<1>1. i + 1 \in Int /\ Len(q) \in Int
  OBVIOUS
<1>2. IsFiniteSet(i + 1 .. Len(q))
  BY <1>1, FS_Interval
<1>3. LateIn(q, i, x) \in SUBSET (i + 1 .. Len(q))
  BY DEF LateIn
<1> QED
  BY <1>2, <1>3, FS_Subset, FS_CardinalityType

LEMMA StampedFinite ==
  ASSUME NEW f, NEW x
  PROVE  /\ IsFiniteSet(StampedBefore(f, x))
         /\ Cardinality(StampedBefore(f, x)) \in Nat
         /\ Cardinality(StampedBefore(f, x)) <= N
BY FiniteThreads DEF StampedBefore

(* Fewer entries, and fewer threads about to enqueue.                      *)
LEMMA FewerLate ==
  ASSUME NEW q \in Seq(Entry), NEW i \in Nat, NEW x, NEW f,
         NEW r \in Seq(Entry), NEW j \in Nat, NEW y, NEW g,
         LateIn(r, j, y) \subseteq LateIn(q, i, x),
         StampedBefore(g, y) \subseteq StampedBefore(f, x),
         FewLate(q, f, i, x)
  PROVE  FewLate(r, g, j, y)
<1>1. /\ Cardinality(LateIn(r, j, y)) <= Cardinality(LateIn(q, i, x))
      /\ Cardinality(LateIn(r, j, y)) \in Nat /\ Cardinality(LateIn(q, i, x)) \in Nat
  BY LateFinite, FS_Subset
<1>2. /\ Cardinality(StampedBefore(g, y)) <= Cardinality(StampedBefore(f, x))
      /\ Cardinality(StampedBefore(g, y)) \in Nat
      /\ Cardinality(StampedBefore(f, x)) \in Nat
  BY StampedFinite, FS_Subset
<1> QED
  BY <1>1, <1>2, NNat DEF FewLate

(* The first entry leaves: the others move up one place.                   *)
LEMMA LateTail ==
  ASSUME NEW q \in Seq(Entry), q # <<>>, NEW i \in Nat, NEW x
  PROVE  Cardinality(LateIn(Tail(q), i, x)) <= Cardinality(LateIn(q, i + 1, x))
<1> DEFINE f == [j \in LateIn(Tail(q), i, x) |-> j + 1]
<1>1. /\ Tail(q) \in Seq(Entry) /\ Len(Tail(q)) = Len(q) - 1 /\ Len(q) \in Nat
      /\ \A j \in 1 .. Len(Tail(q)) : Tail(q)[j] = q[j + 1]
  BY HeadTailProperties
<1>2. ASSUME NEW j \in LateIn(Tail(q), i, x)
      PROVE  j \in Int /\ j + 1 \in LateIn(q, i + 1, x)
  <2>1. j \in i + 1 .. Len(Tail(q)) /\ Tail(q)[j] = q[j + 1] /\ Tail(q)[j].time < x
    BY <1>1 DEF LateIn
  <2> QED
    BY <1>1, <2>1 DEF LateIn
<1>3. f \in Injection(LateIn(Tail(q), i, x), LateIn(q, i + 1, x))
  BY <1>2 DEF Injection, IsInjective
<1> QED
  BY <1>3, LateFinite, FS_Injection

LEMMA FewLateTail ==
  ASSUME NEW q \in Seq(Entry), q # <<>>, NEW i \in Nat, NEW x, NEW f, NEW g,
         StampedBefore(g, x) \subseteq StampedBefore(f, x),
         FewLate(q, f, i + 1, x)
  PROVE  FewLate(Tail(q), g, i, x)
<1>1. Tail(q) \in Seq(Entry) /\ i + 1 \in Nat
  BY HeadTailProperties
<1>2. /\ Cardinality(LateIn(Tail(q), i, x)) <= Cardinality(LateIn(q, i + 1, x))
      /\ Cardinality(LateIn(Tail(q), i, x)) \in Nat
      /\ Cardinality(LateIn(q, i + 1, x)) \in Nat
  BY <1>1, LateTail, LateFinite
<1>3. /\ Cardinality(StampedBefore(g, x)) <= Cardinality(StampedBefore(f, x))
      /\ Cardinality(StampedBefore(g, x)) \in Nat
      /\ Cardinality(StampedBefore(f, x)) \in Nat
  BY StampedFinite, FS_Subset
<1> QED
  BY <1>2, <1>3, NNat DEF FewLate

(* A thread enqueues what it has stamped.                                  *)
LEMMA FewLateAppend ==
  ASSUME NEW q \in Seq(Entry), NEW e \in Entry, NEW i \in 0 .. Len(q), NEW x,
         NEW f, NEW g, NEW t \in Thread,
         f[t].pc = "enqueue", f[t].time = e.time, g[t].pc # "enqueue",
         \A u \in Thread \ {t} : g[u] = f[u],
         FewLate(q, f, i, x)
  PROVE  FewLate(Append(q, e), g, i, x)
<1>1. /\ Append(q, e) \in Seq(Entry) /\ Len(q) \in Nat /\ i \in Nat
      /\ Len(Append(q, e)) = Len(q) + 1
      /\ \A j \in 1 .. Len(q) : Append(q, e)[j] = q[j]
      /\ Append(q, e)[Len(q) + 1] = e
  OBVIOUS
<1>2. /\ IsFiniteSet(LateIn(q, i, x)) /\ Cardinality(LateIn(q, i, x)) \in Nat
      /\ IsFiniteSet(StampedBefore(f, x)) /\ Cardinality(StampedBefore(f, x)) \in Nat
  BY <1>1, LateFinite, StampedFinite
<1>3. CASE e.time < x
  <2>1. LateIn(Append(q, e), i, x) = LateIn(q, i, x) \cup {Len(q) + 1}
        /\ Len(q) + 1 \notin LateIn(q, i, x)
    <3>1. ASSUME NEW j \in LateIn(Append(q, e), i, x)
          PROVE  j \in LateIn(q, i, x) \cup {Len(q) + 1}
      BY <1>1 DEF LateIn
    <3>2. ASSUME NEW j \in LateIn(q, i, x)
          PROVE  j \in LateIn(Append(q, e), i, x) /\ j # Len(q) + 1
      BY <1>1 DEF LateIn
    <3>3. Len(q) + 1 \in LateIn(Append(q, e), i, x)
      BY <1>1, <1>3 DEF LateIn
    <3> QED
      BY <3>1, <3>2, <3>3
  <2>2. Cardinality(LateIn(Append(q, e), i, x)) = Cardinality(LateIn(q, i, x)) + 1
    BY <1>2, <2>1, FS_AddElement
  <2>3. StampedBefore(g, x) = StampedBefore(f, x) \ {t} /\ t \in StampedBefore(f, x)
    BY <1>3 DEF StampedBefore
  <2>4. Cardinality(StampedBefore(g, x)) = Cardinality(StampedBefore(f, x)) - 1
    BY <1>2, <2>3, FS_RemoveElement
  <2> QED
    BY <1>2, <2>2, <2>4, NNat DEF FewLate
<1>4. CASE ~ (e.time < x)
  <2>1. LateIn(Append(q, e), i, x) \subseteq LateIn(q, i, x)
    BY <1>1, <1>4 DEF LateIn
  <2>2. StampedBefore(g, x) \subseteq StampedBefore(f, x)
    BY DEF StampedBefore
  <2> QED
    BY <1>1, <2>1, <2>2, FewerLate
<1> QED
  BY <1>3, <1>4

(* Nothing is behind the last entry, and the thread that enqueued it is    *)
(* not about to enqueue.                                                   *)
LEMMA NothingBehind ==
  ASSUME NEW q \in Seq(Entry), NEW i \in Nat, i >= Len(q), NEW x, NEW f,
         NEW t \in Thread, f[t].pc # "enqueue"
  PROVE  FewLate(q, f, i, x)
<1>1. LateIn(q, i, x) = {}
  BY DEF LateIn
<1>2. Cardinality(LateIn(q, i, x)) = 0
  BY <1>1, FS_EmptySet
<1>3. StampedBefore(f, x) \subseteq Thread \ {t}
  BY DEF StampedBefore
<1>4. IsFiniteSet(Thread \ {t}) /\ Cardinality(Thread \ {t}) = N - 1
  BY LimiterAssumption, FS_RemoveElement DEF N
<1>5. Cardinality(StampedBefore(f, x)) <= N - 1
  BY <1>3, <1>4, FS_Subset
<1> QED
  BY <1>2, <1>5, StampedFinite, NNat DEF FewLate

(* A thread comes to hold a timestamp only by reading the clock.           *)
LEMMA StampedStep ==
  ASSUME TypeOK, NEW t \in Thread,
         Allowed(t) \/ Inside(t) \/ Enqueue(t) \/ Leave(t),
         NEW x \in Int, Stamp(t) => x <= clock
  PROVE  StampedBefore(frame', x) \subseteq StampedBefore(frame, x)
<1>1. \A u \in Thread \ {t} : frame'[u] = frame[u]
  BY AllowedMoves, InsideMoves, EnqueueMoves, LeaveTrace
<1>2. CASE Stamp(t)
  <2>1. frame'[t].time = clock /\ clock \in Nat
    BY <1>2 DEF Stamp, TypeOK, Frame
  <2> QED
    BY <1>1, <1>2, <2>1 DEF StampedBefore
<1>3. CASE ~ Stamp(t)
  <2>1. CASE Allowed(t) \/ Enqueue(t) \/ Leave(t)
    BY <1>1, <2>1, AllowedMoves, EnqueueMoves, LeaveTrace DEF StampedBefore
  <2>2. CASE Refresh(t)
    BY <1>1, <2>2, RefreshMoves DEF StampedBefore, Refresher
  <2>3. CASE CountCheck(t) \/ TryRefresh(t) \/ Peek(t) \/ Dequeue(t) \/ Release(t) \/ Admit(t)
    <3>1. frame'[t].pc # "enqueue"
      BY <2>3 DEF CountCheck, TryRefresh, Peek, Dequeue, Release, Admit, Goto, TypeOK, Frame
    <3> QED
      BY <1>1, <3>1 DEF StampedBefore
  <2> QED
    BY <1>3, <2>1, <2>2, <2>3 DEF Inside
<1> QED
  BY <1>2, <1>3

(* Only a removal moves the entries of the queue up.                       *)
LEMMA QueueKept ==
  ASSUME TypeOK, NEW t \in Thread, Allowed(t) \/ Inside(t) \/ Leave(t), ~ Dequeue(t)
  PROVE  intervalQueue' = intervalQueue
BY EnterMoves, RefreshMoves, LeaveMoves
   DEF Inside, Enter, TryRefresh, Peek, Release, Admit, Stamp

(* The late entries stay few, as seen from a place of the queue, and from  *)
(* its head also when the head leaves.                                     *)
LEMMA FewLateStep ==
  ASSUME TypeOK, HeadExpired, [Next]_vars,
         NEW i \in 0 .. Len(intervalQueue), NEW x \in Int, x <= clock,
         FewLate(intervalQueue, frame, i, x),
         i = 0 \/ \A t \in Thread : ~ Dequeue(t)
  PROVE  FewLate(intervalQueue', frame', i, x)
<1>0. intervalQueue \in Seq(Entry) /\ i \in Nat
  BY DEF TypeOK
<1>1. CASE UNCHANGED vars \/ Tick
  BY <1>1 DEF vars, Tick
<1>2. ASSUME NEW t \in Thread, Allowed(t) \/ Inside(t) \/ Leave(t), ~ Dequeue(t)
      PROVE  FewLate(intervalQueue', frame', i, x)
  BY <1>0, <1>2, QueueKept, StampedStep, FewerLate
<1>3. ASSUME NEW t \in Thread, Dequeue(t)
      PROVE  FewLate(intervalQueue', frame', i, x)
  <2>1. /\ intervalQueue # <<>> /\ intervalQueue' = Tail(intervalQueue)
        /\ ~ Stamp(t) /\ Inside(t)
    BY <1>3 DEF Dequeue, HeadExpired, Stamp, Inside, At
  <2>2. i = 0
    BY <1>3
  <2>3. LateIn(intervalQueue, 1, x) \subseteq LateIn(intervalQueue, 0, x)
    BY <1>0 DEF LateIn
  <2>4. FewLate(intervalQueue, frame, 1, x)
    BY <1>0, <2>2, <2>3, FewerLate
  <2>5. StampedBefore(frame', x) \subseteq StampedBefore(frame, x)
    BY <2>1, StampedStep
  <2> QED
    BY <1>0, <2>1, <2>2, <2>4, <2>5, FewLateTail
<1>4. ASSUME NEW t \in Thread, Enqueue(t)
      PROVE  FewLate(intervalQueue', frame', i, x)
  <2>1. /\ intervalQueue' = Append(intervalQueue, EntryOf(t))
        /\ EntryOf(t) \in Entry /\ EntryOf(t).time = frame[t].time
    BY <1>4 DEF Enqueue, EntryOf, Entry, TypeOK, At, Frame
  <2> QED
    BY <1>0, <1>4, <2>1, EnqueueMoves, FewLateAppend
<1> QED
  BY <1>1, <1>2, <1>3, <1>4, TraceKinds DEF Inside

LEMMA QueueTimes ==
  ASSUME TypeOK, NEW i \in 1 .. Len(intervalQueue)
  PROVE  intervalQueue[i].time \in Nat
<1>1. intervalQueue[i] \in Entry
  BY DEF TypeOK
<1> QED
  BY <1>1 DEF Entry

LEMMA QueuePastStep ==
  ASSUME TypeOK, PastTimes, HeadExpired, QueuePast, [Next]_vars
  PROVE  QueuePast'
<1>0. intervalQueue \in Seq(Entry) /\ clock \in Nat /\ Len(intervalQueue) \in Nat
  BY DEF TypeOK
<1>A. \A i \in 1 .. Len(intervalQueue) : intervalQueue[i].time \in Nat
  BY QueueTimes
<1>1. CASE UNCHANGED <<intervalQueue, clock>>
  BY <1>1 DEF QueuePast
<1>2. CASE Tick
  BY <1>0, <1>A, <1>2 DEF Tick, QueuePast
<1>3. ASSUME NEW t \in Thread, Dequeue(t)
      PROVE  QueuePast'
  <2>1. intervalQueue # <<>> /\ intervalQueue' = Tail(intervalQueue) /\ clock' = clock
    BY <1>3 DEF Dequeue, HeadExpired
  <2>2. /\ Len(intervalQueue') = Len(intervalQueue) - 1
        /\ \A i \in 1 .. Len(intervalQueue') : intervalQueue'[i] = intervalQueue[i + 1]
    BY <1>0, <2>1, HeadTailProperties
  <2>3. \A i \in 1 .. Len(intervalQueue') : i + 1 \in 1 .. Len(intervalQueue)
    BY <1>0, <2>2
  <2> QED
    BY <2>1, <2>2, <2>3 DEF QueuePast
<1>4. ASSUME NEW t \in Thread, Enqueue(t)
      PROVE  QueuePast'
  <2>1. /\ intervalQueue' = Append(intervalQueue, EntryOf(t)) /\ clock' = clock
        /\ EntryOf(t).time <= clock
    BY <1>4 DEF Enqueue, EntryOf, PastTimes
  <2> QED
    BY <1>0, <2>1 DEF QueuePast
<1>5. ASSUME NEW t \in Thread, Allowed(t) \/ Inside(t) \/ Leave(t), ~ Dequeue(t)
      PROVE  UNCHANGED <<intervalQueue, clock>>
  <2>1. clock' = clock
    BY <1>5, EnterMoves, RefreshMoves, LeaveMoves, OtherMoves DEF Inside, Enter
  <2> QED
    BY <1>5, <2>1, QueueKept
<1> QED
  BY <1>1, <1>2, <1>3, <1>4, <1>5, TraceKinds DEF vars, Inside

LEMMA FreshCallStep ==
  ASSUME TypeOK, FreshCall, [Next]_vars
  PROVE  FreshCall'
<1> USE DEF FreshCall
<1>1. CASE UNCHANGED vars \/ Tick
  BY <1>1 DEF vars, Tick
<1>2. ASSUME NEW t \in Thread, Enter(t)
      PROVE  FreshCall'
  <2>1. CASE Allowed(t)
    BY <2>1, AllowedMoves, EnterMoves DEF Enter
  <2>2. CASE CountCheck(t)
    <3>1. frame'[t].pc = "count"
      BY <2>2 DEF CountCheck, Goto, TypeOK, Frame
    <3> QED
      BY <1>2, <3>1, EnterMoves
  <2> QED
    BY <1>2, <2>1, <2>2 DEF Enter
<1>3. ASSUME NEW t \in Thread, Leave(t)
      PROVE  FreshCall'
  BY <1>3, LeaveMoves, IdleFrame
<1>4. ASSUME NEW t \in Thread,
             \/ TryRefresh(t) \/ Refresh(t) \/ Peek(t) \/ Dequeue(t)
             \/ Release(t) \/ Admit(t) \/ Stamp(t) \/ Enqueue(t)
      PROVE  FreshCall'
  <2>1. frame'[t].pc \notin {"idle", "refresh"}
    <3>1. CASE Refresh(t)
      BY <3>1, RefreshMoves DEF Refresher
    <3>2. CASE TryRefresh(t) \/ Peek(t) \/ Dequeue(t)
      BY <3>2 DEF TryRefresh, Peek, Dequeue, Goto, TypeOK, Frame
    <3>3. CASE Release(t) \/ Admit(t) \/ Stamp(t) \/ Enqueue(t)
      BY <3>3 DEF Release, Admit, Stamp, Enqueue, Goto, TypeOK, Frame
    <3> QED
      BY <1>4, <3>1, <3>2, <3>3
  <2>2. \A u \in Thread \ {t} : frame'[u] = frame[u]
    BY <1>4, RefreshMoves, OtherMoves
  <2> QED
    BY <2>1, <2>2
<1> QED
  BY <1>1, <1>2, <1>3, <1>4, StepKinds

LEMMA FewBehindStep ==
  ASSUME TypeOK, PastTimes, HeadExpired, QueuePast, FewBehind, [Next]_vars
  PROVE  FewBehind'
<1>0. intervalQueue \in Seq(Entry) /\ Len(intervalQueue) \in Nat
  BY DEF TypeOK
<1>1. ASSUME NEW i \in 1 .. Len(intervalQueue), \A t \in Thread : ~ Dequeue(t)
      PROVE  FewLate(intervalQueue', frame', i, intervalQueue[i].time)
  <2>1. /\ intervalQueue[i].time \in Int /\ intervalQueue[i].time <= clock
        /\ FewLate(intervalQueue, frame, i, intervalQueue[i].time)
    BY QueueTimes DEF QueuePast, FewBehind
  <2> QED
    BY <1>0, <1>1, <2>1, FewLateStep
<1>2. CASE UNCHANGED vars \/ Tick
  <2>1. intervalQueue' = intervalQueue /\ frame' = frame
    BY <1>2 DEF vars, Tick
  <2> QED
    BY <2>1 DEF FewBehind
<1>3. ASSUME NEW t \in Thread, Allowed(t) \/ Inside(t) \/ Leave(t),
             \A u \in Thread : ~ Dequeue(u)
      PROVE  FewBehind'
  <2>1. intervalQueue' = intervalQueue
    BY <1>3, QueueKept
  <2> QED
    BY <1>1, <1>3, <2>1 DEF FewBehind
<1>4. ASSUME NEW t \in Thread, Dequeue(t)
      PROVE  FewBehind'
  <2>1. /\ intervalQueue # <<>> /\ intervalQueue' = Tail(intervalQueue)
        /\ ~ Stamp(t) /\ Inside(t)
    BY <1>4 DEF Dequeue, HeadExpired, Stamp, Inside, At
  <2>2. /\ Len(intervalQueue') = Len(intervalQueue) - 1
        /\ \A i \in 1 .. Len(intervalQueue') : intervalQueue'[i] = intervalQueue[i + 1]
    BY <1>0, <2>1, HeadTailProperties
  <2>3. ASSUME NEW i \in 1 .. Len(intervalQueue')
        PROVE  FewLate(intervalQueue', frame', i, intervalQueue'[i].time)
    <3>1. i + 1 \in 1 .. Len(intervalQueue) /\ i \in Nat
      BY <1>0, <2>2
    <3>2. intervalQueue'[i] = intervalQueue[i + 1]
      BY <2>2
    <3>3. /\ intervalQueue[i + 1].time \in Int
          /\ FewLate(intervalQueue, frame, i + 1, intervalQueue[i + 1].time)
      BY <3>1, QueueTimes DEF FewBehind
    <3>4. StampedBefore(frame', intervalQueue[i + 1].time)
            \subseteq StampedBefore(frame, intervalQueue[i + 1].time)
      BY <2>1, <3>3, StampedStep
    <3>5. FewLate(Tail(intervalQueue), frame', i, intervalQueue[i + 1].time)
      BY <1>0, <2>1, <3>1, <3>3, <3>4, FewLateTail
    <3> QED
      BY <2>1, <3>2, <3>5
  <2> QED
    BY <2>3 DEF FewBehind
<1>5. ASSUME NEW t \in Thread, Enqueue(t), \A u \in Thread : ~ Dequeue(u)
      PROVE  FewBehind'
  <2> DEFINE n == EntryOf(t)
  <2>1. intervalQueue' = Append(intervalQueue, n) /\ n \in Entry
    BY <1>5 DEF Enqueue, EntryOf, Entry, TypeOK, At, Frame
  <2> HIDE DEF n
  <2>2. /\ intervalQueue' \in Seq(Entry)
        /\ Len(intervalQueue') = Len(intervalQueue) + 1
        /\ \A i \in 1 .. Len(intervalQueue) : intervalQueue'[i] = intervalQueue[i]
    BY <1>0, <2>1
  <2>3. ASSUME NEW i \in 1 .. Len(intervalQueue')
        PROVE  FewLate(intervalQueue', frame', i, intervalQueue'[i].time)
    <3>1. CASE i \in 1 .. Len(intervalQueue)
      BY <1>1, <1>5, <2>2, <3>1
    <3>2. CASE i = Len(intervalQueue')
      <4>1. frame'[t].pc # "enqueue"
        BY <1>5, EnqueueMoves
      <4>2. i \in Nat /\ i >= Len(intervalQueue')
        BY <1>0, <2>2, <3>2
      <4> QED
        BY <2>2, <4>1, <4>2, NothingBehind
    <3> QED
      BY <1>0, <2>2, <3>1, <3>2
  <2> QED
    BY <2>3 DEF FewBehind
<1> QED
  BY <1>2, <1>3, <1>4, <1>5, TraceKinds

(* The call that refreshed: it leaves the loop when the queue is empty or  *)
(* its head is not old, and has no timestamp of its own until it reads the *)
(* count.                                                                  *)
LEMMA PeekLeaves ==
  ASSUME TypeOK, QueuePast, FewBehind, NEW t \in Thread, Peek(t), frame'[t].pc = "release"
  PROVE  FewLate(intervalQueue', frame', 0, frame[t].now - Interval)
<1> DEFINE x == frame[t].now - Interval
<1>1. /\ intervalQueue \in Seq(Entry) /\ intervalQueue' = intervalQueue
      /\ Len(intervalQueue) \in Nat
      /\ \A u \in Thread \ {t} : frame'[u] = frame[u]
      /\ frame[t].now \in Int /\ x \in Int
  BY LimiterAssumption DEF Peek, Goto, TypeOK, Frame, NoTime
<1>2. CASE intervalQueue = <<>>
  <2>1. /\ intervalQueue' \in Seq(Entry) /\ 0 \in Nat /\ 0 >= Len(intervalQueue')
        /\ frame'[t].pc # "enqueue"
    BY <1>1, <1>2
  <2> HIDE DEF x
  <2>2. FewLate(intervalQueue', frame', 0, x)
    BY <2>1, NothingBehind
  <2> QED
    BY <2>2 DEF x
<1>3. CASE intervalQueue # <<>>
  <2>1. ~ Expired(frame[t].now, Head(intervalQueue))
    BY <1>3 DEF Peek, Goto, TypeOK, Frame
  <2>2. 1 \in 1 .. Len(intervalQueue) /\ Head(intervalQueue) = intervalQueue[1]
    BY <1>1, <1>3
  <2>3. /\ intervalQueue[1].time \in Int /\ x <= intervalQueue[1].time
        /\ FewLate(intervalQueue, frame, 1, intervalQueue[1].time)
    BY <1>1, <2>1, <2>2, QueueTimes, LimiterAssumption DEF Expired, FewBehind
  <2>4. \A j \in 1 .. Len(intervalQueue) : intervalQueue[j].time \in Int
    BY QueueTimes
  <2>5. LateIn(intervalQueue, 0, x) \subseteq
          LateIn(intervalQueue, 1, intervalQueue[1].time)
    <3> HIDE DEF x
    <3> QED
      BY <1>1, <2>3, <2>4 DEF LateIn
  <2>6. StampedBefore(frame', x) \subseteq StampedBefore(frame, intervalQueue[1].time)
    <3>1. \A u \in Thread : frame[u].time \in Int
      BY DEF TypeOK, Frame, NoTime
    <3>2. frame'[t].pc # "enqueue"
      OBVIOUS
    <3> HIDE DEF x
    <3> QED
      BY <1>1, <2>3, <3>1, <3>2 DEF StampedBefore
  <2> HIDE DEF x
  <2>7. FewLate(intervalQueue, frame', 0, x)
    <3> DEFINE y == intervalQueue[1].time
    <3>1. /\ FewLate(intervalQueue, frame, 1, y) /\ 0 \in Nat /\ 1 \in Nat
          /\ LateIn(intervalQueue, 0, x) \subseteq LateIn(intervalQueue, 1, y)
          /\ StampedBefore(frame', x) \subseteq StampedBefore(frame, y)
      BY <2>3, <2>5, <2>6
    <3> HIDE DEF y
    <3> QED
      BY <1>1, <3>1, FewerLate
  <2> QED
    BY <1>1, <2>7 DEF x
<1> QED
  BY <1>2, <1>3

LEMMA RefreshedStep ==
  ASSUME TypeOK, PastTimes, HeadExpired, QueuePast, FewBehind, FreshCall,
         NEW t \in Thread,
         Enter(t) \/ TryRefresh(t) \/ Refresh(t) \/ Peek(t) \/ Dequeue(t)
           \/ Release(t) \/ Admit(t) \/ Stamp(t) \/ Enqueue(t) \/ Leave(t),
         NEW u \in Thread, Refreshed(u)'
  PROVE  /\ frame'[u].now = frame[u].now
         /\ \/ Refreshed(u)
            \/ FewLate(intervalQueue', frame', 0, frame[u].now - Interval)
<1>1. CASE u # t
  BY <1>1, EnterMoves, RefreshMoves, LeaveMoves, OtherMoves DEF Refreshed
<1>2. CASE u = t
  <2>1. CASE Enter(t)
    <3>1. CASE Allowed(t)
      BY <1>2, <3>1, AllowedMoves DEF Refreshed
    <3>2. CASE CountCheck(t)
      BY <1>2, <3>2, EnterMoves DEF Enter, CountCheck, Refreshed, At
    <3> QED
      BY <2>1, <3>1, <3>2 DEF Enter
  <2>2. CASE TryRefresh(t)
    <3>1. frame'[t].now = frame[t].now /\ frame[t].now = NoTime
      BY <2>2, OtherMoves DEF TryRefresh, FreshCall, At
    <3> QED
      BY <1>2, <3>1 DEF Refreshed
  <2>3. CASE Refresh(t)
    <3>1. CASE ResetAllowed(t) \/ ShiftAllowed(t) \/ ShiftChecks(t) \/ ResetChecks(t)
      BY <1>2, <3>1 DEF ResetAllowed, ShiftAllowed, ShiftChecks, ResetChecks, Goto,
         TypeOK, Frame, Refreshed
    <3>2. CASE ReadClock(t)
      BY <1>2, <3>2 DEF ReadClock, TypeOK, Frame, Refreshed
    <3> QED
      BY <2>3, <3>1, <3>2 DEF Refresh
  <2>4. CASE Peek(t)
    <3>1. frame'[t].pc = "release"
      BY <1>2, <2>4 DEF Peek, Goto, TypeOK, Frame, Refreshed
    <3> QED
      BY <1>2, <2>4, <3>1, PeekLeaves, OtherMoves
  <2>5. CASE Dequeue(t)
    BY <1>2, <2>5 DEF Dequeue, Goto, TypeOK, Frame, Refreshed
  <2>6. CASE Release(t)
    BY <1>2, <2>6, OtherMoves DEF Release, Refreshed, At
  <2>7. CASE Admit(t) \/ Enqueue(t)
    BY <1>2, <2>7 DEF Admit, Enqueue, Goto, TypeOK, Frame, Refreshed
  <2>8. CASE Stamp(t)
    BY <1>2, <2>8 DEF Stamp, TypeOK, Frame, Refreshed
  <2>9. CASE Leave(t)
    BY <1>2, <2>9, LeaveMoves, IdleFrame DEF Refreshed
  <2> QED
    BY <2>1, <2>2, <2>3, <2>4, <2>5, <2>6, <2>7, <2>8, <2>9
<1> QED
  BY <1>1, <1>2

LEMMA FewAfterRefreshStep ==
  ASSUME TypeOK, PastTimes, HeadExpired, LateInv, [Next]_vars
  PROVE  FewAfterRefresh'
<1> USE DEF LateInv
<1>1. SUFFICES ASSUME NEW u \in Thread, Refreshed(u)'
               PROVE  FewLate(intervalQueue', frame', 0, frame'[u].now - Interval)
  BY DEF FewAfterRefresh
<1>2. ASSUME Refreshed(u), frame'[u].now = frame[u].now
      PROVE  FewLate(intervalQueue', frame', 0, frame'[u].now - Interval)
  <2> DEFINE x == frame[u].now - Interval
  <2>1. x \in Int /\ x <= clock
    BY LimiterAssumption DEF TypeOK, Frame, NoTime, PastTimes
  <2>2. FewLate(intervalQueue, frame, 0, x)
    BY <1>2 DEF FewAfterRefresh
  <2>3. 0 \in 0 .. Len(intervalQueue)
    BY DEF TypeOK
  <2> HIDE DEF x
  <2>4. FewLate(intervalQueue', frame', 0, x)
    BY <2>1, <2>2, <2>3, FewLateStep
  <2> QED
    BY <1>2, <2>4 DEF x
<1>3. CASE UNCHANGED vars \/ Tick
  <2>1. frame' = frame
    BY <1>3 DEF vars, Tick
  <2> QED
    BY <1>1, <1>2, <2>1 DEF Refreshed
<1>4. ASSUME NEW t \in Thread,
             Enter(t) \/ TryRefresh(t) \/ Refresh(t) \/ Peek(t) \/ Dequeue(t)
               \/ Release(t) \/ Admit(t) \/ Stamp(t) \/ Enqueue(t) \/ Leave(t)
      PROVE  FewLate(intervalQueue', frame', 0, frame'[u].now - Interval)
  <2>1. /\ frame'[u].now = frame[u].now
        /\ \/ Refreshed(u)
           \/ FewLate(intervalQueue', frame', 0, frame[u].now - Interval)
    BY <1>1, <1>4, RefreshedStep
  <2> QED
    BY <1>2, <2>1
<1> QED
  BY <1>3, <1>4, StepKinds

LEMMA LateStep ==
  ASSUME TypeOK, PastTimes, HeadExpired, LateInv, [Next]_vars
  PROVE  LateInv'
BY QueuePastStep, FreshCallStep, FewBehindStep, FewAfterRefreshStep DEF LateInv

LEMMA InitLate == Init => LateInv
<1> SUFFICES ASSUME Init PROVE LateInv
  OBVIOUS
<1>1. Len(intervalQueue) = 0 /\ \A t \in Thread : frame[t] = Idle
  BY DEF Init
<1> QED
  BY <1>1, IdleFrame
     DEF LateInv, FewBehind, FewAfterRefresh, Refreshed, QueuePast, FreshCall

LEMMA LateImpliesEffective == TypeOK /\ LateInv => RefreshEffective
<1> SUFFICES ASSUME TypeOK, LateInv,
                    NEW t \in Thread, At(t, "count"), frame[t].now # NoTime
             PROVE  Cardinality({i \in DOMAIN intervalQueue :
                                   Expired(frame[t].now, intervalQueue[i])})
                      < Cardinality(Thread)
  BY DEF RefreshEffective
<1> DEFINE x == frame[t].now - Interval
<1>1. FewLate(intervalQueue, frame, 0, x)
  BY DEF LateInv, FewAfterRefresh, Refreshed, At
<1>2. {i \in DOMAIN intervalQueue : Expired(frame[t].now, intervalQueue[i])}
        = LateIn(intervalQueue, 0, x)
  <2>1. /\ frame[t].now \in Int /\ Interval \in Int
        /\ DOMAIN intervalQueue = 1 .. Len(intervalQueue)
    BY LimiterAssumption DEF TypeOK, Frame, NoTime
  <2>2. \A i \in 1 .. Len(intervalQueue) : intervalQueue[i].time \in Int
    BY QueueTimes
  <2>3. 0 + 1 = 1
    OBVIOUS
  <2> QED
    BY <2>1, <2>2, <2>3 DEF LateIn, Expired
<1>3. /\ Cardinality(LateIn(intervalQueue, 0, x)) \in Nat
      /\ Cardinality(StampedBefore(frame, x)) \in Nat
  BY LateFinite, StampedFinite DEF TypeOK
<1> HIDE DEF x
<1>4. Cardinality(LateIn(intervalQueue, 0, x)) < N
  BY <1>1, <1>3, NNat DEF FewLate
<1> QED
  BY <1>2, <1>4 DEF N

(* When a call that refreshed reads the count, fewer entries than there    *)
(* are threads are ones its refresh should have removed (WaitForRefresh    *)
(* 139-142): an old burst does not make the limiter refuse what follows.   *)
THEOREM OldEntriesLeave == Spec => []RefreshEffective
<1>1. Init => IInv /\ LateInv
  BY InitType, InitInv, InitLate DEF IInv
<1>2. IInv /\ LateInv /\ [Next]_vars => (IInv /\ LateInv)'
  BY TypeStep, QueueStep, BoundStep, LateStep DEF IInv, QueueInv
<1>3. IInv /\ LateInv => RefreshEffective
  BY LateImpliesEffective DEF IInv
<1> QED
  BY <1>1, <1>2, <1>3, PTL DEF Spec
=============================================================================
