------------------------ MODULE AgentWriterInvariants -----------------------
(***************************************************************************)
(* The strengthenings that make the properties of AgentWriter inductive.   *)
(***************************************************************************)
EXTENDS AgentWriterProperties

(* In SerializeTrace.                                                      *)
WritingPc == {"try", "copy", "swap", "publish", "request", "complete", "stale",
              "drop"}

(* The frame of a thread holds what its next statement uses.               *)
WriterFramesOK ==
    \A w \in Writer :
        /\ writer[w].pc \in WritingPc \cup {"enqueue"} => writer[w].trace \in Trace
        /\ writer[w].pc = "copy" => temporaryBuffer \in Trace
FlusherFramesOK ==
    \A f \in Flusher : flusher[f].pc \notin {"idle", "read"} =>
        flusher[f].todo # <<>>

Typed == TypeOK /\ WriterFramesOK /\ FlusherFramesOK

(* A thread that copies is inside the buffer's monitor, and a monitor is   *)
(* held across steps only while the buffer is not locked.                  *)
MonitorExcludes ==
    /\ \A w \in Writer : writer[w].pc = "copy" => monitor[writer[w].buffer] = w
    /\ \A b \in Buffer : monitor[b] # NoThread => ~buffer[b].locked

(* A FlushBuffers frame is free when its owner starts a flush.             *)
FlusherFree ==
    /\ loopPc # "flushing" => flusher[FlushLoop].pc = "idle"
    /\ \A c \in Caller : call[c].pc # "flushing" => flusher[c].pc = "idle"
    /\ close.pc \notin {"forcing", "clean", "late"} =>
           flusher[CloseFlush].pc = "idle"

Exclusive == MonitorExcludes /\ FlusherFree /\ LockHasOneOwner /\ PayloadStable

(* The serialization thread serializes only while it drains the queue,     *)
(* and then it does not wait next.                                         *)
SerializerDrains ==
    writer[Serializer].pc # "idle" =>
        /\ writer[Serializer].pc \in WritingPc
        /\ serializer = "drain" /\ hasDequeuedTraces

(* NoLostWakeup, from the moment the thread is bound to wait.              *)
AboutToWait ==
    serializer = "wait" \/ (serializer = "exitCheck" /\ ~hasDequeuedTraces)

Waker ==
    \/ \E p \in Producer : writer[p].pc \in {"signal", "set"}
    \/ \E c \in Caller : call[c].pc = "wake"
    \/ close.pc = "wake"

Awake ==
    /\ SerializerDrains
    /\ (AboutToWait /\ ~serializationMutex /\ pendingTraces # <<>>) => Waker
    /\ (serializer = "wait" /\ ~serializationMutex /\ processExit) =>
           close.pc = "wake"
(* Before the serialization thread has ended no application thread is in   *)
(* SerializeTrace, and a thread that is not in WriteTrace or               *)
(* SerializeTrace has no trace in hand.                                    *)
HandsEmpty ==
    \A w \in Writer :
        writer[w].pc \notin WritingPc \cup {"enqueue"} => writer[w].trace = NoTrace
TurnsTaken ==
    ~SerializationCompleted =>
        \A p \in Producer : writer[p].pc \notin WritingPc
MonitorHeld ==
    \A b \in Buffer : monitor[b] # NoThread =>
        writer[monitor[b]].pc = "copy" /\ writer[monitor[b]].buffer = b

(* EveryTraceInOnePlace, as existence and uniqueness.                      *)
Conserved ==
    \A t \in Trace : Places(t) # {} /\ \A x, y \in Places(t) : x = y

Settled(ends) == {t \in Trace : outcome[t] \in ends}
Accounted ==
    /\ IsFiniteSet(Settled({"sent"})) /\ keeps = Cardinality(Settled({"sent"}))
    /\ IsFiniteSet(Settled({"dropped", "rejected"}))
    /\ drops = Cardinality(Settled({"dropped", "rejected"}))

Base    == Typed /\ Exclusive /\ Awake
Orderly == HandsEmpty /\ TurnsTaken /\ MonitorHeld
OneAtATime == SingleWriter => CopiesOwnTrace /\ Conserved /\ Accounted

(* The buffer a writer works with is the active one, except between the    *)
(* two halves of SwapBuffers; and it only swaps away from a buffer that    *)
(* the flush loop will not leave behind.                                   *)
SwapInOrder ==
    \A w \in Writer :
        /\ writer[w].pc \in WritingPc \ {"publish", "drop"} =>
               writer[w].buffer = activeBuffer
        /\ writer[w].pc = "publish" => writer[w].buffer = Other(activeBuffer)
        /\ writer[w].pc \in {"swap", "publish"} =>
               \/ buffer[activeBuffer].full \/ buffer[activeBuffer].locked
               \/ TraceCount(buffer[activeBuffer]) = 0
NotStranded ==
    \A b \in Buffer : (b # activeBuffer /\ TraceCount(buffer[b]) > 0) =>
        buffer[b].full \/ buffer[b].locked

(* A flush sends something, and when it comes to clear its buffer all that *)
(* the buffer holds has its outcome.                                       *)
SendsSomething ==
    \A f \in Flusher : flusher[f].pc = "sending" => flusher[f].payload # <<>>
ClearsSettled ==
    \A f \in Flusher : flusher[f].pc = "clear" =>
        \A t \in Elements(buffer[Current(f)].traces) : outcome[t] # "pending"
Landed == SendsSomething /\ ClearsSettled

(* t has left its application thread (and no other will bring it).         *)
Handed(t) == t \notin fresh /\ \A p \in Producer : writer[p].trace # t
Queued(x) == \E i \in 1..Len(pendingTraces) : pendingTraces[i] = x
InBuffer(t) == \E b \in Buffer : Holds(b, t)
Delivered(t) == outcome[t] # "pending" \/ InBuffer(t)

(* The buffers that flush f has not come to yet.                           *)
Remaining(f) ==
    CASE flusher[f].pc = "idle" -> {}
      [] flusher[f].pc \in {"read", "choose"} -> Buffer
      [] flusher[f].pc \in {"previous", "lock"} -> Elements(flusher[f].todo)
      [] OTHER -> Elements(Tail(flusher[f].todo))

(* Flush f has left no trace of S in a buffer that nobody is sending.      *)
Passed(f, S) ==
    \A t \in S, b \in Buffer : Holds(b, t) => b \in Remaining(f) \/ UnderWay(t)

OnlyLoopChooses == \A f \in Flusher : flusher[f].pc = "choose" => f = FlushLoop

(* FlushLeavesNothingBehind, from the call on: the watermark is behind the *)
(* caller's traces, so they are buffered or settled when it is read, and   *)
(* the flush that follows passes over both buffers.                        *)
CallInOrder(c) ==
    /\ \A t \in call[c].before : Handed(t)
    /\ call[c].pc \in {"idle", "watermark"} => ~Queued(c) /\ ~call[c].done
    /\ call[c].pc # "flush" /\ (call[c].pc = "flushing" => call[c].done)
    /\ \A i, k \in 1..Len(pendingTraces) :
          pendingTraces[k] = c /\ pendingTraces[i] \in call[c].before => i < k
    /\ call[c].done => \A t \in call[c].before : Delivered(t)
    /\ call[c].pc = "flushing" => Passed(c, call[c].before)
FlushInOrder == ~SerializationCompleted => \A c \in Caller : CallInOrder(c)

(* The temporary buffer is empty when nobody is about to copy it.          *)
TemporaryUsed == temporaryBuffer # NoTrace => \E w \in Writer : writer[w].pc = "copy"

(* CloseLeavesNoBufferBehind, from the call on: the last drain leaves the  *)
(* earlier traces in buffers or in the queue, no later copy revives one,   *)
(* and the check or the forced flush goes over both buffers.               *)
CloseInOrder ==
    /\ processExit <=> close.pc # "idle"
    /\ SerializationCompleted => processExit
    /\ \A t \in close.before : Handed(t)
    /\ TemporaryUsed
    /\ SerializationCompleted =>
          /\ temporaryBuffer \notin close.before
          /\ \A t \in close.before : Delivered(t) \/ Queued(t)
    /\ close.pc \in {"awaitFlushLoop", "check", "forcing", "clean"} =>
          SerializationCompleted
    /\ close.pc = "clean" => flusher[CloseFlush].pc = "idle"
    /\ close.pc \in {"forcing", "clean"} => Passed(CloseFlush, close.before)

(* RequestNotLost.  Before the serialization thread has ended the loop     *)
(* works alone.  Until its request is made, the writer answers for the     *)
(* buffer it fills; if the loop goes after the other one, a request is out. *)
CloseFlushWaits == ~SerializationCompleted => flusher[CloseFlush].pc = "idle"
OffsetOK ==
    \A b \in Buffer : TraceCount(buffer[b]) = 0 => buffer[b].offset = HeaderSize

Requesting == writer[Serializer].pc \in {"request", "complete"}
RequestMade ==
    \A b \in Buffer : buffer[b].full =>
        \/ buffer[b].locked \/ forceFlush \/ LoopWillFlush(b) \/ Requesting
        \/ b = activeBuffer /\ writer[Serializer].pc \in {"swap", "publish"}
LoopTidy ==
    /\ flusher[FlushLoop].pc \in {"idle", "read"} => flusher[FlushLoop].todo = <<>>
    /\ flusher[FlushLoop].pc = "choose" => Len(flusher[FlushLoop].todo) = 1
LoopFollows ==
    flusher[FlushLoop].pc \notin {"idle", "read"} =>
        \/ flusher[FlushLoop].todo[Len(flusher[FlushLoop].todo)] = activeBuffer
        \/ forceFlush \/ Requesting
Vacant(b) == buffer[b].locked \/ TraceCount(buffer[b]) = 0
RetryFits ==
    /\ writer[Serializer].pc = "publish" => Vacant(Other(activeBuffer))
    /\ \/ writer[Serializer].pc \in {"request", "complete", "stale"}
       \/ writer[Serializer].pc \in {"try", "copy"} /\ writer[Serializer].retry
       => Vacant(activeBuffer)
Requested ==
    (TracesFit /\ OnlyLoopFlushes /\ ~SerializationCompleted) =>
        RequestMade /\ LoopFollows /\ RetryFits
=============================================================================
