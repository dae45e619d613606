----------------------- MODULE AgentWriterProperties ------------------------
(***************************************************************************)
(* What the agent writer must guarantee, and, at the end, what the code's  *)
(* comments claim of it and it does not do.                                *)
(***************************************************************************)
EXTENDS AgentWriter

WriterFrame  == [pc : WriterPc, trace : Trace \cup {NoTrace},
                 buffer : Buffer, retry : BOOLEAN]
FlusherFrame == [pc : FlusherPc, todo : Seq(Buffer),
                 previous : Flusher \cup {NoThread},
                 stored : BOOLEAN, payload : Seq(Trace)]
CallFrame    == [pc : {"idle", "watermark", "wake", "await", "flush", "flushing"},
                 done : BOOLEAN, before : SUBSET Trace]
CloseFrame   == [pc : {"idle", "wake", "awaitSerialization", "awaitFlushLoop",
                       "check", "forcing", "clean", "late"},
                 before : SUBSET Trace]

QueueTypeOK ==
    /\ fresh \subseteq Trace
    /\ pendingTraces \in Seq(Trace \cup Caller)
    /\ serializationMutex \in BOOLEAN
ThreadTypeOK ==
    /\ processExit \in BOOLEAN
    /\ serializer \in {"drain", "exitCheck", "sleep", "wait", "reset", "exited"}
    /\ hasDequeuedTraces \in BOOLEAN
WriterTypeOK == writer \in [Writer -> WriterFrame]
BufferTypeOK ==
    /\ buffer \in [Buffer -> SpanBufferType]
    /\ monitor \in [Buffer -> Writer \cup {NoThread}]
    /\ temporaryBuffer \in Trace \cup {NoTrace}
SwapTypeOK == activeBuffer \in Buffer /\ forceFlush \in BOOLEAN
FlusherTypeOK ==
    /\ flushTask \in [Buffer -> Flusher \cup {NoThread}]
    /\ flusher \in [Flusher -> FlusherFrame]
OuterTypeOK ==
    /\ loopPc \in {"wait", "replace", "flushing", "done"}
    /\ call \in [Caller -> CallFrame]
    /\ close \in CloseFrame
ResultTypeOK ==
    /\ keeps \in Nat /\ drops \in Nat
    /\ outcome \in [Trace -> Outcome]

(* Every variable stays in its set; in particular a buffer never holds     *)
(* more than _maxBufferSize bytes.                                         *)
TypeOK ==
    /\ QueueTypeOK /\ ThreadTypeOK /\ WriterTypeOK /\ BufferTypeOK
    /\ SwapTypeOK /\ FlusherTypeOK /\ OuterTypeOK /\ ResultTypeOK

(* At most one thread can be inside SerializeTrace: the serialization      *)
(* thread runs, or a single application thread took over.                  *)
SingleWriter == ~SerializationCompleted \/ \A p, q \in Producer : p = q

(* f is between Lock and Clear of b in InternalBufferFlush.                *)
Owns(f, b) == flusher[f].pc \in {"sending", "clear"} /\ Current(f) = b

Holds(b, t) == \E i \in 1..Len(buffer[b].traces) : buffer[b].traces[i] = t

(* Where trace t is.  A buffer whose send is over holds nothing.           *)
Places(t) ==
    {<<"unwritten", 1>> : x \in fresh \cap {t}}
    \cup {<<"queue", i>> : i \in {j \in 1..Len(pendingTraces) : pendingTraces[j] = t}}
    \cup {<<"hand", w>> : w \in {v \in Writer : writer[v].trace = t}}
    \cup (UNION {{<<b, i>> : i \in {j \in 1..Len(buffer[b].traces) : buffer[b].traces[j] = t}}
                 : b \in {c \in Buffer : \A f \in Flusher :
                             ~(Owns(f, c) /\ flusher[f].pc = "clear")}})
    \cup {<<"settled", 1>> : x \in {t} \ {u \in {t} : outcome[u] = "pending"}}

(* Conservation: no trace is lost between queue, threads and buffers, and  *)
(* none is sent or dropped twice.  Breaks if a write slips into a buffer   *)
(* being sent, if a flush clears what it has not sent, or if a retry after *)
(* a swap leaves a copy behind.                                            *)
EveryTraceInOnePlace ==
    SingleWriter => \A t \in Trace : \E x \in Places(t) : Places(t) = {x}

(* While a buffer is locked exactly one flush owns it, and only that flush *)
(* will clear it: a flush whose Lock returned false never clears.          *)
LockHasOneOwner ==
    \A b \in Buffer :
        /\ buffer[b].locked <=> \E f \in Flusher : Owns(f, b)
        /\ \A f, g \in Flusher : Owns(f, b) /\ Owns(g, b) => f = g

(* SendTracesAsync is handed the live array, not a copy: what it sends     *)
(* (and sends again on a retry) and what TraceCount says afterwards must   *)
(* be what Lock saw.                                                       *)
PayloadStable ==
    \A f \in Flusher : flusher[f].pc = "sending" =>
        flusher[f].payload = buffer[Current(f)].traces

(* The serialization thread never sleeps on the mutex beside a non-empty   *)
(* queue, or a requested exit, unless somebody is about to set it: the     *)
(* IsSet check of WriteTrace races Wait and Reset.                         *)
NoLostWakeup ==
    (serializer = "wait" /\ ~serializationMutex) =>
        /\ pendingTraces # <<>> =>
              \/ \E p \in Producer : writer[p].pc \in {"signal", "set"}
              \/ \E c \in Caller : call[c].pc = "wake"
              \/ close.pc = "wake"
        /\ processExit => close.pc = "wake"

(* The flush loop flushes the fallback buffer only if it is full: a        *)
(* fallback buffer with traces that is neither full nor being flushed      *)
(* would keep them until the next swap, maybe for ever.                    *)
FallbackNotStranded ==
    SingleWriter => \A b \in Buffer :
        (b # activeBuffer /\ TraceCount(buffer[b]) > 0) =>
            buffer[b].full \/ buffer[b].locked

(* A buffer is marked full only while some trace really does not fit: a    *)
(* stale mark makes SwapBuffers give up and traces are dropped for nothing. *)
FullMeansNoRoom ==
    \A b \in Buffer : buffer[b].full =>
        \E t \in Trace : ~HasRoom(buffer[b], Size[t])

(* The flush loop, as it stands, is still going to flush b.                *)
LoopWillFlush(b) ==
    \/ loopPc = "replace"
    \/ flusher[FlushLoop].pc \in {"read", "choose"}
    \/ \E i \in 1..Len(flusher[FlushLoop].todo) :
          /\ flusher[FlushLoop].todo[i] = b
          /\ i > 1 \/ flusher[FlushLoop].pc \in {"previous", "lock"}

(* Every trace fits in an empty buffer, and no FlushTracesAsync call has   *)
(* come to its flush.                                                      *)
TracesFit == \A t \in Trace : HeaderSize + Size[t] <= MaxSize
OnlyLoopFlushes == \A c \in Caller : call[c].pc # "flushing"

(* RequestFlush is never lost to the replacement of _forceFlush, so that a *)
(* full buffer need not wait for the one-second delay: it is being         *)
(* flushed, or the loop will flush it, or is asked to, or is about to be.  *)
(* (A FlushTracesAsync call may delay it: the loop that meets a buffer     *)
(* locked by the call is through with both, and if the other one fills     *)
(* before the call has emptied the first, nobody asks for its flush.)      *)
RequestNotLost ==
    (TracesFit /\ OnlyLoopFlushes /\ ~SerializationCompleted) =>
        \A b \in Buffer : buffer[b].full =>
            \/ buffer[b].locked
            \/ forceFlush
            \/ LoopWillFlush(b)
            \/ writer[Serializer].pc \in {"swap", "publish", "request", "complete"}

(* The keep-rate calculator is told of every trace exactly once.           *)
RatesAccountForTraces ==
    SingleWriter =>
        /\ keeps = Cardinality({t \in Trace : outcome[t] = "sent"})
        /\ drops = Cardinality({t \in Trace : outcome[t] \in {"dropped", "rejected"}})

(* t is neither waiting nor in an unlocked buffer: it is settled, or a     *)
(* flush has it under way.                                                 *)
UnderWay(t) ==
    outcome[t] # "pending" \/ \E b \in Buffer : buffer[b].locked /\ Holds(b, t)

(* When FlushTracesAsync returns (and no close has begun), every trace     *)
(* written before the call is at least under way: the watermark came after *)
(* it in the queue and both buffers were flushed, although either may have *)
(* been active.                                                            *)
FlushLeavesNothingBehind ==
    \A c \in Caller : (Returned(c) /\ ~SerializationCompleted) =>
        \A t \in call[c].before : UnderWay(t)

(* When FlushAndCloseAsync returns without a timeout of its last flush, no *)
(* earlier trace lies in a buffer that nobody is sending, whether or not   *)
(* the flush loop has ended.  A trace may still be queued: an exception in *)
(* the formatter ends the last drain.                                      *)
CloseLeavesNoBufferBehind ==
    close.pc = "clean" =>
        \A t \in close.before :
            \/ UnderWay(t)
            \/ \E i \in 1..Len(pendingTraces) : pendingTraces[i] = t

(* Liveness.  A trace handed to WriteTrace is eventually sent, rejected,   *)
(* dropped or lost to the formatter, unless the writer is closed first.    *)
EveryTraceSettles ==
    \A t \in Trace : t \notin fresh ~> (outcome[t] # "pending" \/ processExit)

(* FlushTracesAsync eventually completes.                                  *)
FlushTracesCompletes ==
    \A c \in Caller : call[c].pc # "idle" ~> Returned(c)

(* Once FlushAndCloseAsync is called, both tasks end and the call returns. *)
CloseStopsTasks ==
    processExit ~> (serializer = "exited" /\ loopPc = "done"
                    /\ close.pc \in {"clean", "late"})

-----------------------------------------------------------------------------
(* Refinement of TraceDelivery.                                            *)

Elements(seq) == {seq[i] : i \in 1..Len(seq)}

DeliveryBatches == {Elements(flusher[f].payload) :
                        f \in {g \in Flusher : flusher[g].pc = "sending"}}

DeliveryStatus ==
    [t \in Trace |->
        IF t \in fresh THEN "new"
        ELSE IF outcome[t] # "pending" THEN outcome[t]
        ELSE IF \E S \in DeliveryBatches : t \in S THEN "travelling"
        ELSE IF \E b \in Buffer : Holds(b, t) THEN "buffered"
        ELSE "accepted"]

Delivery == INSTANCE TraceDelivery
                WITH status <- DeliveryStatus, batches <- DeliveryBatches

(* Whatever the interleaving of writers, flushers and close, traces travel *)
(* in whole batches, at most once, and their outcome is final - as long as *)
(* application threads do not serialize side by side.                      *)
ImplementsDelivery == Delivery!Spec

-----------------------------------------------------------------------------
(* What comments and documentation of the code say, and it does not do.    *)

(* "Thread-safetiness in this class relies on the fact that only the       *)
(* serialization thread can change the active buffer" (AgentWriter.cs:49): *)
(* the trace copied into a buffer is the one that was serialized for it,   *)
(* although _temporaryBuffer is shared.                                    *)
CopiesOwnTrace ==
    \A w \in Writer : writer[w].pc = "copy" => temporaryBuffer = writer[w].trace
=============================================================================
