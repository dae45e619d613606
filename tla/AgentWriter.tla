----------------------------- MODULE AgentWriter ----------------------------
(***************************************************************************)
(* The tracer's delivery pipeline, Agent/AgentWriter.cs.                   *)
(*                                                                         *)
(* Application threads (Producer) hand finished traces over through a      *)
(* concurrent queue; the serialization thread drains it into the active    *)
(* one of two buffers; flushers send a buffer to the agent and empty it.   *)
(* The flushers are the flush loop, every pending FlushTracesAsync call    *)
(* (Caller) and the forced flush of FlushAndCloseAsync.  Once the          *)
(* serialization thread has ended, the application threads serialize       *)
(* their traces themselves.                                                *)
(*                                                                         *)
(* A thread is a record whose pc names the next statement that touches     *)
(* shared state; each action is one such statement.                        *)
(***************************************************************************)
EXTENDS SpanBuffer, FiniteSets

CONSTANTS
    Producer,     \* application threads that call WriteTrace
    Caller,       \* calls of FlushTracesAsync (each is made at most once)
    Serializer,   \* the serialization thread
    FlushLoop,    \* FlushBuffersTaskLoopAsync
    CloseFlush,   \* the FlushBuffers task that FlushAndCloseAsync may start
    NoThread,
    NoTrace,
    Unserializable, \* traces whose serialization throws
    MayClose,     \* whether FlushAndCloseAsync is called
    ApiResult     \* what SendTracesAsync may return

Writer  == Producer \cup {Serializer}
Flusher == Caller \cup {FlushLoop, CloseFlush}

ASSUME ThreadAssumption ==
    /\ Serializer \notin Producer
    /\ FlushLoop # CloseFlush
    /\ FlushLoop \notin Caller /\ CloseFlush \notin Caller
    /\ NoThread \notin Writer \cup Flusher
    /\ NoTrace \notin Trace
    /\ Trace \cap Caller = {}
    /\ Unserializable \subseteq Trace
    /\ MayClose \in BOOLEAN
    /\ ApiResult \subseteq BOOLEAN /\ ApiResult # {}

Buffer == {"front", "back"}
Other(b) == IF b = "front" THEN "back" ELSE "front"

VARIABLES
    fresh,               \* traces no application thread has written yet
    pendingTraces,       \* the queue: traces and watermarks (a Caller)
    serializationMutex,  \* the ManualResetEventSlim
    processExit,         \* the TaskCompletionSource set on close
    serializer,          \* pc of SerializeTracesLoop
    hasDequeuedTraces,
    writer,              \* per thread: its WriteTrace / SerializeTrace frame
    buffer,              \* the two SpanBuffers
    monitor,             \* who is inside TryWrite of each buffer
    temporaryBuffer,     \* the trace whose bytes it holds
    activeBuffer,
    forceFlush,          \* the _forceFlush source is completed
    flushTask,           \* per buffer: whose flush the stored task stands for
    flusher,             \* per flusher: its FlushBuffers frame
    loopPc,              \* pc of FlushBuffersTaskLoopAsync
    call,                \* per Caller: its FlushTracesAsync frame
    close,               \* frame of FlushAndCloseAsync
    keeps, drops,        \* what the keep-rate calculator was told
    outcome              \* history: what became of each trace

queueVars  == <<pendingTraces, serializationMutex>>
loopVars   == <<serializer, hasDequeuedTraces>>
bufferVars == <<buffer, monitor, temporaryBuffer>>
swapVars   == <<activeBuffer, forceFlush>>
resultVars == <<keeps, drops, outcome>>
vars == <<fresh, queueVars, processExit, loopVars, writer, bufferVars, swapVars,
          flushTask, flusher, loopPc, call, close, resultVars>>

WriterPc  == {"idle", "enqueue", "signal", "set",
              "try", "copy", "swap", "publish", "request", "complete", "stale",
              "drop"}
FlusherPc == {"idle", "read", "choose", "previous", "lock",
              "sending", "clear", "flushed"}
Outcome   == {"pending", "sent", "rejected", "dropped", "thrown"}

IdleWriter  == [pc |-> "idle", trace |-> NoTrace, buffer |-> "front",
                retry |-> FALSE]
IdleFlusher == [pc |-> "idle", todo |-> <<>>, previous |-> NoThread,
                stored |-> FALSE, payload |-> <<>>]

-----------------------------------------------------------------------------
Init ==
    /\ fresh = Trace
    /\ pendingTraces = <<>>
    /\ serializationMutex = FALSE
    /\ processExit = FALSE
    /\ serializer = "drain"
    /\ hasDequeuedTraces = FALSE
    /\ writer = [w \in Writer |-> IdleWriter]
    /\ buffer = [b \in Buffer |-> EmptyBuffer]
    /\ monitor = [b \in Buffer |-> NoThread]
    /\ temporaryBuffer = NoTrace
    /\ activeBuffer = "front"
    /\ forceFlush = FALSE
    /\ flushTask = [b \in Buffer |-> NoThread]
    /\ flusher = [f \in Flusher |-> IdleFlusher]
    /\ loopPc = "wait"
    /\ call = [c \in Caller |-> [pc |-> "idle", done |-> FALSE, before |-> {}]]
    /\ close = [pc |-> "idle", before |-> {}]
    /\ keeps = 0
    /\ drops = 0
    /\ outcome = [t \in Trace |-> "pending"]

SerializationCompleted == serializer = "exited"

(* Traces whose WriteTrace call has returned: what a flush or a close      *)
(* called now is asked to deliver.                                         *)
Written == (Trace \ fresh) \ {writer[p].trace : p \in Producer}

Goto(w, pc) == writer' = [writer EXCEPT ![w].pc = pc]
Finish(w)   == writer' = [writer EXCEPT ![w] = IdleWriter]

(* SerializeTrace starts by reading _activeBuffer.                         *)
Attempt(t) == [pc |-> "try", trace |-> t, buffer |-> activeBuffer,
               retry |-> FALSE]

-----------------------------------------------------------------------------
(* WriteTrace, in an application thread.                                   *)

BeginWriteTrace(p) ==
    /\ writer[p].pc = "idle"
    /\ \E t \in fresh :
          /\ fresh' = fresh \ {t}
          /\ writer' = [writer EXCEPT ![p] =
                IF SerializationCompleted THEN Attempt(t)
                ELSE [IdleWriter EXCEPT !.pc = "enqueue", !.trace = t]]
    /\ UNCHANGED queueVars

EnqueueTrace(p) ==
    /\ writer[p].pc = "enqueue"
    /\ pendingTraces' = Append(pendingTraces, writer[p].trace)
    /\ writer' = [writer EXCEPT ![p] = [IdleWriter EXCEPT !.pc = "signal"]]
    /\ UNCHANGED <<fresh, serializationMutex>>

(* Variant: the test of IsSet is inverted.                                 *)
CheckMutexInverted(p) ==
    /\ writer[p].pc = "signal"
    /\ IF serializationMutex THEN Goto(p, "set") ELSE Finish(p)
    /\ UNCHANGED <<fresh, queueVars>>

(* if (!_serializationMutex.IsSet)                                         *)
CheckMutex(p) ==
    /\ writer[p].pc = "signal"
    /\ IF serializationMutex THEN Finish(p) ELSE Goto(p, "set")
    /\ UNCHANGED <<fresh, queueVars>>

SetMutex(p) ==
    /\ writer[p].pc = "set"
    /\ serializationMutex' = TRUE
    /\ Finish(p)
    /\ UNCHANGED <<fresh, pendingTraces>>

WriteTrace(p) ==
    /\ \/ BeginWriteTrace(p) \/ EnqueueTrace(p) \/ CheckMutex(p) \/ SetMutex(p)
    /\ UNCHANGED <<processExit, loopVars, bufferVars, swapVars, flushTask,
                   flusher, loopPc, call, close, resultVars>>

-----------------------------------------------------------------------------
(* SerializeTrace, in the serialization thread or an application thread.   *)

Refused(w) == Goto(w, IF writer[w].retry THEN "drop" ELSE "swap")

(* Variant: TryWrite does not look at _locked.                             *)
CanEnterLocked(b) == monitor[b] = NoThread

(* TryWrite begins: a buffer that a thread is inside, or that is locked,   *)
(* refuses at once.                                                        *)
CanEnter(b) == monitor[b] = NoThread /\ ~buffer[b].locked

TryEnterFails(w) ==
    /\ writer[w].pc = "try"
    /\ ~CanEnter(writer[w].buffer)
    /\ Refused(w)
    /\ UNCHANGED <<serializer, bufferVars, swapVars, drops, outcome>>

SerializeToTemporary(w) ==
    /\ writer[w].pc = "try"
    /\ CanEnter(writer[w].buffer)
    /\ writer[w].trace \notin Unserializable
    /\ monitor' = [monitor EXCEPT ![writer[w].buffer] = w]
    /\ temporaryBuffer' = writer[w].trace
    /\ Goto(w, "copy")
    /\ UNCHANGED <<serializer, buffer, swapVars, drops, outcome>>

(* The formatter throws: the monitor is left, the trace is lost, and the   *)
(* serialization thread leaves its drain loop through the catch block.     *)
SerializeThrows(w) ==
    /\ writer[w].pc = "try"
    /\ CanEnter(writer[w].buffer)
    /\ writer[w].trace \in Unserializable
    /\ outcome' = [outcome EXCEPT ![writer[w].trace] = "thrown"]
    /\ Finish(w)
    /\ serializer' = IF w = Serializer THEN "exitCheck" ELSE serializer
    /\ UNCHANGED <<bufferVars, swapVars, drops>>

(* The rest of TryWrite: EnsureCapacity, the copy and the counts.  The     *)
(* temporary bytes matter only while some thread is about to copy them.    *)
CopyToBuffer(w) ==
    LET b    == writer[w].buffer
        size == Size[writer[w].trace]
    IN  /\ writer[w].pc = "copy"
        /\ monitor' = [monitor EXCEPT ![b] = NoThread]
        /\ IF HasRoom(buffer[b], size)
              THEN /\ buffer' = [buffer EXCEPT ![b] =
                                   WithContent(@, temporaryBuffer, size)]
                   /\ Finish(w)
              ELSE /\ buffer' = [buffer EXCEPT ![b] = MarkFull(@)]
                   /\ Refused(w)
        /\ temporaryBuffer' = IF \E v \in Writer \ {w} : writer[v].pc = "copy"
                                 THEN temporaryBuffer ELSE NoTrace
        /\ UNCHANGED <<serializer, swapVars, drops, outcome>>

(* SwapBuffers: look at the other buffer ...                               *)
SwapBuffers(w) ==
    LET target == Other(activeBuffer)
    IN  /\ writer[w].pc = "swap"
        /\ IF buffer[target].full
              THEN Goto(w, "drop")
              ELSE writer' = [writer EXCEPT ![w].pc = "publish",
                                            ![w].buffer = target]
        /\ UNCHANGED <<serializer, bufferVars, swapVars, drops, outcome>>

(* ... and make it the active one.                                         *)
PublishSwap(w) ==
    /\ writer[w].pc = "publish"
    /\ activeBuffer' = writer[w].buffer
    /\ Goto(w, "request")
    /\ UNCHANGED <<serializer, bufferVars, forceFlush, drops, outcome>>

(* "return _activeBuffer" reads the field again; then RequestFlush reads   *)
(* _forceFlush ...                                                         *)
RequestFlush(w) ==
    /\ writer[w].pc = "request"
    /\ writer' = [writer EXCEPT ![w].pc = "complete", ![w].buffer = activeBuffer]
    /\ UNCHANGED <<serializer, bufferVars, swapVars, drops, outcome>>

(* ... and completes what it read, to no effect when the flush loop has    *)
(* replaced it meanwhile ("stale").                                        *)
CompleteRequest(w) ==
    /\ writer[w].pc \in {"complete", "stale"}
    /\ forceFlush' = (forceFlush \/ writer[w].pc = "complete")
    /\ writer' = [writer EXCEPT ![w].pc = "try", ![w].retry = TRUE]
    /\ UNCHANGED <<serializer, bufferVars, activeBuffer, drops, outcome>>

(* Variant: IncrementDrops is not called.                                  *)
DropUncounted(w) ==
    /\ writer[w].pc = "drop"
    /\ outcome' = [outcome EXCEPT ![writer[w].trace] = "dropped"]
    /\ Finish(w)
    /\ UNCHANGED <<serializer, bufferVars, swapVars, drops>>

DropTrace(w) ==
    /\ writer[w].pc = "drop"
    /\ drops' = drops + 1
    /\ outcome' = [outcome EXCEPT ![writer[w].trace] = "dropped"]
    /\ Finish(w)
    /\ UNCHANGED <<serializer, bufferVars, swapVars>>

SerializeTrace(w) ==
    /\ \/ TryEnterFails(w) \/ SerializeToTemporary(w) \/ SerializeThrows(w)
       \/ CopyToBuffer(w) \/ SwapBuffers(w) \/ PublishSwap(w)
       \/ RequestFlush(w) \/ CompleteRequest(w) \/ DropTrace(w)
    /\ UNCHANGED <<fresh, queueVars, processExit, hasDequeuedTraces, flushTask,
                   flusher, loopPc, call, close, keeps>>

-----------------------------------------------------------------------------
(* SerializeTracesLoop, in the serialization thread.                       *)

Draining == serializer = "drain" /\ writer[Serializer].pc = "idle"

DequeueTrace ==
    /\ Draining
    /\ pendingTraces # <<>> /\ Head(pendingTraces) \in Trace
    /\ pendingTraces' = Tail(pendingTraces)
    /\ hasDequeuedTraces' = TRUE
    /\ writer' = [writer EXCEPT ![Serializer] = Attempt(Head(pendingTraces))]
    /\ UNCHANGED <<serializer, serializationMutex, call>>

(* A watermark: its callback completes the caller's task source.           *)
DequeueWatermark ==
    /\ Draining
    /\ pendingTraces # <<>> /\ Head(pendingTraces) \in Caller
    /\ pendingTraces' = Tail(pendingTraces)
    /\ call' = [call EXCEPT ![Head(pendingTraces)].done = TRUE]
    /\ UNCHANGED <<loopVars, serializationMutex, writer>>

QueueDrained ==
    /\ Draining
    /\ pendingTraces = <<>>
    /\ serializer' = "exitCheck"
    /\ UNCHANGED <<hasDequeuedTraces, queueVars, writer, call>>

(* Variant: the mutex is reset before the wait, not after it.              *)
ResetThenWait ==
    /\ serializer = "exitCheck"
    /\ serializer' = IF processExit THEN "exited"
                     ELSE IF hasDequeuedTraces THEN "sleep" ELSE "wait"
    /\ hasDequeuedTraces' = FALSE
    /\ serializationMutex' = FALSE
    /\ UNCHANGED <<pendingTraces, writer, call>>

(* hasDequeuedTraces is local to an iteration and not read after this.     *)
ExitCheck ==
    /\ serializer = "exitCheck"
    /\ serializer' = IF processExit THEN "exited"
                     ELSE IF hasDequeuedTraces THEN "sleep" ELSE "wait"
    /\ hasDequeuedTraces' = FALSE
    /\ UNCHANGED <<queueVars, writer, call>>

(* Thread.Sleep(_batchInterval), then the next iteration.                  *)
SleepBatch ==
    /\ serializer = "sleep"
    /\ serializer' = "drain"
    /\ UNCHANGED <<hasDequeuedTraces, queueVars, writer, call>>

WaitMutex ==
    /\ serializer = "wait"
    /\ serializationMutex
    /\ serializer' = "reset"
    /\ UNCHANGED <<hasDequeuedTraces, queueVars, writer, call>>

ResetMutex ==
    /\ serializer = "reset"
    /\ serializationMutex' = FALSE
    /\ serializer' = "drain"
    /\ UNCHANGED <<hasDequeuedTraces, pendingTraces, writer, call>>

SerializeTracesLoop ==
    /\ \/ DequeueTrace \/ DequeueWatermark \/ QueueDrained
       \/ ExitCheck \/ SleepBatch \/ WaitMutex \/ ResetMutex
    /\ UNCHANGED <<fresh, processExit, bufferVars, swapVars, flushTask,
                   flusher, loopPc, close, resultVars>>

-----------------------------------------------------------------------------
(* FlushBuffers, in any flusher.                                           *)

StartFlush(f) == flusher' = [flusher EXCEPT ![f].pc = "read"]

Current(f) == Head(flusher[f].todo)

(* Only the flush loop leaves flushAllBuffers at false; the others flush   *)
(* both buffers, the fallback first.                                       *)
ReadActiveBuffer(f) ==
    /\ flusher[f].pc = "read"
    /\ flusher' = [flusher EXCEPT ![f] = [@ EXCEPT
          !.pc   = IF f = FlushLoop THEN "choose" ELSE "previous",
          !.todo = IF f = FlushLoop THEN <<activeBuffer>>
                   ELSE <<Other(activeBuffer), activeBuffer>>]]
    /\ UNCHANGED <<buffer, flushTask, resultVars>>

ChooseBuffers(f) ==
    LET fallback == Other(Current(f))
    IN  /\ flusher[f].pc = "choose"
        /\ flusher' = [flusher EXCEPT ![f] = [@ EXCEPT !.pc = "previous",
              !.todo = IF buffer[fallback].full THEN <<fallback, Current(f)>>
                       ELSE flusher[f].todo]]
        /\ UNCHANGED <<buffer, flushTask, resultVars>>

(* FlushBuffer reads the stored flush task and awaits it; NoThread stands  *)
(* for a completed task.                                                   *)
ReadFlushTask(f) ==
    /\ flusher[f].pc = "previous"
    /\ flusher' = [flusher EXCEPT ![f] = [@ EXCEPT !.pc = "lock",
                      !.previous = flushTask[Current(f)]]]
    /\ UNCHANGED <<buffer, flushTask, resultVars>>

(* Variants: Lock ignores _locked; Lock does not take the monitor.         *)
RelockBuffer(f) ==
    LET b == Current(f)
    IN  /\ flusher[f].pc = "lock" /\ flusher[f].previous = NoThread
        /\ monitor[b] = NoThread
        /\ buffer' = [buffer EXCEPT ![b] = Locked(@)]
        /\ flusher' = [flusher EXCEPT ![f] = [@ EXCEPT
              !.pc = IF TraceCount(buffer[b]) > 0 THEN "sending" ELSE "clear",
              !.payload = buffer[b].traces]]
        /\ UNCHANGED <<flushTask, resultVars>>

LockWithoutMonitor(f) ==
    LET b == Current(f)
    IN  /\ flusher[f].pc = "lock" /\ flusher[f].previous = NoThread
        /\ ~buffer[b].locked
        /\ buffer' = [buffer EXCEPT ![b] = Locked(@)]
        /\ flusher' = [flusher EXCEPT ![f] = [@ EXCEPT
              !.pc = IF TraceCount(buffer[b]) > 0 THEN "sending" ELSE "clear",
              !.payload = buffer[b].traces]]
        /\ UNCHANGED <<flushTask, resultVars>>

(* InternalBufferFlush.  Lock waits for the monitor.                       *)
LockBuffer(f) ==
    LET b == Current(f)
    IN  /\ flusher[f].pc = "lock" /\ flusher[f].previous = NoThread
        /\ monitor[b] = NoThread /\ ~buffer[b].locked
        /\ buffer' = [buffer EXCEPT ![b] = Locked(@)]
        /\ flusher' = [flusher EXCEPT ![f] = [@ EXCEPT
              !.pc = IF TraceCount(buffer[b]) > 0 THEN "sending" ELSE "clear",
              !.payload = buffer[b].traces]]
        /\ UNCHANGED <<flushTask, resultVars>>

(* Variant: the early return is inside the try block, so that the finally  *)
(* block clears the buffer of another flush.                               *)
LockFailsThenClears(f) ==
    LET b == Current(f)
    IN  /\ flusher[f].pc = "lock" /\ flusher[f].previous = NoThread
        /\ monitor[b] = NoThread /\ buffer[b].locked
        /\ flusher' = [flusher EXCEPT ![f].pc = "clear"]
        /\ UNCHANGED <<buffer, flushTask, resultVars>>

LockFails(f) ==
    LET b == Current(f)
    IN  /\ flusher[f].pc = "lock" /\ flusher[f].previous = NoThread
        /\ monitor[b] = NoThread /\ buffer[b].locked
        /\ flusher' = [flusher EXCEPT ![f].pc = "flushed"]
        /\ UNCHANGED <<buffer, flushTask, resultVars>>

(* InternalBufferFlush returns its task when it first awaits, in the send, *)
(* or else when it is over; the task is stored some time after that.       *)
StoreFlushTask(f) ==
    /\ flusher[f].pc \in {"sending", "clear", "flushed"} /\ ~flusher[f].stored
    /\ flusher[f].pc = "flushed" \/ flusher[f].payload # <<>>
    /\ flusher' = [flusher EXCEPT ![f].stored = TRUE]
    /\ flushTask' = [flushTask EXCEPT ![Current(f)] =
                        IF flusher[f].pc = "flushed" THEN NoThread ELSE f]
    /\ UNCHANGED <<buffer, resultVars>>

Resolve(traces, result) ==
    outcome' = [t \in Trace |-> IF \E i \in 1..Len(traces) : traces[i] = t
                                   THEN result ELSE outcome[t]]

(* SendTracesAsync succeeded: the agent has the payload.                   *)
SendSucceeds(f) ==
    /\ flusher[f].pc = "sending" /\ TRUE \in ApiResult
    /\ keeps' = keeps + TraceCount(buffer[Current(f)])
    /\ Resolve(flusher[f].payload, "sent")
    /\ flusher' = [flusher EXCEPT ![f].pc = "clear"]
    /\ UNCHANGED <<buffer, flushTask, drops>>

(* It returned false, or threw: both count the traces as dropped.          *)
SendFails(f) ==
    /\ flusher[f].pc = "sending" /\ FALSE \in ApiResult
    /\ drops' = drops + TraceCount(buffer[Current(f)])
    /\ Resolve(flusher[f].payload, "rejected")
    /\ flusher' = [flusher EXCEPT ![f].pc = "clear"]
    /\ UNCHANGED <<buffer, flushTask, keeps>>

(* The finally block.  The end of the flush completes its task: whoever    *)
(* awaits it may go on, and a stored reference to it is a completed task.  *)
ClearBuffer(f) ==
    LET b == Current(f)
        unless(g) == IF g = f THEN NoThread ELSE g
    IN  /\ flusher[f].pc = "clear"
        /\ monitor[b] = NoThread
        /\ buffer' = [buffer EXCEPT ![b] = Cleared(@)]
        /\ flusher' = [g \in Flusher |->
              IF g = f THEN [flusher[f] EXCEPT !.pc = "flushed", !.payload = <<>>]
              ELSE [flusher[g] EXCEPT !.previous = unless(@)]]
        /\ flushTask' = [c \in Buffer |-> unless(flushTask[c])]
        /\ UNCHANGED <<resultVars>>

(* Both awaits of FlushBuffer are over: read the other buffer's task, or   *)
(* return.                                                                 *)
NextBuffer(f) ==
    LET rest == Tail(flusher[f].todo)
    IN  /\ flusher[f].pc = "flushed" /\ flusher[f].stored
        /\ flusher' = [flusher EXCEPT ![f] =
              IF rest = <<>> THEN IdleFlusher
              ELSE [pc |-> "lock", todo |-> rest, stored |-> FALSE,
                    previous |-> flushTask[Head(rest)], payload |-> <<>>]]
        /\ UNCHANGED <<buffer, flushTask, resultVars>>

FlushBuffers(f) ==
    /\ \/ ReadActiveBuffer(f) \/ ChooseBuffers(f) \/ ReadFlushTask(f)
       \/ LockBuffer(f) \/ LockFails(f) \/ StoreFlushTask(f)
       \/ SendSucceeds(f) \/ SendFails(f) \/ ClearBuffer(f) \/ NextBuffer(f)
    /\ UNCHANGED <<fresh, queueVars, processExit, loopVars, writer, monitor,
                   temporaryBuffer, swapVars, loopPc, call, close>>

-----------------------------------------------------------------------------
(* FlushBuffersTaskLoopAsync.  The one-second delay may elapse at any time. *)

LoopWakes ==
    /\ loopPc = "wait"
    /\ IF forceFlush THEN loopPc' = "replace" /\ UNCHANGED flusher
       ELSE loopPc' = "flushing" /\ StartFlush(FlushLoop)
    /\ UNCHANGED <<writer, forceFlush>>

(* Whoever has read the old _forceFlush is left with it.                   *)
Outdated(frame) ==
    IF frame.pc = "complete" THEN [frame EXCEPT !.pc = "stale"] ELSE frame

(* A completed _forceFlush is replaced by a new one.                       *)
LoopReplacesForceFlush ==
    /\ loopPc = "replace"
    /\ loopPc' = "flushing"
    /\ forceFlush' = FALSE
    /\ writer' = [w \in Writer |-> Outdated(writer[w])]
    /\ StartFlush(FlushLoop)

(* Variant: _forceFlush is replaced after the flush as well.               *)
LoopRepeatsAndReplaces ==
    /\ loopPc = "flushing" /\ flusher[FlushLoop].pc = "idle"
    /\ loopPc' = IF SerializationCompleted THEN "done" ELSE "wait"
    /\ forceFlush' = FALSE
    /\ writer' = [w \in Writer |-> Outdated(writer[w])]
    /\ UNCHANGED flusher

LoopRepeats ==
    /\ loopPc = "flushing" /\ flusher[FlushLoop].pc = "idle"
    /\ loopPc' = IF SerializationCompleted THEN "done" ELSE "wait"
    /\ UNCHANGED <<writer, forceFlush, flusher>>

FlushBuffersTaskLoop ==
    /\ LoopWakes \/ LoopReplacesForceFlush \/ LoopRepeats
    /\ UNCHANGED <<fresh, queueVars, processExit, loopVars, bufferVars,
                   activeBuffer, flushTask, call, close, resultVars>>

-----------------------------------------------------------------------------
(* FlushTracesAsync.                                                       *)

BeginFlushTraces(c) ==
    /\ call[c].pc = "idle"
    /\ call' = [call EXCEPT ![c].before = Written,
          ![c].pc = IF SerializationCompleted THEN "flush" ELSE "watermark"]
    /\ UNCHANGED <<queueVars, flusher>>

EnqueueWatermark(c) ==
    /\ call[c].pc = "watermark"
    /\ pendingTraces' = Append(pendingTraces, c)
    /\ call' = [call EXCEPT ![c].pc = "wake"]
    /\ UNCHANGED <<serializationMutex, flusher>>

(* Variant: WriteWatermark with wakeUpThread: false.                       *)
WatermarkWithoutWakeUp(c) ==
    /\ call[c].pc = "wake"
    /\ call' = [call EXCEPT ![c].pc = "await"]
    /\ UNCHANGED <<queueVars, flusher>>

WakeSerializer(c) ==
    /\ call[c].pc = "wake"
    /\ serializationMutex' = TRUE
    /\ call' = [call EXCEPT ![c].pc = "await"]
    /\ UNCHANGED <<pendingTraces, flusher>>

(* Variant: the watermark is not awaited.                                  *)
FlushWithoutAwait(c) ==
    /\ call[c].pc \in {"flush", "await"}
    /\ call' = [call EXCEPT ![c].pc = "flushing"]
    /\ StartFlush(c)
    /\ UNCHANGED queueVars

(* The call returns when its FlushBuffers does.                            *)
FlushAllBuffers(c) ==
    /\ \/ call[c].pc = "flush"
       \/ call[c].pc = "await" /\ call[c].done
    /\ call' = [call EXCEPT ![c].pc = "flushing"]
    /\ StartFlush(c)
    /\ UNCHANGED queueVars

Returned(c) == call[c].pc = "flushing" /\ flusher[c].pc = "idle"

FlushTraces(c) ==
    /\ \/ BeginFlushTraces(c) \/ EnqueueWatermark(c) \/ WakeSerializer(c)
       \/ FlushAllBuffers(c)
    /\ UNCHANGED <<fresh, processExit, loopVars, writer, bufferVars, swapVars,
                   flushTask, loopPc, close, resultVars>>

-----------------------------------------------------------------------------
(* FlushAndCloseAsync.  A second call fails TrySetResult and returns       *)
(* without changing anything.  The 20-second delays may elapse whenever    *)
(* they are awaited.                                                       *)

CloseGoto(pc) == close' = [close EXCEPT !.pc = pc]

BeginClose ==
    /\ MayClose
    /\ close.pc = "idle"
    /\ processExit' = TRUE
    /\ close' = [pc |-> "wake", before |-> Written]
    /\ UNCHANGED <<serializationMutex, flusher>>

(* Variant: FlushAndCloseAsync does not set the mutex.                     *)
CloseWithoutWakeUp ==
    /\ close.pc = "wake"
    /\ CloseGoto("awaitSerialization")
    /\ UNCHANGED <<processExit, serializationMutex, flusher>>

CloseWakesSerializer ==
    /\ close.pc = "wake"
    /\ serializationMutex' = TRUE
    /\ CloseGoto("awaitSerialization")
    /\ UNCHANGED <<processExit, flusher>>

CloseAwaitsSerialization ==
    /\ close.pc = "awaitSerialization"
    /\ \/ SerializationCompleted /\ CloseGoto("awaitFlushLoop")
       \/ CloseGoto("late")
    /\ UNCHANGED <<processExit, serializationMutex, flusher>>

(* Task.WhenAny(_flushTask, Task.Delay(20 s)): either way, go on.          *)
CloseAwaitsFlushLoop ==
    /\ close.pc = "awaitFlushLoop"
    /\ CloseGoto("check")
    /\ UNCHANGED <<processExit, serializationMutex, flusher>>

(* Variant: only the active buffer is checked for leftovers.               *)
CloseChecksActiveBuffer ==
    /\ close.pc = "check"
    /\ IF TraceCount(buffer[activeBuffer]) = 0
          THEN CloseGoto("clean") /\ UNCHANGED flusher
          ELSE CloseGoto("forcing") /\ StartFlush(CloseFlush)
    /\ UNCHANGED <<processExit, serializationMutex>>

CloseChecksBuffers ==
    /\ close.pc = "check"
    /\ IF \A b \in Buffer : TraceCount(buffer[b]) = 0
          THEN CloseGoto("clean") /\ UNCHANGED flusher
          ELSE CloseGoto("forcing") /\ StartFlush(CloseFlush)
    /\ UNCHANGED <<processExit, serializationMutex>>

CloseForced ==
    /\ close.pc = "forcing"
    /\ \/ flusher[CloseFlush].pc = "idle" /\ CloseGoto("clean")
       \/ CloseGoto("late")
    /\ UNCHANGED <<processExit, serializationMutex, flusher>>

FlushAndClose ==
    /\ \/ BeginClose \/ CloseWakesSerializer \/ CloseAwaitsSerialization
       \/ CloseAwaitsFlushLoop \/ CloseChecksBuffers \/ CloseForced
    /\ UNCHANGED <<fresh, pendingTraces, loopVars, writer, bufferVars,
                   swapVars, flushTask, loopPc, call, resultVars>>

-----------------------------------------------------------------------------
Next ==
    \/ \E p \in Producer : WriteTrace(p)
    \/ \E w \in Writer : SerializeTrace(w)
    \/ SerializeTracesLoop
    \/ \E f \in Flusher : FlushBuffers(f)
    \/ FlushBuffersTaskLoop
    \/ \E c \in Caller : FlushTraces(c)
    \/ FlushAndClose

Spec == Init /\ [][Next]_vars

(* Why the flush loop must end its wait: until the close it is the delay.  *)
(* After it the delay may still elapse, but nothing depends on that.       *)
LoopMustWake ==
    loopPc = "wait" => ~processExit \/ forceFlush \/ SerializationCompleted

(* A thread inside a call goes on; no thread has to start a call.  A send  *)
(* ends because its retries are bounded.                                   *)
Fairness ==
    /\ \A p \in Producer : WF_vars(writer[p].pc # "idle" /\ WriteTrace(p))
    /\ \A w \in Writer : WF_vars(SerializeTrace(w))
    /\ WF_vars(SerializeTracesLoop)
    /\ \A f \in Flusher : WF_vars(FlushBuffers(f))
    /\ WF_vars(LoopMustWake /\ FlushBuffersTaskLoop)
    /\ \A c \in Caller : WF_vars(call[c].pc # "idle" /\ FlushTraces(c))
    /\ WF_vars(close.pc # "idle" /\ FlushAndClose)

FairSpec == Spec /\ Fairness
=============================================================================
