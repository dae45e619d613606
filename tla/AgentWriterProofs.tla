------------------------- MODULE AgentWriterProofs --------------------------
(***************************************************************************)
(* Types, exclusion between writers and flushers, the absence of lost      *)
(* wake-ups, the truth of the full marks, and that no trace is lost or     *)
(* doubled on its way from WriteTrace to the agent, for every number of    *)
(* threads, flush calls and traces and every buffer size.                  *)
(***************************************************************************)
EXTENDS AgentWriterInvariants, FiniteSetTheorems, TLAPS

-----------------------------------------------------------------------------
(* What moving a thread to another statement, or ending its call, does to  *)
(* the frames.                                                             *)
LEMMA GotoFrame ==
  ASSUME WriterTypeOK, NEW w \in Writer, NEW pc \in WriterPc, Goto(w, pc)
  PROVE  /\ WriterTypeOK'
         /\ writer'[w] = [writer[w] EXCEPT !.pc = pc]
         /\ writer'[w].pc = pc
         /\ writer'[w].trace = writer[w].trace
         /\ writer'[w].buffer = writer[w].buffer
         /\ \A v \in Writer \ {w} : writer'[v] = writer[v]
  BY DEF WriterTypeOK, WriterFrame, Goto

LEMMA FinishFrame ==
  ASSUME WriterTypeOK, NEW w \in Writer, Finish(w)
  PROVE  /\ WriterTypeOK'
         /\ writer'[w] = IdleWriter
         /\ writer'[w].pc = "idle"
         /\ \A v \in Writer \ {w} : writer'[v] = writer[v]
  BY DEF WriterTypeOK, WriterFrame, Finish, IdleWriter, WriterPc, Buffer

(* Replacing _forceFlush moves a thread at most from "complete" to "stale". *)
LEMMA OutdatedFrames ==
  ASSUME WriterTypeOK, writer' = [w \in Writer |-> Outdated(writer[w])]
  PROVE  /\ WriterTypeOK'
         /\ \A w \in Writer :
               /\ writer'[w].trace = writer[w].trace
               /\ writer'[w].buffer = writer[w].buffer
               /\ \/ writer'[w] = writer[w]
                  \/ writer[w].pc = "complete" /\ writer'[w].pc = "stale"
<1>1. ASSUME NEW w \in Writer
      PROVE  /\ Outdated(writer[w]) \in WriterFrame
             /\ Outdated(writer[w]).trace = writer[w].trace
             /\ Outdated(writer[w]).buffer = writer[w].buffer
             /\ \/ Outdated(writer[w]) = writer[w]
                \/ writer[w].pc = "complete" /\ Outdated(writer[w]).pc = "stale"
  BY DEF WriterTypeOK, WriterFrame, WriterPc, Outdated
<1> HIDE DEF Outdated
<1> QED
  BY <1>1 DEF WriterTypeOK

-----------------------------------------------------------------------------
LEMMA InitTyped == Init => Typed
<1> SUFFICES ASSUME Init PROVE Typed
  OBVIOUS
<1> USE ThreadAssumption DEF Init, Flusher, Buffer
<1>0. <<>> \in Seq(Trace \cup Caller)
  OBVIOUS
<1>1. QueueTypeOK /\ ThreadTypeOK /\ SwapTypeOK
  BY <1>0 DEF QueueTypeOK, ThreadTypeOK, SwapTypeOK
<1>2. WriterTypeOK
  BY DEF WriterTypeOK, WriterFrame, IdleWriter, WriterPc
<1>3. BufferTypeOK
  BY SizeAssumption DEF BufferTypeOK, SpanBufferType, EmptyBuffer
<1>4. FlusherTypeOK
  BY DEF FlusherTypeOK, FlusherFrame, IdleFlusher, FlusherPc
<1>5. OuterTypeOK
  BY DEF OuterTypeOK, CallFrame, CloseFrame
<1>6. ResultTypeOK
  BY DEF ResultTypeOK, Outcome
<1>7. WriterFramesOK /\ FlusherFramesOK
  BY DEF WriterFramesOK, FlusherFramesOK, WritingPc, IdleWriter, IdleFlusher
<1> QED
  BY <1>1, <1>2, <1>3, <1>4, <1>5, <1>6, <1>7 DEF Typed, TypeOK

-----------------------------------------------------------------------------
(* What each group of actions leaves alone keeps its type.                 *)

LEMMA WriteTraceTyped ==
  ASSUME Typed, NEW p \in Producer, WriteTrace(p)
  PROVE  Typed'
<1> p \in Writer
  BY DEF Writer
<1>1. /\ ThreadTypeOK' /\ BufferTypeOK' /\ SwapTypeOK' /\ FlusherTypeOK'
      /\ OuterTypeOK' /\ ResultTypeOK' /\ FlusherFramesOK'
  BY DEF WriteTrace, Typed, TypeOK, ThreadTypeOK, BufferTypeOK, SwapTypeOK,
         FlusherTypeOK, OuterTypeOK, ResultTypeOK, FlusherFramesOK, loopVars,
         bufferVars, swapVars, resultVars
<1>2. temporaryBuffer' = temporaryBuffer
  BY DEF WriteTrace, bufferVars
<1> USE DEF Typed, TypeOK, WriterTypeOK, WriterFramesOK, WritingPc
<1>3. CASE BeginWriteTrace(p)
  <2>1. PICK t \in fresh : writer' = [writer EXCEPT ![p] =
                IF SerializationCompleted THEN Attempt(t)
                ELSE [IdleWriter EXCEPT !.pc = "enqueue", !.trace = t]]
    BY <1>3 DEF BeginWriteTrace
  <2>2. QueueTypeOK' /\ t \in Trace
    BY <1>3 DEF BeginWriteTrace, QueueTypeOK, queueVars
  <2>3. WriterTypeOK'
    BY <2>1, <2>2 DEF Attempt, SwapTypeOK, IdleWriter, WriterFrame, WriterPc, Buffer
  <2>4. WriterFramesOK'
    BY <1>2, <2>1, <2>2 DEF Attempt, IdleWriter
  <2> QED
    BY <1>1, <2>2, <2>3, <2>4
<1>4. CASE EnqueueTrace(p)
  <2>1. QueueTypeOK'
    BY <1>4 DEF EnqueueTrace, QueueTypeOK
  <2>2. WriterTypeOK' /\ WriterFramesOK'
    BY <1>2, <1>4 DEF EnqueueTrace, IdleWriter, WriterFrame, WriterPc, Buffer
  <2> QED
    BY <1>1, <2>1, <2>2
<1>5. CASE CheckMutex(p)
  <2>1. QueueTypeOK'
    BY <1>5 DEF CheckMutex, QueueTypeOK, queueVars
  <2>2. WriterTypeOK' /\ WriterFramesOK'
    <3>1. CASE Finish(p)
      BY <1>2, <3>1, FinishFrame
    <3>2. CASE Goto(p, "set")
      <4>1. "set" \in WriterPc
        BY DEF WriterPc
      <4>2. /\ writer'[p].pc = "set" /\ WriterTypeOK'
            /\ \A v \in Writer \ {p} : writer'[v] = writer[v]
        BY <3>2, <4>1, GotoFrame
      <4> QED
        BY <1>2, <4>2
    <3> QED
      BY <1>5, <3>1, <3>2 DEF CheckMutex
  <2> QED
    BY <1>1, <2>1, <2>2
<1>6. CASE SetMutex(p)
  <2>1. QueueTypeOK'
    BY <1>6 DEF SetMutex, QueueTypeOK
  <2>2. WriterTypeOK' /\ WriterFramesOK'
    BY <1>2, <1>6 DEF SetMutex, Finish, IdleWriter, WriterFrame, WriterPc, Buffer
  <2> QED
    BY <1>1, <2>1, <2>2
<1> QED
  BY <1>3, <1>4, <1>5, <1>6 DEF WriteTrace

LEMMA SerializeTraceTyped ==
  ASSUME Typed, NEW w \in Writer, SerializeTrace(w)
  PROVE  Typed'
<1>1. QueueTypeOK' /\ FlusherTypeOK' /\ OuterTypeOK' /\ FlusherFramesOK'
  BY DEF SerializeTrace, Typed, TypeOK, QueueTypeOK, FlusherTypeOK, OuterTypeOK,
         FlusherFramesOK, queueVars
<1> USE DEF Typed, TypeOK, WriterTypeOK, WriterFramesOK, WritingPc
<1>2. CASE TryEnterFails(w)
  <2>1. ThreadTypeOK' /\ BufferTypeOK' /\ SwapTypeOK' /\ ResultTypeOK'
    BY <1>2 DEF SerializeTrace, TryEnterFails, ThreadTypeOK, BufferTypeOK,
                SwapTypeOK, ResultTypeOK, bufferVars, swapVars
  <2>2. WriterTypeOK' /\ WriterFramesOK'
    BY <1>2 DEF TryEnterFails, Refused, Goto, WriterFrame, WriterPc, bufferVars
  <2> QED
    BY <1>1, <2>1, <2>2
<1>3. CASE SerializeToTemporary(w)
  <2>1. ThreadTypeOK' /\ BufferTypeOK' /\ SwapTypeOK' /\ ResultTypeOK'
    BY <1>3 DEF SerializeTrace, SerializeToTemporary, ThreadTypeOK, BufferTypeOK,
                SwapTypeOK, ResultTypeOK, WriterFrame, swapVars
  <2>2. WriterTypeOK' /\ WriterFramesOK'
    BY <1>3 DEF SerializeToTemporary, Goto, WriterFrame, WriterPc
  <2> QED
    BY <1>1, <2>1, <2>2
<1>4. CASE SerializeThrows(w)
  <2>1. ThreadTypeOK' /\ BufferTypeOK' /\ SwapTypeOK' /\ ResultTypeOK'
    BY <1>4 DEF SerializeTrace, SerializeThrows, ThreadTypeOK, BufferTypeOK,
                SwapTypeOK, ResultTypeOK, Outcome, bufferVars, swapVars
  <2>2. WriterTypeOK' /\ WriterFramesOK'
    BY <1>4 DEF SerializeThrows, Finish, IdleWriter, WriterFrame, WriterPc,
                Buffer, bufferVars
  <2> QED
    BY <1>1, <2>1, <2>2
<1>5. CASE CopyToBuffer(w)
  <2>1. ThreadTypeOK' /\ SwapTypeOK' /\ ResultTypeOK'
    BY <1>5 DEF SerializeTrace, CopyToBuffer, ThreadTypeOK, SwapTypeOK,
                ResultTypeOK, swapVars
  <2>2. BufferTypeOK'
    <3> DEFINE b == writer[w].buffer
    <3>1. b \in Buffer /\ writer[w].trace \in Trace /\ temporaryBuffer \in Trace
      BY <1>5 DEF CopyToBuffer, WriterFrame
    <3>2. Size[writer[w].trace] \in Nat
      BY <3>1, SizeAssumption
    <3>3. /\ MarkFull(buffer[b]) \in SpanBufferType
          /\ HasRoom(buffer[b], Size[writer[w].trace]) =>
               WithContent(buffer[b], temporaryBuffer, Size[writer[w].trace])
                  \in SpanBufferType
      <4> DEFINE size == Size[writer[w].trace]
                 content == temporaryBuffer
                 old == buffer[b]
      <4>1. old \in SpanBufferType /\ size \in Nat /\ content \in Trace
        BY <3>1, <3>2 DEF BufferTypeOK
      <4> HIDE DEF size, content, old
      <4>2. MarkFull(old) \in SpanBufferType
        BY <4>1 DEF MarkFull, SpanBufferType
      <4>3. ASSUME HasRoom(old, size)
            PROVE  WithContent(old, content, size) \in SpanBufferType
          <5>1. Append(old.traces, content) \in Seq(Trace)
            BY <4>1 DEF SpanBufferType
          <5>2. old.offset + size \in HeaderSize..MaxSize
            BY <4>1, <4>3, SizeAssumption DEF HasRoom, SpanBufferType
          <5> QED
            BY <4>1, <5>1, <5>2 DEF WithContent, SpanBufferType
      <4> QED
        BY <4>2, <4>3 DEF size, content, old
    <3> QED
      BY <1>5, <3>1, <3>3 DEF CopyToBuffer, BufferTypeOK
  <2>3. CASE Finish(w)
    BY <1>1, <1>5, <2>1, <2>2, <2>3, FinishFrame DEF CopyToBuffer
  <2>4. CASE Refused(w)
    <3> DEFINE pc == IF writer[w].retry THEN "drop" ELSE "swap"
    <3>1. pc \in WriterPc /\ Goto(w, pc)
      BY <2>4 DEF Refused, WriterPc
    <3>2. pc # "copy" /\ writer[w].trace \in Trace
      BY <1>5 DEF CopyToBuffer
    <3> HIDE DEF pc
    <3>3. WriterTypeOK' /\ WriterFramesOK'
      <4>1. /\ writer'[w].pc = pc /\ writer'[w].trace = writer[w].trace
            /\ WriterTypeOK' /\ \A v \in Writer \ {w} : writer'[v] = writer[v]
        BY <3>1, GotoFrame
      <4>2. \A v \in Writer \ {w} : writer[v].pc = "copy" =>
               temporaryBuffer' = temporaryBuffer
        BY <1>5 DEF CopyToBuffer
      <4> QED
        BY <3>2, <4>1, <4>2
    <3> QED
      BY <1>1, <2>1, <2>2, <3>3
  <2> QED
    BY <1>5, <2>3, <2>4 DEF CopyToBuffer
<1>6. CASE SwapBuffers(w)
  <2>1. ThreadTypeOK' /\ BufferTypeOK' /\ SwapTypeOK' /\ ResultTypeOK'
    BY <1>6 DEF SerializeTrace, SwapBuffers, ThreadTypeOK, BufferTypeOK,
                SwapTypeOK, ResultTypeOK, bufferVars, swapVars
  <2>2. WriterTypeOK' /\ WriterFramesOK'
    BY <1>6 DEF SwapBuffers, Goto, Other, WriterFrame, WriterPc, Buffer, bufferVars
  <2> QED
    BY <1>1, <2>1, <2>2
<1>7. CASE PublishSwap(w)
  <2>1. ThreadTypeOK' /\ BufferTypeOK' /\ SwapTypeOK' /\ ResultTypeOK'
    BY <1>7 DEF SerializeTrace, PublishSwap, ThreadTypeOK, BufferTypeOK,
                SwapTypeOK, ResultTypeOK, WriterFrame, bufferVars
  <2>2. WriterTypeOK' /\ WriterFramesOK'
    BY <1>7 DEF PublishSwap, Goto, WriterFrame, WriterPc, bufferVars
  <2> QED
    BY <1>1, <2>1, <2>2
<1>8. CASE RequestFlush(w)
  <2>1. ThreadTypeOK' /\ BufferTypeOK' /\ SwapTypeOK' /\ ResultTypeOK'
    BY <1>8 DEF SerializeTrace, RequestFlush, ThreadTypeOK, BufferTypeOK,
                SwapTypeOK, ResultTypeOK, bufferVars, swapVars
  <2>2. WriterTypeOK' /\ WriterFramesOK'
    BY <1>8 DEF RequestFlush, SwapTypeOK, WriterFrame, WriterPc, bufferVars
  <2> QED
    BY <1>1, <2>1, <2>2
<1>9. CASE CompleteRequest(w)
  <2>1. ThreadTypeOK' /\ BufferTypeOK' /\ SwapTypeOK' /\ ResultTypeOK'
    BY <1>9 DEF SerializeTrace, CompleteRequest, ThreadTypeOK, BufferTypeOK,
                 SwapTypeOK, ResultTypeOK, bufferVars
  <2>2. WriterTypeOK' /\ WriterFramesOK'
    BY <1>9 DEF CompleteRequest, WriterFrame, WriterPc, bufferVars
  <2> QED
    BY <1>1, <2>1, <2>2
<1>10. CASE DropTrace(w)
  <2>1. ThreadTypeOK' /\ BufferTypeOK' /\ SwapTypeOK' /\ ResultTypeOK'
    BY <1>10 DEF SerializeTrace, DropTrace, ThreadTypeOK, BufferTypeOK,
                SwapTypeOK, ResultTypeOK, Outcome, bufferVars, swapVars
  <2>2. WriterTypeOK' /\ WriterFramesOK'
    BY <1>10 DEF DropTrace, Finish, IdleWriter, WriterFrame, WriterPc, Buffer,
                bufferVars
  <2> QED
    BY <1>1, <2>1, <2>2
<1> QED
  BY <1>2, <1>3, <1>4, <1>5, <1>6, <1>7, <1>8, <1>9, <1>10 DEF SerializeTrace

LEMMA SerializeTracesLoopTyped ==
  ASSUME Typed, SerializeTracesLoop
  PROVE  Typed'
<1>1. BufferTypeOK' /\ SwapTypeOK' /\ FlusherTypeOK' /\ ResultTypeOK' /\ FlusherFramesOK'
  BY DEF SerializeTracesLoop, Typed, TypeOK, BufferTypeOK, SwapTypeOK,
         FlusherTypeOK, ResultTypeOK, FlusherFramesOK, bufferVars, swapVars,
         resultVars
<1>2. temporaryBuffer' = temporaryBuffer
  BY DEF SerializeTracesLoop, bufferVars
<1> USE DEF Typed, TypeOK
<1>3. CASE DequeueTrace
  <2> DEFINE t == Head(pendingTraces)
  <2>1. t \in Trace /\ Tail(pendingTraces) \in Seq(Trace \cup Caller)
    BY <1>3 DEF DequeueTrace, QueueTypeOK
  <2>2. QueueTypeOK' /\ ThreadTypeOK' /\ OuterTypeOK'
    BY <1>3, <2>1 DEF SerializeTracesLoop, DequeueTrace, QueueTypeOK,
                      ThreadTypeOK, OuterTypeOK
  <2>3. writer' = [writer EXCEPT ![Serializer] = Attempt(t)] /\ Serializer \in Writer
    BY <1>3 DEF DequeueTrace, Writer
  <2>4. WriterTypeOK' /\ WriterFramesOK'
    BY <1>2, <2>1, <2>3 DEF Attempt, WriterTypeOK, WriterFrame, WriterPc,
                            WriterFramesOK, WritingPc, SwapTypeOK
  <2> QED
    BY <1>1, <2>2, <2>4
<1>4. CASE DequeueWatermark
  <2>1. Tail(pendingTraces) \in Seq(Trace \cup Caller) /\ Head(pendingTraces) \in Caller
    BY <1>4 DEF DequeueWatermark, QueueTypeOK
  <2>2. QueueTypeOK' /\ ThreadTypeOK' /\ WriterTypeOK' /\ WriterFramesOK'
    BY <1>2, <1>4, <2>1
    DEF SerializeTracesLoop, DequeueWatermark, QueueTypeOK, ThreadTypeOK,
        WriterTypeOK, WriterFramesOK, loopVars
  <2>3. OuterTypeOK'
    BY <1>4, <2>1 DEF SerializeTracesLoop, DequeueWatermark, OuterTypeOK, CallFrame
  <2> QED
    BY <1>1, <2>2, <2>3
<1>5. CASE QueueDrained \/ ExitCheck \/ SleepBatch \/ WaitMutex \/ ResetMutex
  <2>1. QueueTypeOK' /\ ThreadTypeOK' /\ OuterTypeOK'
    BY <1>5 DEF SerializeTracesLoop, QueueDrained, ExitCheck, SleepBatch,
                WaitMutex, ResetMutex, QueueTypeOK, ThreadTypeOK, OuterTypeOK,
                queueVars
  <2>2. WriterTypeOK' /\ WriterFramesOK'
    BY <1>2, <1>5 DEF QueueDrained, ExitCheck, SleepBatch, WaitMutex, ResetMutex,
                      WriterTypeOK, WriterFramesOK
  <2> QED
    BY <1>1, <2>1, <2>2
<1> QED
  BY <1>3, <1>4, <1>5 DEF SerializeTracesLoop

(* Replacing one flusher's frame.                                          *)
LEMMA FlusherFrameTyped ==
  ASSUME FlusherTypeOK, FlusherFramesOK, NEW f \in Flusher,
         NEW frame \in FlusherFrame,
         frame.pc \in {"idle", "read"} \/ frame.todo # <<>>,
         flusher' = [flusher EXCEPT ![f] = frame],
         flushTask' \in [Buffer -> Flusher \cup {NoThread}]
  PROVE  FlusherTypeOK' /\ FlusherFramesOK'
  BY DEF FlusherTypeOK, FlusherFramesOK

LEMMA FlushBuffersTyped ==
  ASSUME Typed, NEW f \in Flusher, FlushBuffers(f)
  PROVE  Typed'
<1>1. QueueTypeOK' /\ ThreadTypeOK' /\ WriterTypeOK' /\ SwapTypeOK' /\ OuterTypeOK'
      /\ WriterFramesOK'
  BY DEF FlushBuffers, Typed, TypeOK, QueueTypeOK, ThreadTypeOK, WriterTypeOK,
         SwapTypeOK, OuterTypeOK, WriterFramesOK, queueVars, loopVars, swapVars
<1>2. monitor' = monitor /\ temporaryBuffer' = temporaryBuffer
  BY DEF FlushBuffers
<1> USE DEF Typed, TypeOK
<1>3. flusher[f] \in FlusherFrame
  BY DEF FlusherTypeOK
<1>4. ASSUME flusher[f].pc \notin {"idle", "read"}
      PROVE  flusher[f].todo # <<>> /\ Current(f) \in Buffer
                /\ Tail(flusher[f].todo) \in Seq(Buffer)
  BY <1>3, <1>4 DEF FlusherFramesOK, FlusherFrame, Current
<1>5. CASE ReadActiveBuffer(f)
  <2>1. BufferTypeOK' /\ ResultTypeOK'
    BY <1>2, <1>5 DEF ReadActiveBuffer, BufferTypeOK, ResultTypeOK, resultVars
  <2> DEFINE frame == [flusher[f] EXCEPT
          !.pc   = IF f = FlushLoop THEN "choose" ELSE "previous",
          !.todo = IF f = FlushLoop THEN <<activeBuffer>>
                   ELSE <<Other(activeBuffer), activeBuffer>>]
  <2>2. /\ <<activeBuffer>> \in Seq(Buffer)
        /\ <<Other(activeBuffer), activeBuffer>> \in Seq(Buffer)
    BY DEF SwapTypeOK, Other, Buffer
  <2>3. frame \in FlusherFrame /\ frame.todo # <<>>
    BY <1>3, <2>2 DEF FlusherFrame, FlusherPc
  <2>4. flusher' = [flusher EXCEPT ![f] = frame] /\ flushTask' = flushTask
    BY <1>5 DEF ReadActiveBuffer
  <2> HIDE DEF frame
  <2> QED
    BY <1>1, <2>1, <2>3, <2>4, FlusherFrameTyped DEF FlusherTypeOK
<1>6. CASE ChooseBuffers(f)
  <2>1. BufferTypeOK' /\ ResultTypeOK'
    BY <1>2, <1>6 DEF ChooseBuffers, BufferTypeOK, ResultTypeOK, resultVars
  <2> DEFINE fallback == Other(Current(f))
             both  == <<fallback, Current(f)>>
             frame == [flusher[f] EXCEPT !.pc = "previous",
                !.todo = IF buffer[fallback].full THEN both ELSE flusher[f].todo]
  <2>2. both \in Seq(Buffer) /\ both # <<>>
    BY <1>4, <1>6 DEF ChooseBuffers, Other, Buffer
  <2>3. flusher' = [flusher EXCEPT ![f] = frame] /\ flushTask' = flushTask
    BY <1>6 DEF ChooseBuffers
  <2> HIDE DEF both
  <2>4. frame \in FlusherFrame /\ frame.todo # <<>>
    BY <1>3, <1>4, <1>6, <2>2 DEF FlusherFrame, FlusherPc, ChooseBuffers
  <2> HIDE DEF frame
  <2> QED
    BY <1>1, <2>1, <2>3, <2>4, FlusherFrameTyped DEF FlusherTypeOK
<1>7. CASE ReadFlushTask(f)
  <2>1. BufferTypeOK' /\ ResultTypeOK'
    BY <1>2, <1>7 DEF ReadFlushTask, BufferTypeOK, ResultTypeOK, resultVars
  <2>2. FlusherTypeOK' /\ FlusherFramesOK'
    BY <1>4, <1>7 DEF ReadFlushTask, FlusherTypeOK, FlusherFramesOK,
                FlusherFrame, FlusherPc
  <2> QED
    BY <1>1, <2>1, <2>2
<1>8. CASE LockBuffer(f)
  <2> DEFINE old   == buffer[Current(f)]
             frame == [flusher[f] EXCEPT
                !.pc = IF TraceCount(old) > 0 THEN "sending" ELSE "clear",
                !.payload = old.traces]
  <2>1. ResultTypeOK'
    BY <1>8 DEF LockBuffer, ResultTypeOK, resultVars
  <2>2. old \in SpanBufferType
    BY <1>4, <1>8 DEF LockBuffer, BufferTypeOK
  <2>3. Locked(old) \in SpanBufferType
    BY <2>2 DEF Locked, SpanBufferType
  <2>4. BufferTypeOK'
    BY <1>2, <1>8, <2>3 DEF LockBuffer, BufferTypeOK
  <2>5. frame \in FlusherFrame /\ frame.todo # <<>>
    BY <1>3, <1>4, <1>8, <2>2 DEF LockBuffer, FlusherFrame, FlusherPc, SpanBufferType
  <2>6. flusher' = [flusher EXCEPT ![f] = frame] /\ flushTask' = flushTask
    BY <1>8 DEF LockBuffer
  <2> HIDE DEF frame
  <2> QED
    BY <1>1, <2>1, <2>4, <2>5, <2>6, FlusherFrameTyped DEF FlusherTypeOK
<1>9. CASE LockFails(f)
  <2>1. BufferTypeOK' /\ ResultTypeOK'
    BY <1>2, <1>9 DEF LockFails, BufferTypeOK, ResultTypeOK, resultVars
  <2>2. FlusherTypeOK' /\ FlusherFramesOK'
    BY <1>4, <1>9 DEF LockFails, FlusherTypeOK, FlusherFramesOK, FlusherFrame,
                FlusherPc
  <2> QED
    BY <1>1, <2>1, <2>2
<1>10. CASE StoreFlushTask(f)
  <2>1. BufferTypeOK' /\ ResultTypeOK'
    BY <1>2, <1>10 DEF StoreFlushTask, BufferTypeOK, ResultTypeOK, resultVars
  <2>2. FlusherTypeOK' /\ FlusherFramesOK'
    BY <1>4, <1>10 DEF StoreFlushTask, FlusherTypeOK, FlusherFramesOK, FlusherFrame
  <2> QED
    BY <1>1, <2>1, <2>2
<1>11. CASE SendSucceeds(f) \/ SendFails(f)
  <2>1. BufferTypeOK'
    BY <1>2, <1>11 DEF SendSucceeds, SendFails, BufferTypeOK
  <2>2. TraceCount(buffer[Current(f)]) \in Nat
    BY <1>4, <1>11 DEF SendSucceeds, SendFails, BufferTypeOK, SpanBufferType, TraceCount
  <2>3. keeps' \in Nat /\ drops' \in Nat
    <3>1. CASE SendSucceeds(f)
      BY <2>2, <3>1 DEF SendSucceeds, ResultTypeOK
    <3>2. CASE SendFails(f)
      BY <2>2, <3>2 DEF SendFails, ResultTypeOK
    <3> QED
      BY <1>11, <3>1, <3>2
  <2>4. outcome' \in [Trace -> Outcome]
    BY <1>11 DEF SendSucceeds, SendFails, ResultTypeOK, Resolve, Outcome
  <2>5. FlusherTypeOK' /\ FlusherFramesOK'
    <3>1. flushTask' = flushTask /\ flusher' = [flusher EXCEPT ![f].pc = "clear"]
      BY <1>11 DEF SendSucceeds, SendFails
    <3>2. flusher[f].todo # <<>>
      BY <1>4, <1>11 DEF SendSucceeds, SendFails
    <3> QED
      BY <3>1, <3>2 DEF FlusherTypeOK, FlusherFramesOK, FlusherFrame, FlusherPc
  <2> QED
    BY <1>1, <2>1, <2>3, <2>4, <2>5 DEF ResultTypeOK
<1>12. CASE ClearBuffer(f)
  <2>1. ResultTypeOK'
    BY <1>12 DEF ClearBuffer, ResultTypeOK, resultVars
  <2>2. buffer[Current(f)] \in SpanBufferType /\ HeaderSize \in HeaderSize..MaxSize
    BY <1>4, <1>12, SizeAssumption DEF ClearBuffer, BufferTypeOK
  <2>3. Cleared(buffer[Current(f)]) \in SpanBufferType
    <3> DEFINE old == buffer[Current(f)]
    <3>1. <<>> \in Seq(Trace)
      OBVIOUS
    <3>2. old \in SpanBufferType
      BY <2>2
    <3> HIDE DEF old
    <3>3. Cleared(old) \in SpanBufferType
      BY <2>2, <3>1, <3>2 DEF Cleared, SpanBufferType
    <3> QED
      BY <3>3 DEF old
  <2>4. BufferTypeOK'
    BY <1>2, <1>12, <2>3 DEF ClearBuffer, BufferTypeOK
  <2>5. /\ \A g \in Flusher : flusher'[g] \in FlusherFrame
        /\ \A g \in Flusher : flusher'[g].pc \notin {"idle", "read"} =>
              flusher'[g].todo # <<>>
    <3>1. flusher'[f] = [flusher[f] EXCEPT !.pc = "flushed", !.payload = <<>>]
      BY <1>12 DEF ClearBuffer
    <3>2. flusher'[f] \in FlusherFrame /\ flusher'[f].todo # <<>>
      <4>1. <<>> \in Seq(Trace) /\ flusher[f].todo # <<>>
        BY <1>4, <1>12 DEF ClearBuffer
      <4> QED
        BY <1>3, <3>1, <4>1 DEF FlusherFrame, FlusherPc
    <3>3. ASSUME NEW g \in Flusher \ {f}
          PROVE  /\ flusher'[g] \in FlusherFrame
                 /\ flusher'[g].pc = flusher[g].pc
                 /\ flusher'[g].todo = flusher[g].todo
      <4>1. flusher[g] \in FlusherFrame
        BY DEF FlusherTypeOK
      <4>2. \/ flusher'[g] = [flusher[g] EXCEPT !.previous = NoThread]
            \/ flusher'[g] = [flusher[g] EXCEPT !.previous = flusher[g].previous]
        BY <1>12 DEF ClearBuffer
      <4> QED
        BY <4>1, <4>2 DEF FlusherFrame
    <3> QED
      BY <3>2, <3>3 DEF FlusherFramesOK
  <2>6. flushTask' \in [Buffer -> Flusher \cup {NoThread}]
    BY <1>12 DEF ClearBuffer, FlusherTypeOK
  <2>7. flusher' \in [Flusher -> FlusherFrame]
    BY <1>12, <2>5 DEF ClearBuffer
  <2> QED
    BY <1>1, <2>1, <2>4, <2>5, <2>6, <2>7 DEF FlusherTypeOK, FlusherFramesOK
<1>13. CASE NextBuffer(f)
  <2>1. BufferTypeOK' /\ ResultTypeOK'
    BY <1>2, <1>13 DEF NextBuffer, BufferTypeOK, ResultTypeOK, resultVars
  <2> DEFINE rest  == Tail(flusher[f].todo)
             next  == [pc |-> "lock", todo |-> rest, stored |-> FALSE,
                       previous |-> flushTask[Head(rest)], payload |-> <<>>]
             frame == IF rest = <<>> THEN IdleFlusher ELSE next
  <2>2. IdleFlusher \in FlusherFrame /\ IdleFlusher.pc = "idle"
    BY DEF IdleFlusher, FlusherFrame, FlusherPc
  <2>3. rest \in Seq(Buffer)
    BY <1>4, <1>13 DEF NextBuffer
  <2>4. ASSUME rest # <<>>
        PROVE  next \in FlusherFrame /\ next.todo # <<>>
    <3>1. flushTask[Head(rest)] \in Flusher \cup {NoThread}
      BY <2>3, <2>4 DEF FlusherTypeOK
    <3> QED
      <4>1. <<>> \in Seq(Trace)
        OBVIOUS
      <4> QED
        BY <2>3, <2>4, <3>1, <4>1 DEF FlusherFrame, FlusherPc
  <2>5. flusher' = [flusher EXCEPT ![f] = frame] /\ flushTask' = flushTask
    BY <1>13 DEF NextBuffer
  <2> HIDE DEF next
  <2> QED
    BY <1>1, <2>1, <2>2, <2>4, <2>5, FlusherFrameTyped DEF FlusherTypeOK
<1> QED
  BY <1>5, <1>6, <1>7, <1>8, <1>9, <1>10, <1>11, <1>12, <1>13 DEF FlushBuffers

LEMMA StartFlushTyped ==
  ASSUME FlusherTypeOK, FlusherFramesOK, NEW f \in Flusher, StartFlush(f),
         flushTask' = flushTask
  PROVE  FlusherTypeOK' /\ FlusherFramesOK'
  BY DEF FlusherTypeOK, FlusherFramesOK, FlusherFrame, FlusherPc, StartFlush

LEMMA FlushBuffersTaskLoopTyped ==
  ASSUME Typed, FlushBuffersTaskLoop
  PROVE  Typed'
<1> USE DEF Typed, TypeOK
<1>1. QueueTypeOK' /\ ThreadTypeOK' /\ BufferTypeOK' /\ ResultTypeOK'
  BY DEF FlushBuffersTaskLoop, QueueTypeOK, ThreadTypeOK, BufferTypeOK,
         ResultTypeOK, queueVars, loopVars, bufferVars, resultVars
<1>2. FlusherTypeOK' /\ FlusherFramesOK'
  <2>1. flushTask' = flushTask /\ (StartFlush(FlushLoop) \/ flusher' = flusher)
    BY DEF FlushBuffersTaskLoop, LoopWakes, LoopReplacesForceFlush, LoopRepeats
  <2> QED
    BY <2>1, StartFlushTyped DEF FlusherTypeOK, FlusherFramesOK, Flusher
<1>3. SwapTypeOK' /\ OuterTypeOK'
  BY DEF FlushBuffersTaskLoop, LoopWakes, LoopReplacesForceFlush, LoopRepeats,
         SwapTypeOK, OuterTypeOK
<1>4. WriterTypeOK' /\ WriterFramesOK'
  <2>1. temporaryBuffer' = temporaryBuffer
    BY DEF FlushBuffersTaskLoop, bufferVars
  <2>2. CASE writer' = writer
    BY <2>1, <2>2 DEF WriterTypeOK, WriterFramesOK
  <2>3. CASE LoopReplacesForceFlush
    BY <2>1, <2>3, OutdatedFrames DEF LoopReplacesForceFlush, WriterFramesOK, WritingPc
  <2> QED
    BY <2>2, <2>3 DEF FlushBuffersTaskLoop, LoopWakes, LoopRepeats
<1> QED
  BY <1>1, <1>2, <1>3, <1>4

LEMMA FlushTracesTyped ==
  ASSUME Typed, NEW c \in Caller, FlushTraces(c)
  PROVE  Typed'
<1> USE DEF Typed, TypeOK
<1>1. /\ ThreadTypeOK' /\ WriterTypeOK' /\ BufferTypeOK' /\ SwapTypeOK'
      /\ ResultTypeOK' /\ WriterFramesOK'
  BY DEF FlushTraces, ThreadTypeOK, WriterTypeOK, BufferTypeOK, SwapTypeOK,
         ResultTypeOK, WriterFramesOK, loopVars, bufferVars, swapVars, resultVars
<1>2. QueueTypeOK'
  <2>1. fresh' = fresh
    BY DEF FlushTraces
  <2>2. \/ UNCHANGED queueVars
        \/ pendingTraces' = Append(pendingTraces, c)
              /\ serializationMutex' = serializationMutex
        \/ pendingTraces' = pendingTraces /\ serializationMutex' = TRUE
    BY DEF FlushTraces, BeginFlushTraces, EnqueueWatermark, WakeSerializer,
           FlushAllBuffers
  <2> QED
    <3>1. Append(pendingTraces, c) \in Seq(Trace \cup Caller)
      BY DEF QueueTypeOK
    <3> QED
      BY <2>1, <2>2, <3>1 DEF QueueTypeOK, queueVars
<1>3. OuterTypeOK'
  BY DEF FlushTraces, BeginFlushTraces, EnqueueWatermark, WakeSerializer,
         FlushAllBuffers, OuterTypeOK, CallFrame, Written
<1>4. FlusherTypeOK' /\ FlusherFramesOK'
  BY StartFlushTyped DEF FlushTraces, BeginFlushTraces, EnqueueWatermark,
         WakeSerializer, FlushAllBuffers, FlusherTypeOK, FlusherFramesOK, Flusher
<1> QED
  BY <1>1, <1>2, <1>3, <1>4

LEMMA FlushAndCloseTyped ==
  ASSUME Typed, FlushAndClose
  PROVE  Typed'
<1> USE DEF Typed, TypeOK
<1>1. /\ WriterTypeOK' /\ BufferTypeOK' /\ SwapTypeOK' /\ ResultTypeOK'
      /\ WriterFramesOK'
  BY DEF FlushAndClose, WriterTypeOK, BufferTypeOK, SwapTypeOK, ResultTypeOK,
         WriterFramesOK, bufferVars, swapVars, resultVars
<1>2. QueueTypeOK' /\ ThreadTypeOK'
  BY DEF FlushAndClose, BeginClose, CloseWakesSerializer, CloseAwaitsSerialization,
         CloseAwaitsFlushLoop, CloseChecksBuffers, CloseForced, QueueTypeOK,
         ThreadTypeOK, loopVars
<1>3. OuterTypeOK'
  BY DEF FlushAndClose, BeginClose, CloseWakesSerializer, CloseAwaitsSerialization,
         CloseAwaitsFlushLoop, CloseChecksBuffers, CloseForced, CloseGoto,
         OuterTypeOK, CloseFrame, Written
<1>4. FlusherTypeOK' /\ FlusherFramesOK'
  BY StartFlushTyped DEF FlushAndClose, BeginClose, CloseWakesSerializer,
         CloseAwaitsSerialization, CloseAwaitsFlushLoop, CloseChecksBuffers,
         CloseForced, FlusherTypeOK, FlusherFramesOK, Flusher
<1> QED
  BY <1>1, <1>2, <1>3, <1>4

LEMMA StutterTyped ==
  ASSUME Typed, UNCHANGED vars
  PROVE  Typed'
  BY DEF Typed, TypeOK, QueueTypeOK, ThreadTypeOK, WriterTypeOK, BufferTypeOK,
         SwapTypeOK, FlusherTypeOK, OuterTypeOK, ResultTypeOK, WriterFramesOK,
         FlusherFramesOK, vars, queueVars, loopVars, bufferVars, swapVars, resultVars

LEMMA TypedStep == Typed /\ [Next]_vars => Typed'
  BY WriteTraceTyped, SerializeTraceTyped, SerializeTracesLoopTyped,
     FlushBuffersTyped, FlushBuffersTaskLoopTyped, FlushTracesTyped,
     FlushAndCloseTyped, StutterTyped DEF Next

(* Type correctness: in particular no interleaving of writers makes a      *)
(* buffer outgrow _maxBufferSize or copies anything but a trace into it.   *)
THEOREM TypeCorrect == Spec => []TypeOK
<1>1. Typed => TypeOK
  BY DEF Typed
<1> QED
  BY InitTyped, TypedStep, <1>1, PTL DEF Spec

-----------------------------------------------------------------------------
(* Exclusion.                                                              *)

LEMMA InitExclusive == Init => Exclusive
  BY DEF Init, Exclusive, MonitorExcludes, FlusherFree, LockHasOneOwner,
         PayloadStable, Owns, IdleWriter, IdleFlusher, EmptyBuffer, Flusher

(* A step that leaves buffers, monitors and flushers alone, and brings no  *)
(* thread into the copy.                                                   *)
LEMMA ExclusiveFrame ==
  ASSUME Exclusive, buffer' = buffer, monitor' = monitor, flusher' = flusher,
         loopPc' = loopPc, close' = close,
         \A c \in Caller : call'[c].pc = call[c].pc,
         \A w \in Writer : writer'[w].pc = "copy" =>
            writer[w].pc = "copy" /\ writer'[w].buffer = writer[w].buffer
  PROVE  Exclusive'
  BY DEF Exclusive, MonitorExcludes, FlusherFree, LockHasOneOwner,
         PayloadStable, Owns, Current

LEMMA WriteTraceExclusive ==
  ASSUME Typed, Exclusive, NEW p \in Producer, WriteTrace(p)
  PROVE  Exclusive'
<1>1. /\ buffer' = buffer /\ monitor' = monitor /\ flusher' = flusher
      /\ loopPc' = loopPc /\ close' = close /\ call' = call
  BY DEF WriteTrace, bufferVars
<1>2. writer \in [Writer -> WriterFrame] /\ p \in Writer
  BY DEF Typed, TypeOK, WriterTypeOK, Writer
<1>3. ASSUME NEW w \in Writer, writer'[w].pc = "copy"
      PROVE  writer[w].pc = "copy" /\ writer'[w].buffer = writer[w].buffer
  <2>1. CASE BeginWriteTrace(p)
    <3>1. PICK t \in fresh : writer' = [writer EXCEPT ![p] =
             IF SerializationCompleted THEN Attempt(t)
             ELSE [IdleWriter EXCEPT !.pc = "enqueue", !.trace = t]]
      BY <2>1 DEF BeginWriteTrace
    <3> QED
      BY <1>2, <1>3, <3>1 DEF Attempt, IdleWriter
  <2>2. CASE EnqueueTrace(p) \/ CheckMutex(p) \/ SetMutex(p)
    BY <1>2, <1>3, <2>2 DEF EnqueueTrace, CheckMutex, SetMutex, Goto, Finish,
                            IdleWriter, WriterFrame
  <2> QED
    BY <2>1, <2>2 DEF WriteTrace
<1> QED
  BY <1>1, <1>3, ExclusiveFrame

LEMMA SerializeTraceExclusive ==
  ASSUME Typed, Exclusive, NEW w \in Writer, SerializeTrace(w)
  PROVE  Exclusive'
<1>1. /\ flusher' = flusher /\ loopPc' = loopPc /\ close' = close /\ call' = call
  BY DEF SerializeTrace
<1>2. writer \in [Writer -> WriterFrame]
  BY DEF Typed, TypeOK, WriterTypeOK
<1>3. /\ buffer \in [Buffer -> SpanBufferType]
      /\ monitor \in [Buffer -> Writer \cup {NoThread}]
      /\ writer[w].buffer \in Buffer /\ NoThread \notin Writer
  BY <1>2, ThreadAssumption DEF Typed, TypeOK, BufferTypeOK, WriterFrame
<1>4. CASE \/ TryEnterFails(w) \/ SerializeThrows(w) \/ SwapBuffers(w)
           \/ PublishSwap(w) \/ RequestFlush(w) \/ CompleteRequest(w)
           \/ DropTrace(w)
  <2>1. buffer' = buffer /\ monitor' = monitor
    BY <1>4 DEF TryEnterFails, SerializeThrows, SwapBuffers, PublishSwap,
                RequestFlush, CompleteRequest, DropTrace, bufferVars
  <2>2. ASSUME NEW v \in Writer, writer'[v].pc = "copy"
        PROVE  writer[v].pc = "copy" /\ writer'[v].buffer = writer[v].buffer
    BY <1>2, <1>4, <2>2 DEF TryEnterFails, SerializeThrows, SwapBuffers, PublishSwap,
                RequestFlush, CompleteRequest, DropTrace, Refused, Goto, Finish, IdleWriter, WriterFrame
  <2> QED
    BY <1>1, <2>1, <2>2, ExclusiveFrame
<1>5. CASE SerializeToTemporary(w)
  <2>1. buffer' = buffer /\ CanEnter(writer[w].buffer)
        /\ monitor' = [monitor EXCEPT ![writer[w].buffer] = w]
    BY <1>5 DEF SerializeToTemporary
  <2>2. \A v \in Writer : writer'[v].buffer = writer[v].buffer
           /\ (v # w => writer'[v].pc = writer[v].pc)
    BY <1>2, <1>5 DEF SerializeToTemporary, Goto, WriterFrame
  <2>3. MonitorExcludes'
    BY <1>3, <2>1, <2>2 DEF Exclusive, MonitorExcludes, CanEnter
  <2>4. FlusherFree' /\ LockHasOneOwner' /\ PayloadStable'
    BY <1>1, <2>1 DEF Exclusive, FlusherFree, LockHasOneOwner, PayloadStable,
                      Owns, Current
  <2> QED
    BY <2>3, <2>4 DEF Exclusive
<1>6. CASE CopyToBuffer(w)
  <2> DEFINE b == writer[w].buffer
  <2>1. monitor[b] = w /\ ~buffer[b].locked
    BY <1>3, <1>6 DEF CopyToBuffer, Exclusive, MonitorExcludes
  <2>2. /\ monitor' = [monitor EXCEPT ![b] = NoThread]
        /\ \A c \in Buffer : buffer'[c].locked = buffer[c].locked
        /\ \A c \in Buffer \ {b} : buffer'[c] = buffer[c]
    <3> DEFINE new == IF HasRoom(buffer[b], Size[writer[w].trace])
                      THEN WithContent(buffer[b], temporaryBuffer, Size[writer[w].trace])
                      ELSE MarkFull(buffer[b])
    <3>1. monitor' = [monitor EXCEPT ![b] = NoThread] /\ buffer' = [buffer EXCEPT ![b] = new]
      BY <1>6 DEF CopyToBuffer
    <3>2. new.locked = buffer[b].locked
      <4>1. ASSUME NEW old \in SpanBufferType, NEW content, NEW size
            PROVE  /\ WithContent(old, content, size).locked = old.locked
                   /\ MarkFull(old).locked = old.locked
        BY DEF WithContent, MarkFull, SpanBufferType
      <4> QED
        BY <1>3, <4>1
    <3> HIDE DEF new
    <3> QED
      BY <1>3, <3>1, <3>2
  <2>3. writer'[w].pc # "copy" /\ \A v \in Writer \ {w} : writer'[v] = writer[v]
    BY <1>2, <1>6 DEF CopyToBuffer, Refused, Goto, Finish, IdleWriter, WriterFrame
  <2>4. MonitorExcludes'
    <3>1. ASSUME NEW v \in Writer, writer'[v].pc = "copy"
          PROVE  monitor'[writer'[v].buffer] = v
      <4>1. v # w /\ writer'[v] = writer[v] /\ writer[v].buffer \in Buffer
        BY <1>2, <2>3, <3>1 DEF WriterFrame
      <4>2. monitor[writer[v].buffer] = v
        BY <3>1, <4>1 DEF Exclusive, MonitorExcludes
      <4> QED
        BY <1>3, <2>1, <2>2, <4>1, <4>2
    <3>2. \A c \in Buffer : monitor'[c] # NoThread => ~buffer'[c].locked
      BY <1>3, <2>2 DEF Exclusive, MonitorExcludes
    <3> QED
      BY <3>1, <3>2 DEF MonitorExcludes
  <2>5. FlusherFree' /\ LockHasOneOwner'
    BY <1>1, <2>2 DEF Exclusive, FlusherFree, LockHasOneOwner, Owns, Current
  <2>6. PayloadStable'
    <3> SUFFICES ASSUME NEW f \in Flusher, flusher[f].pc = "sending"
                 PROVE  buffer'[Current(f)] = buffer[Current(f)]
      BY <1>1 DEF Exclusive, PayloadStable, Current
    <3>1. Current(f) \in Buffer
      BY DEF Typed, TypeOK, FlusherTypeOK, FlusherFrame, FlusherFramesOK, Current
    <3>2. buffer[Current(f)].locked
      BY <3>1 DEF Exclusive, LockHasOneOwner, Owns
    <3> QED
      BY <2>1, <2>2, <3>1, <3>2
  <2> QED
    BY <2>4, <2>5, <2>6 DEF Exclusive
<1> QED
  BY <1>4, <1>5, <1>6 DEF SerializeTrace

LEMMA SerializeTracesLoopExclusive ==
  ASSUME Typed, Exclusive, SerializeTracesLoop
  PROVE  Exclusive'
<1>1. /\ buffer' = buffer /\ monitor' = monitor /\ flusher' = flusher
      /\ loopPc' = loopPc /\ close' = close
  BY DEF SerializeTracesLoop, bufferVars
<1>2. \A c \in Caller : call'[c].pc = call[c].pc
  BY DEF SerializeTracesLoop, DequeueTrace, DequeueWatermark, QueueDrained,
         ExitCheck, SleepBatch, WaitMutex, ResetMutex, Typed, TypeOK,
         OuterTypeOK, CallFrame
<1>3. ASSUME NEW w \in Writer, writer'[w].pc = "copy"
      PROVE  writer[w].pc = "copy" /\ writer'[w].buffer = writer[w].buffer
  BY <1>3 DEF SerializeTracesLoop, DequeueTrace, DequeueWatermark, QueueDrained,
         ExitCheck, SleepBatch, WaitMutex, ResetMutex, Typed, TypeOK,
         WriterTypeOK, WriterFrame, Attempt
<1> QED
  BY <1>1, <1>2, <1>3, ExclusiveFrame

(* While f takes a step of FlushBuffers its owner is in the flush.         *)
LEMMA FlushBuffersFree ==
  ASSUME Typed, FlusherFree, NEW f \in Flusher, FlushBuffers(f),
         \A g \in Flusher \ {f} : flusher'[g].pc = flusher[g].pc
  PROVE  FlusherFree'
<1>1. loopPc' = loopPc /\ call' = call /\ close' = close
  BY DEF FlushBuffers
<1>2. flusher[f].pc # "idle"
  BY DEF FlushBuffers, ReadActiveBuffer, ChooseBuffers, ReadFlushTask, LockBuffer,
         LockFails, StoreFlushTask, SendSucceeds, SendFails, ClearBuffer, NextBuffer
<1> QED
  BY <1>1, <1>2 DEF FlusherFree, Flusher

(* A step of a flusher that neither takes nor gives up a buffer.           *)
LEMMA FlusherStepExclusive ==
  ASSUME Typed, Exclusive, NEW f \in Flusher, FlushBuffers(f),
         buffer' = buffer,
         \A g \in Flusher \ {f} : flusher'[g] = flusher[g],
         \A b \in Buffer : Owns(f, b)' <=> Owns(f, b),
         flusher'[f].pc = "sending" =>
            /\ flusher[f].pc = "sending"
            /\ flusher'[f].payload = flusher[f].payload
            /\ flusher'[f].todo = flusher[f].todo
  PROVE  Exclusive'
<1>1. MonitorExcludes'
  BY DEF FlushBuffers, Exclusive, MonitorExcludes
<1>2. FlusherFree'
  BY FlushBuffersFree DEF Exclusive
<1>3. LockHasOneOwner'
  <2>1. \A g \in Flusher, b \in Buffer : Owns(g, b)' <=> Owns(g, b)
    BY DEF Owns, Current
  <2> QED
    BY <2>1 DEF Exclusive, LockHasOneOwner
<1>4. PayloadStable'
  BY DEF Exclusive, PayloadStable, Current
<1> QED
  BY <1>1, <1>2, <1>3, <1>4 DEF Exclusive

LEMMA FlushBuffersExclusive ==
  ASSUME Typed, Exclusive, NEW f \in Flusher, FlushBuffers(f)
  PROVE  Exclusive'
<1>1. /\ writer' = writer /\ monitor' = monitor
  BY DEF FlushBuffers
<1>2. /\ flusher \in [Flusher -> FlusherFrame]
      /\ buffer \in [Buffer -> SpanBufferType]
  BY DEF Typed, TypeOK, FlusherTypeOK, BufferTypeOK
<1>3. ASSUME NEW g \in Flusher, flusher[g].pc \notin {"idle", "read"}
      PROVE  Current(g) \in Buffer
  BY <1>2, <1>3 DEF Typed, FlusherFramesOK, FlusherFrame, Current
<1>4. CASE ReadActiveBuffer(f) \/ ChooseBuffers(f) \/ ReadFlushTask(f)
           \/ LockFails(f) \/ NextBuffer(f)
  <2>1. /\ buffer' = buffer
        /\ \A g \in Flusher \ {f} : flusher'[g] = flusher[g]
    BY <1>2, <1>4 DEF ReadActiveBuffer, ChooseBuffers, ReadFlushTask, LockFails,
                      NextBuffer
  <2>2. flusher[f].pc \notin {"sending", "clear"}
    BY <1>4 DEF ReadActiveBuffer, ChooseBuffers, ReadFlushTask, LockFails, NextBuffer
  <2>3. flusher'[f].pc \notin {"sending", "clear"}
    <3>1. flusher[f] \in FlusherFrame
      BY <1>2
    <3>2. CASE ReadActiveBuffer(f)
      BY <1>2, <3>1, <3>2 DEF ReadActiveBuffer, FlusherFrame
    <3>3. CASE ChooseBuffers(f)
      BY <1>2, <3>1, <3>3 DEF ChooseBuffers, FlusherFrame
    <3>4. CASE ReadFlushTask(f)
      BY <1>2, <3>1, <3>4 DEF ReadFlushTask, FlusherFrame
    <3>5. CASE LockFails(f)
      BY <1>2, <3>1, <3>5 DEF LockFails, FlusherFrame
    <3>6. CASE NextBuffer(f)
      BY <1>2, <3>6 DEF NextBuffer, IdleFlusher
    <3> QED
      BY <1>4, <3>2, <3>3, <3>4, <3>5, <3>6
  <2> QED
    BY <2>1, <2>2, <2>3, FlusherStepExclusive DEF Owns
<1>5. CASE StoreFlushTask(f) \/ SendSucceeds(f) \/ SendFails(f)
  <2>1. /\ buffer' = buffer
        /\ \A g \in Flusher \ {f} : flusher'[g] = flusher[g]
        /\ flusher'[f].todo = flusher[f].todo
        /\ flusher'[f].payload = flusher[f].payload
        /\ \/ flusher'[f].pc = flusher[f].pc
           \/ flusher[f].pc = "sending" /\ flusher'[f].pc = "clear"
    BY <1>2, <1>5 DEF StoreFlushTask, SendSucceeds, SendFails, FlusherFrame
  <2> QED
    BY <2>1, FlusherStepExclusive DEF Owns, Current
<1>6. CASE LockBuffer(f)
  <2> DEFINE b == Current(f)
  <2>1. b \in Buffer /\ monitor[b] = NoThread /\ ~buffer[b].locked
        /\ flusher[f].pc = "lock"
    BY <1>3, <1>6 DEF LockBuffer
  <2>2. /\ flusher'[f].pc \in {"sending", "clear"}
        /\ flusher'[f].todo = flusher[f].todo
        /\ flusher'[f].payload = buffer[b].traces
        /\ \A g \in Flusher \ {f} : flusher'[g] = flusher[g]
    BY <1>2, <1>6 DEF LockBuffer, FlusherFrame
  <2>3. /\ buffer'[b].locked /\ buffer'[b].traces = buffer[b].traces
        /\ \A c \in Buffer \ {b} : buffer'[c] = buffer[c]
    <3>1. buffer' = [buffer EXCEPT ![b] = Locked(buffer[b])]
      BY <1>6 DEF LockBuffer
    <3>2. ASSUME NEW old \in SpanBufferType
          PROVE  Locked(old).locked /\ Locked(old).traces = old.traces
      BY DEF Locked, SpanBufferType
    <3>3. Locked(buffer[b]).locked /\ Locked(buffer[b]).traces = buffer[b].traces
      BY <1>2, <2>1, <3>2
    <3> QED
      BY <1>2, <2>1, <3>1, <3>3
  <2>4. \A g \in Flusher : ~Owns(g, b)
    BY <2>1 DEF Exclusive, LockHasOneOwner
  <2>5. \A c \in Buffer : Owns(f, c)' <=> c = b
    BY <2>1, <2>2 DEF Owns, Current
  <2>6. \A g \in Flusher \ {f}, c \in Buffer : Owns(g, c)' <=> Owns(g, c)
    BY <2>2 DEF Owns, Current
  <2>7. MonitorExcludes'
    BY <1>1, <2>1, <2>3 DEF Exclusive, MonitorExcludes
  <2>8. FlusherFree'
    BY <2>2, FlushBuffersFree DEF Exclusive
  <2>9. LockHasOneOwner'
    <3>1. \A c \in Buffer, g \in Flusher : Owns(g, c)' =>
             (c = b /\ g = f) \/ (c # b /\ g # f /\ Owns(g, c))
      <4> TAKE c \in Buffer, g \in Flusher
      <4>1. g # f => (Owns(g, c)' => Owns(g, c))
        BY <2>6
      <4>2. ~Owns(f, c) /\ ~Owns(g, b)
        BY <2>1, <2>4 DEF Owns
      <4> QED
        BY <2>5, <4>1, <4>2
    <3>2. ASSUME NEW c \in Buffer
          PROVE  buffer'[c].locked <=> \E g \in Flusher : Owns(g, c)'
      <4>1. CASE c = b
        BY <2>3, <2>5, <4>1
      <4>2. CASE c # b
        <5>1. buffer'[c].locked <=> \E g \in Flusher : Owns(g, c)
          BY <2>3, <4>2 DEF Exclusive, LockHasOneOwner
        <5>2. ~Owns(f, c)
          BY <2>1 DEF Owns
        <5> QED
          BY <2>6, <3>1, <4>2, <5>1, <5>2
      <4> QED
        BY <4>1, <4>2
    <3>3. ASSUME NEW c \in Buffer, NEW g \in Flusher, NEW h \in Flusher,
                 Owns(g, c)', Owns(h, c)'
          PROVE  g = h
      BY <3>1, <3>3 DEF Exclusive, LockHasOneOwner
    <3> QED
      BY <3>2, <3>3 DEF LockHasOneOwner
  <2>10. PayloadStable'
    <3> SUFFICES ASSUME NEW g \in Flusher, flusher'[g].pc = "sending"
                 PROVE  flusher'[g].payload = buffer'[Current(g)'].traces
      BY DEF PayloadStable
    <3>1. CASE g = f
      BY <2>2, <2>3, <3>1 DEF Current
    <3>2. CASE g # f
      <4>1. flusher'[g] = flusher[g] /\ Current(g)' = Current(g)
        BY <2>2, <3>2 DEF Current
      <4>2. Current(g) \in Buffer /\ Current(g) # b
        BY <1>3, <2>4, <4>1 DEF Owns
      <4> QED
        BY <2>3, <4>1, <4>2 DEF Exclusive, PayloadStable
    <3> QED
      BY <3>1, <3>2
  <2> QED
    BY <2>7, <2>8, <2>9, <2>10 DEF Exclusive
<1>7. CASE ClearBuffer(f)
  <2> DEFINE b == Current(f)
  <2>1. b \in Buffer /\ monitor[b] = NoThread /\ Owns(f, b)
    BY <1>3, <1>7 DEF ClearBuffer, Owns
  <2>2. /\ flusher'[f].pc = "flushed"
        /\ \A g \in Flusher \ {f} :
              /\ flusher'[g].pc = flusher[g].pc
              /\ flusher'[g].todo = flusher[g].todo
              /\ flusher'[g].payload = flusher[g].payload
    <3>1. flusher'[f] = [flusher[f] EXCEPT !.pc = "flushed", !.payload = <<>>]
      BY <1>7 DEF ClearBuffer
    <3>2. ASSUME NEW g \in Flusher \ {f}
          PROVE  \/ flusher'[g] = [flusher[g] EXCEPT !.previous = NoThread]
                 \/ flusher'[g] = [flusher[g] EXCEPT !.previous = flusher[g].previous]
      BY <1>7 DEF ClearBuffer
    <3>3. \A g \in Flusher : flusher[g] \in FlusherFrame
      BY <1>2
    <3> QED
      BY <3>1, <3>2, <3>3 DEF FlusherFrame
  <2>3. /\ ~buffer'[b].locked
        /\ \A c \in Buffer \ {b} : buffer'[c] = buffer[c]
    <3>1. buffer' = [buffer EXCEPT ![b] = Cleared(buffer[b])]
      BY <1>7 DEF ClearBuffer
    <3>2. ASSUME NEW old \in SpanBufferType
          PROVE  ~Cleared(old).locked
      BY DEF Cleared, SpanBufferType
    <3>3. ~Cleared(buffer[b]).locked
      BY <1>2, <2>1, <3>2
    <3> QED
      BY <1>2, <2>1, <3>1, <3>3
  <2>4. \A g \in Flusher \ {f} : ~Owns(g, b)
    BY <2>1 DEF Exclusive, LockHasOneOwner
  <2>5. \A g \in Flusher, c \in Buffer : Owns(g, c)' <=> (g # f /\ c # b /\ Owns(g, c))
    <3> TAKE g \in Flusher, c \in Buffer
    <3>1. CASE g = f
      BY <2>2, <3>1 DEF Owns
    <3>2. CASE g # f
      <4>1. Owns(g, c)' <=> Owns(g, c)
        BY <2>2, <3>2 DEF Owns, Current
      <4> QED
        BY <2>4, <3>2, <4>1
    <3> QED
      BY <3>1, <3>2
  <2>6. MonitorExcludes'
    BY <1>1, <2>1, <2>3 DEF Exclusive, MonitorExcludes
  <2>7. FlusherFree'
    BY <2>2, FlushBuffersFree DEF Exclusive
  <2>8. LockHasOneOwner'
    <3>1. ASSUME NEW c \in Buffer
          PROVE  buffer'[c].locked <=> \E g \in Flusher : Owns(g, c)'
      <4>1. CASE c = b
        BY <2>3, <2>5, <4>1
      <4>2. CASE c # b
        <5>1. buffer'[c].locked <=> \E g \in Flusher : Owns(g, c)
          BY <2>3, <4>2 DEF Exclusive, LockHasOneOwner
        <5>2. ~Owns(f, c)
          BY <2>1, <4>2 DEF Owns
        <5> QED
          BY <2>5, <4>2, <5>1, <5>2
      <4> QED
        BY <4>1, <4>2
    <3>2. ASSUME NEW c \in Buffer, NEW g \in Flusher, NEW h \in Flusher,
                 Owns(g, c)', Owns(h, c)'
          PROVE  g = h
      BY <2>5, <3>2 DEF Exclusive, LockHasOneOwner
    <3> QED
      BY <3>1, <3>2 DEF LockHasOneOwner
  <2>9. PayloadStable'
    <3> SUFFICES ASSUME NEW g \in Flusher, flusher'[g].pc = "sending"
                 PROVE  flusher'[g].payload = buffer'[Current(g)'].traces
      BY DEF PayloadStable
    <3>1. g # f /\ flusher[g].pc = "sending" /\ Current(g)' = Current(g)
          /\ flusher'[g].payload = flusher[g].payload
      BY <2>2 DEF Current
    <3>2. Current(g) \in Buffer /\ Current(g) # b
      BY <1>3, <2>4, <3>1 DEF Owns
    <3> QED
      BY <2>3, <3>1, <3>2 DEF Exclusive, PayloadStable
  <2> QED
    BY <2>6, <2>7, <2>8, <2>9 DEF Exclusive
<1> QED
  BY <1>4, <1>5, <1>6, <1>7 DEF FlushBuffers

LEMMA StartFlushExclusive ==
  ASSUME Typed, Exclusive, NEW f \in Flusher, flusher[f].pc = "idle",
         StartFlush(f), FlusherFree', buffer' = buffer, MonitorExcludes'
  PROVE  Exclusive'
<1>1. /\ flusher'[f].pc = "read"
      /\ \A g \in Flusher \ {f} : flusher'[g] = flusher[g]
  BY DEF StartFlush, Typed, TypeOK, FlusherTypeOK, FlusherFrame
<1>2. \A g \in Flusher, b \in Buffer : Owns(g, b)' <=> Owns(g, b)
  BY <1>1 DEF Owns, Current
<1>3. LockHasOneOwner'
  BY <1>2 DEF Exclusive, LockHasOneOwner
<1>4. PayloadStable'
  BY <1>1 DEF Exclusive, PayloadStable, Current
<1> QED
  BY <1>3, <1>4 DEF Exclusive

LEMMA FlushBuffersTaskLoopExclusive ==
  ASSUME Typed, Exclusive, FlushBuffersTaskLoop
  PROVE  Exclusive'
<1>1. buffer' = buffer /\ monitor' = monitor /\ call' = call /\ close' = close
  BY DEF FlushBuffersTaskLoop, bufferVars
<1>2. flusher \in [Flusher -> FlusherFrame] /\ FlushLoop \in Flusher
      /\ CloseFlush \in Flusher /\ Caller \subseteq Flusher
  BY DEF Typed, TypeOK, FlusherTypeOK, Flusher
<1>3. MonitorExcludes'
  <2>1. ASSUME NEW w \in Writer, writer'[w].pc = "copy"
        PROVE  writer[w].pc = "copy" /\ writer'[w].buffer = writer[w].buffer
    <3>1. writer' = writer \/ writer' = [v \in Writer |-> Outdated(writer[v])]
      BY DEF FlushBuffersTaskLoop, LoopWakes, LoopReplacesForceFlush, LoopRepeats
    <3> QED
      BY <2>1, <3>1, OutdatedFrames DEF Typed, TypeOK
  <2> QED
    BY <1>1, <2>1 DEF Exclusive, MonitorExcludes
<1>4. CASE StartFlush(FlushLoop) /\ loopPc # "flushing" /\ loopPc' = "flushing"
  <2>1. flusher[FlushLoop].pc = "idle"
    BY <1>4 DEF Exclusive, FlusherFree
  <2>2. FlusherFree'
    BY <1>1, <1>2, <1>4, ThreadAssumption DEF Exclusive, FlusherFree, StartFlush
  <2> QED
    BY <1>1, <1>2, <1>3, <1>4, <2>1, <2>2, StartFlushExclusive
<1>5. CASE /\ flusher' = flusher
           /\ loopPc' # "flushing" => flusher[FlushLoop].pc = "idle"
  <2>1. FlusherFree'
    BY <1>1, <1>5 DEF Exclusive, FlusherFree
  <2>2. LockHasOneOwner' /\ PayloadStable'
    BY <1>1, <1>5 DEF Exclusive, LockHasOneOwner, PayloadStable, Owns, Current
  <2> QED
    BY <1>3, <2>1, <2>2 DEF Exclusive
<1>6. CASE LoopWakes
  <2>1. loopPc # "flushing" => flusher[FlushLoop].pc = "idle"
    BY DEF Exclusive, FlusherFree
  <2> QED
    BY <1>4, <1>5, <1>6, <2>1 DEF LoopWakes
<1>7. CASE LoopReplacesForceFlush
  BY <1>4, <1>7 DEF LoopReplacesForceFlush
<1>8. CASE LoopRepeats
  BY <1>5, <1>8 DEF LoopRepeats
<1> QED
  BY <1>6, <1>7, <1>8 DEF FlushBuffersTaskLoop

LEMMA FlushTracesExclusive ==
  ASSUME Typed, Exclusive, NEW c \in Caller, FlushTraces(c)
  PROVE  Exclusive'
<1>1. /\ writer' = writer /\ buffer' = buffer /\ monitor' = monitor
      /\ loopPc' = loopPc /\ close' = close
  BY DEF FlushTraces, bufferVars
<1>2. /\ flusher \in [Flusher -> FlusherFrame] /\ call \in [Caller -> CallFrame]
      /\ FlushLoop \in Flusher /\ CloseFlush \in Flusher /\ Caller \subseteq Flusher
  BY DEF Typed, TypeOK, FlusherTypeOK, OuterTypeOK, Flusher
<1>3. CASE FlushAllBuffers(c)
  <2>1. call[c].pc # "flushing" /\ StartFlush(c)
        /\ call' = [call EXCEPT ![c].pc = "flushing"]
    BY <1>3 DEF FlushAllBuffers
  <2>2. flusher[c].pc = "idle"
    BY <2>1 DEF Exclusive, FlusherFree
  <2>3. FlusherFree'
    BY <1>1, <1>2, <2>1, ThreadAssumption DEF Exclusive, FlusherFree, StartFlush,
                                              CallFrame
  <2>4. MonitorExcludes'
    BY <1>1 DEF Exclusive, MonitorExcludes
  <2> QED
    BY <1>1, <1>2, <2>1, <2>2, <2>3, <2>4, StartFlushExclusive
<1>4. CASE BeginFlushTraces(c) \/ EnqueueWatermark(c) \/ WakeSerializer(c)
  <2>1. flusher' = flusher /\ call[c].pc # "flushing"
        /\ \A d \in Caller \ {c} : call'[d] = call[d]
    BY <1>2, <1>4 DEF BeginFlushTraces, EnqueueWatermark, WakeSerializer
  <2>2. FlusherFree'
    BY <1>1, <2>1 DEF Exclusive, FlusherFree
  <2>3. MonitorExcludes' /\ LockHasOneOwner' /\ PayloadStable'
    BY <1>1, <2>1 DEF Exclusive, MonitorExcludes, LockHasOneOwner, PayloadStable,
                      Owns, Current
  <2> QED
    BY <2>2, <2>3 DEF Exclusive
<1> QED
  BY <1>3, <1>4 DEF FlushTraces

LEMMA FlushAndCloseExclusive ==
  ASSUME Typed, Exclusive, FlushAndClose
  PROVE  Exclusive'
<1>1. /\ writer' = writer /\ buffer' = buffer /\ monitor' = monitor
      /\ loopPc' = loopPc /\ call' = call
  BY DEF FlushAndClose, bufferVars
<1>2. /\ flusher \in [Flusher -> FlusherFrame] /\ close \in CloseFrame
      /\ FlushLoop \in Flusher /\ CloseFlush \in Flusher /\ Caller \subseteq Flusher
  BY DEF Typed, TypeOK, FlusherTypeOK, OuterTypeOK, Flusher
<1>3. CASE CloseChecksBuffers /\ StartFlush(CloseFlush)
  <2>1. flusher[CloseFlush].pc = "idle" /\ StartFlush(CloseFlush)
    BY <1>3 DEF CloseChecksBuffers, Exclusive, FlusherFree
  <2>2. FlusherFree'
    <3>1. \A g \in Flusher \ {CloseFlush} : flusher'[g] = flusher[g]
      BY <1>2, <2>1 DEF StartFlush
    <3>2. close'.pc \in {"clean", "forcing"}
      BY <1>2, <1>3 DEF CloseChecksBuffers, CloseGoto, CloseFrame
    <3> QED
      BY <1>1, <1>2, <3>1, <3>2, ThreadAssumption DEF Exclusive, FlusherFree
  <2>4. MonitorExcludes'
    BY <1>1 DEF Exclusive, MonitorExcludes
  <2> QED
    BY <1>1, <1>2, <2>1, <2>2, <2>4, StartFlushExclusive
<1>4. CASE flusher' = flusher
  <2>1. close'.pc \notin {"forcing", "clean", "late"} =>
           close.pc \notin {"forcing", "clean", "late"}
    BY <1>2, <1>4 DEF FlushAndClose, BeginClose, CloseWakesSerializer,
         CloseAwaitsSerialization, CloseAwaitsFlushLoop, CloseChecksBuffers,
         CloseForced, CloseGoto, CloseFrame
  <2>2. FlusherFree'
    BY <1>1, <1>4, <2>1 DEF Exclusive, FlusherFree
  <2>3. MonitorExcludes' /\ LockHasOneOwner' /\ PayloadStable'
    BY <1>1, <1>4 DEF Exclusive, MonitorExcludes, LockHasOneOwner, PayloadStable,
                      Owns, Current
  <2> QED
    BY <2>2, <2>3 DEF Exclusive
<1> QED
  BY <1>3, <1>4 DEF FlushAndClose, BeginClose, CloseWakesSerializer,
     CloseAwaitsSerialization, CloseAwaitsFlushLoop, CloseChecksBuffers, CloseForced

LEMMA StutterExclusive ==
  ASSUME Exclusive, UNCHANGED vars
  PROVE  Exclusive'
  BY ExclusiveFrame DEF vars, bufferVars

LEMMA ExclusiveInvariant == Spec => [](Typed /\ Exclusive)
<1>1. Typed /\ Exclusive /\ [Next]_vars => (Typed /\ Exclusive)'
  BY TypedStep, WriteTraceExclusive, SerializeTraceExclusive,
     SerializeTracesLoopExclusive, FlushBuffersExclusive,
     FlushBuffersTaskLoopExclusive, FlushTracesExclusive,
     FlushAndCloseExclusive, StutterExclusive DEF Next
<1> QED
  BY InitTyped, InitExclusive, <1>1, PTL DEF Spec

(* A locked buffer is owned by exactly one flush: the early return of      *)
(* InternalBufferFlush when Lock fails keeps two flushes from sending or   *)
(* clearing the same buffer, however many callers flush at once.           *)
THEOREM OneOwner == Spec => []LockHasOneOwner
<1>1. Typed /\ Exclusive => LockHasOneOwner
  BY DEF Exclusive
<1> QED
  BY ExclusiveInvariant, <1>1, PTL

(* The array handed to SendTracesAsync does not change until the send is   *)
(* over, so a retry sends the same traces and TraceCount counts them.      *)
THEOREM PayloadUntouched == Spec => []PayloadStable
<1>1. Typed /\ Exclusive => PayloadStable
  BY DEF Exclusive
<1> QED
  BY ExclusiveInvariant, <1>1, PTL

-----------------------------------------------------------------------------
(* Wake-ups.                                                               *)

LEMMA InitAwake == Init => Awake
  BY DEF Init, Awake, SerializerDrains, AboutToWait, IdleWriter, Writer

(* A step that leaves the wait, the queue and every waker alone.           *)
LEMMA AwakeFrame ==
  ASSUME Awake, UNCHANGED <<loopVars, queueVars, processExit>>,
         writer'[Serializer].pc # "idle" =>
            writer[Serializer].pc # "idle" /\ writer'[Serializer].pc \in WritingPc,
         Waker => Waker', close.pc = "wake" => close'.pc = "wake"
  PROVE  Awake'
  BY DEF Awake, SerializerDrains, AboutToWait, loopVars, queueVars

LEMMA WriteTraceAwake ==
  ASSUME Typed, Awake, NEW p \in Producer, WriteTrace(p)
  PROVE  Awake'
<1>1. /\ UNCHANGED <<loopVars, processExit>> /\ close' = close /\ call' = call
      /\ serializer' = serializer /\ hasDequeuedTraces' = hasDequeuedTraces
  BY DEF WriteTrace, loopVars
<1>2. writer \in [Writer -> WriterFrame] /\ p \in Writer /\ p # Serializer
  BY ThreadAssumption DEF Typed, TypeOK, WriterTypeOK, Writer
<1>3. \A v \in Writer \ {p} : writer'[v] = writer[v]
  <2>1. CASE BeginWriteTrace(p)
    BY <1>2, <2>1 DEF BeginWriteTrace
  <2>2. CASE EnqueueTrace(p) \/ CheckMutex(p) \/ SetMutex(p)
    BY <1>2, <2>2 DEF EnqueueTrace, CheckMutex, SetMutex, Goto, Finish
  <2> QED
    BY <2>1, <2>2 DEF WriteTrace
<1>4. SerializerDrains'
  BY <1>1, <1>2, <1>3 DEF Awake, SerializerDrains, Writer
<1>5. (serializer' = "wait" /\ ~serializationMutex' /\ processExit') =>
         close'.pc = "wake"
  <2>1. serializationMutex => serializationMutex'
    BY DEF WriteTrace, BeginWriteTrace, EnqueueTrace, CheckMutex, SetMutex, queueVars
  <2> QED
    BY <1>1, <2>1 DEF Awake
<1>6. (AboutToWait' /\ ~serializationMutex' /\ pendingTraces' # <<>>) => Waker'
  <2>1. CASE BeginWriteTrace(p)
    <3>1. UNCHANGED queueVars /\ writer[p].pc = "idle"
      BY <2>1 DEF BeginWriteTrace
    <3>2. Waker => Waker'
      BY <1>1, <1>3, <3>1 DEF Waker, Writer
    <3> QED
      BY <1>1, <3>1, <3>2 DEF Awake, AboutToWait, queueVars
  <2>2. CASE EnqueueTrace(p)
    <3>1. writer'[p].pc = "signal"
      BY <1>2, <2>2 DEF EnqueueTrace, IdleWriter
    <3> QED
      BY <3>1 DEF Waker
  <2>3. CASE CheckMutex(p)
    <3>1. UNCHANGED queueVars /\ (serializationMutex \/ Goto(p, "set"))
      BY <2>3 DEF CheckMutex
    <3>2. CASE serializationMutex
      BY <3>1, <3>2 DEF queueVars
    <3>3. CASE Goto(p, "set")
      <4>1. writer'[p].pc = "set"
        BY <1>2, <3>3 DEF Goto, WriterFrame
      <4> QED
        BY <4>1 DEF Waker
    <3> QED
      BY <3>1, <3>2, <3>3
  <2>4. CASE SetMutex(p)
    BY <2>4 DEF SetMutex
  <2> QED
    BY <2>1, <2>2, <2>3, <2>4 DEF WriteTrace
<1> QED
  BY <1>4, <1>5, <1>6 DEF Awake

LEMMA SerializeTraceAwake ==
  ASSUME Typed, Awake, NEW w \in Writer, SerializeTrace(w)
  PROVE  Awake'
<1>1. /\ UNCHANGED <<queueVars, processExit>> /\ close' = close /\ call' = call
      /\ hasDequeuedTraces' = hasDequeuedTraces
  BY DEF SerializeTrace
<1>2. /\ writer \in [Writer -> WriterFrame] /\ Serializer \in Writer
      /\ Producer \subseteq Writer
  BY DEF Typed, TypeOK, WriterTypeOK, Writer
<1>3. writer[w].pc \in WritingPc
  BY DEF SerializeTrace, TryEnterFails, SerializeToTemporary, SerializeThrows,
         CopyToBuffer, SwapBuffers, PublishSwap, RequestFlush, CompleteRequest, DropTrace, WritingPc
<1>4. /\ \A v \in Writer \ {w} : writer'[v] = writer[v]
      /\ writer'[w].pc \in WritingPc \cup {"idle"}
  BY <1>2 DEF SerializeTrace, TryEnterFails, SerializeToTemporary, SerializeThrows,
         CopyToBuffer, SwapBuffers, PublishSwap, RequestFlush, CompleteRequest, DropTrace, Goto,
         Finish, Refused, IdleWriter, WriterFrame, WritingPc
<1>5. Waker => Waker'
  BY <1>1, <1>2, <1>3, <1>4 DEF Waker, WritingPc
<1>6. CASE serializer' = serializer
  <2>1. writer'[Serializer].pc # "idle" =>
           writer[Serializer].pc # "idle" /\ writer'[Serializer].pc \in WritingPc
    <3>1. CASE w = Serializer
      BY <1>3, <1>4, <3>1 DEF WritingPc
    <3>2. CASE w # Serializer
      BY <1>2, <1>4, <3>2 DEF Awake, SerializerDrains
    <3> QED
      BY <3>1, <3>2
  <2> QED
    BY <1>1, <1>5, <1>6, <2>1, AwakeFrame DEF loopVars
<1>7. CASE serializer' # serializer
  <2>1. SerializeThrows(w) /\ w = Serializer /\ serializer' = "exitCheck"
        /\ writer'[w] = IdleWriter
    BY <1>2, <1>7 DEF SerializeTrace, TryEnterFails, SerializeToTemporary,
         SerializeThrows, CopyToBuffer, SwapBuffers, PublishSwap, RequestFlush,
         CompleteRequest, DropTrace, Finish
  <2>2. hasDequeuedTraces'
    BY <1>1, <1>3, <2>1 DEF Awake, SerializerDrains, WritingPc
  <2> QED
    BY <2>1, <2>2 DEF Awake, SerializerDrains, AboutToWait, IdleWriter
<1> QED
  BY <1>6, <1>7

LEMMA SerializeTracesLoopAwake ==
  ASSUME Typed, Awake, SerializeTracesLoop
  PROVE  Awake'
<1>1. processExit' = processExit /\ close' = close
  BY DEF SerializeTracesLoop
<1>2. /\ writer \in [Writer -> WriterFrame] /\ Serializer \in Writer
      /\ Producer \subseteq Writer /\ Serializer \notin Producer
      /\ call \in [Caller -> CallFrame]
  BY ThreadAssumption DEF Typed, TypeOK, WriterTypeOK, OuterTypeOK, Writer
<1>3. CASE DequeueTrace
  <2>1. /\ serializer' = "drain" /\ hasDequeuedTraces'
        /\ writer'[Serializer].pc = "try"
    BY <1>2, <1>3 DEF DequeueTrace, Draining, Attempt
  <2> QED
    BY <2>1 DEF Awake, SerializerDrains, AboutToWait, WritingPc
<1>4. CASE DequeueWatermark
  <2>1. serializer' = "drain" /\ writer'[Serializer].pc = "idle"
    BY <1>4 DEF DequeueWatermark, Draining, loopVars
  <2> QED
    BY <2>1 DEF Awake, SerializerDrains, AboutToWait
<1>5. CASE QueueDrained
  <2>1. serializer' = "exitCheck" /\ pendingTraces' = <<>>
        /\ writer'[Serializer].pc = "idle"
    BY <1>5 DEF QueueDrained, Draining, queueVars
  <2> QED
    BY <2>1 DEF Awake, SerializerDrains
<1>6. CASE ExitCheck
  <2>1. /\ serializer = "exitCheck" /\ UNCHANGED queueVars
        /\ writer' = writer /\ call' = call
        /\ serializer' = "wait" => ~processExit /\ ~hasDequeuedTraces
        /\ serializer' # "exitCheck"
    BY <1>6 DEF ExitCheck
  <2>2. writer[Serializer].pc = "idle"
    BY <2>1 DEF Awake, SerializerDrains
  <2>3. Waker' <=> Waker
    BY <1>1, <2>1 DEF Waker
  <2> QED
    BY <1>1, <2>1, <2>2, <2>3 DEF Awake, SerializerDrains, AboutToWait, queueVars
<1>7. CASE SleepBatch \/ WaitMutex \/ ResetMutex
  <2>1. /\ serializer' \in {"drain", "reset"} /\ writer' = writer
        /\ serializer \in {"sleep", "wait", "reset"}
    BY <1>7 DEF SleepBatch, WaitMutex, ResetMutex
  <2> QED
    BY <2>1 DEF Awake, SerializerDrains, AboutToWait
<1> QED
  BY <1>3, <1>4, <1>5, <1>6, <1>7 DEF SerializeTracesLoop

LEMMA FlushTracesAwake ==
  ASSUME Typed, Awake, NEW c \in Caller, FlushTraces(c)
  PROVE  Awake'
<1>1. /\ UNCHANGED <<loopVars, processExit>> /\ close' = close /\ writer' = writer
      /\ serializer' = serializer /\ hasDequeuedTraces' = hasDequeuedTraces
  BY DEF FlushTraces, loopVars
<1>2. call \in [Caller -> CallFrame]
  BY DEF Typed, TypeOK, OuterTypeOK
<1>3. CASE BeginFlushTraces(c) \/ FlushAllBuffers(c)
  <2>1. UNCHANGED queueVars /\ call[c].pc # "wake"
        /\ \A d \in Caller \ {c} : call'[d] = call[d]
    BY <1>2, <1>3 DEF BeginFlushTraces, FlushAllBuffers
  <2>2. Waker => Waker'
    BY <1>1, <2>1 DEF Waker
  <2> QED
    BY <1>1, <2>1, <2>2 DEF Awake, SerializerDrains, AboutToWait, queueVars
<1>4. CASE EnqueueWatermark(c)
  <2>1. serializationMutex' = serializationMutex /\ call'[c].pc = "wake"
    BY <1>2, <1>4 DEF EnqueueWatermark, CallFrame
  <2> QED
    BY <1>1, <2>1 DEF Awake, SerializerDrains, Waker
<1>5. CASE WakeSerializer(c)
  <2>1. serializationMutex'
    BY <1>5 DEF WakeSerializer
  <2> QED
    BY <1>1, <2>1 DEF Awake, SerializerDrains
<1> QED
  BY <1>3, <1>4, <1>5 DEF FlushTraces

LEMMA FlushAndCloseAwake ==
  ASSUME Typed, Awake, FlushAndClose
  PROVE  Awake'
<1>1. /\ writer' = writer /\ call' = call /\ pendingTraces' = pendingTraces
      /\ serializer' = serializer /\ hasDequeuedTraces' = hasDequeuedTraces
  BY DEF FlushAndClose, loopVars
<1>2. SerializerDrains'
  BY <1>1 DEF Awake, SerializerDrains
<1>3. CASE BeginClose
  <2>1. close'.pc = "wake"
    BY <1>3 DEF BeginClose
  <2> QED
    BY <1>2, <2>1 DEF Awake, Waker
<1>4. CASE CloseWakesSerializer
  <2>1. serializationMutex'
    BY <1>4 DEF CloseWakesSerializer
  <2> QED
    BY <1>2, <2>1 DEF Awake
<1>5. CASE \/ CloseAwaitsSerialization \/ CloseAwaitsFlushLoop
           \/ CloseChecksBuffers \/ CloseForced
  <2>1. /\ serializationMutex' = serializationMutex /\ processExit' = processExit
        /\ close.pc # "wake"
    BY <1>5 DEF CloseAwaitsSerialization, CloseAwaitsFlushLoop, CloseChecksBuffers,
                CloseForced
  <2>2. Waker => Waker'
    BY <1>1, <2>1 DEF Waker
  <2> QED
    BY <1>1, <1>2, <2>1, <2>2 DEF Awake, AboutToWait
<1> QED
  BY <1>3, <1>4, <1>5 DEF FlushAndClose

LEMMA FlushBuffersTaskLoopAwake ==
  ASSUME Typed, Awake, FlushBuffersTaskLoop
  PROVE  Awake'
<1>1. /\ UNCHANGED <<loopVars, queueVars, processExit>>
      /\ call' = call /\ close' = close
  BY DEF FlushBuffersTaskLoop
<1>2. ASSUME NEW w \in Writer
      PROVE  \/ writer'[w] = writer[w]
             \/ writer[w].pc = "complete" /\ writer'[w].pc = "stale"
  <2>1. writer' = writer \/ writer' = [v \in Writer |-> Outdated(writer[v])]
    BY DEF FlushBuffersTaskLoop, LoopWakes, LoopReplacesForceFlush, LoopRepeats
  <2> QED
    BY <2>1, OutdatedFrames DEF Typed, TypeOK
<1>3. Waker => Waker'
  BY <1>1, <1>2 DEF Waker, Writer
<1>4. writer'[Serializer].pc # "idle" =>
         writer[Serializer].pc # "idle" /\ writer'[Serializer].pc \in WritingPc
  BY <1>2 DEF Awake, SerializerDrains, WritingPc, Writer
<1> QED
  BY <1>1, <1>3, <1>4, AwakeFrame DEF loopVars

LEMMA OtherStepsAwake ==
  ASSUME Awake, (\E f \in Flusher : FlushBuffers(f)) \/ UNCHANGED vars
  PROVE  Awake'
<1>1. /\ UNCHANGED <<loopVars, queueVars, processExit>> /\ writer' = writer
      /\ call' = call /\ close' = close
  BY DEF FlushBuffers, vars
<1>2. Waker => Waker'
  BY <1>1 DEF Waker
<1> QED
  BY <1>1, <1>2, AwakeFrame DEF Awake, SerializerDrains

(* The serialization thread never waits on the mutex beside a non-empty    *)
(* queue, or a requested exit, with nobody about to set it: the IsSet test *)
(* of WriteTrace and the Wait and Reset of SerializeTracesLoop lose no     *)
(* wake-up, whatever the number of application threads.                    *)
THEOREM WakeupKept == Spec => []NoLostWakeup
<1>1. Typed /\ Awake /\ [Next]_vars => (Typed /\ Awake)'
  BY TypedStep, WriteTraceAwake, SerializeTraceAwake, SerializeTracesLoopAwake,
     FlushTracesAwake, FlushAndCloseAwake, FlushBuffersTaskLoopAwake,
     OtherStepsAwake DEF Next
<1>2. Awake => NoLostWakeup
  BY DEF Awake, AboutToWait, Waker, NoLostWakeup
<1> QED
  BY InitTyped, InitAwake, <1>1, <1>2, PTL DEF Spec

-----------------------------------------------------------------------------
(* The full mark.                                                          *)

(* Every operation of a buffer keeps the mark truthful: a write can only   *)
(* take room away.                                                         *)
LEMMA MarkTruthful ==
  ASSUME NEW old \in SpanBufferType, NEW t \in Trace, NEW content,
         old.full => \E u \in Trace : ~HasRoom(old, Size[u])
  PROVE  /\ \A new \in {WithContent(old, content, Size[t]), Locked(old), Cleared(old)} :
               new.full => \E u \in Trace : ~HasRoom(new, Size[u])
         /\ ~HasRoom(old, Size[t]) =>
               \E u \in Trace : ~HasRoom(MarkFull(old), Size[u])
<1>1. /\ old.offset \in Int /\ MaxSize \in Int
      /\ \A u \in Trace : Size[u] \in Nat
  BY SizeAssumption DEF SpanBufferType
<1>2. DEFINE more == WithContent(old, content, Size[t])
<1>3. more.full = old.full /\ more.offset = old.offset + Size[t]
  BY DEF WithContent, SpanBufferType
<1>4. more.full => \E u \in Trace : ~HasRoom(more, Size[u])
  <2> HIDE DEF more
  <2> QED
    BY <1>1, <1>3 DEF HasRoom
<1>5. Locked(old).full = old.full /\ Locked(old).offset = old.offset
  BY DEF Locked, SpanBufferType
<1>6. ~Cleared(old).full
  BY DEF Cleared, SpanBufferType
<1>7. MarkFull(old).offset = old.offset
  BY DEF MarkFull, SpanBufferType
<1> QED
  BY <1>4, <1>5, <1>6, <1>7 DEF HasRoom

LEMMA FullStep == Typed /\ FullMeansNoRoom /\ [Next]_vars => FullMeansNoRoom'
<1> SUFFICES ASSUME Typed, FullMeansNoRoom, [Next]_vars
             PROVE  FullMeansNoRoom'
  OBVIOUS
<1>1. buffer \in [Buffer -> SpanBufferType] /\ writer \in [Writer -> WriterFrame]
  BY DEF Typed, TypeOK, BufferTypeOK, WriterTypeOK
<1>2. CASE buffer' = buffer
  BY <1>2 DEF FullMeansNoRoom, HasRoom
<1>3. ASSUME NEW w \in Writer, CopyToBuffer(w)
      PROVE  FullMeansNoRoom'
  <2> DEFINE b == writer[w].buffer
             t == writer[w].trace
             new == IF HasRoom(buffer[b], Size[t])
                    THEN WithContent(buffer[b], temporaryBuffer, Size[t])
                    ELSE MarkFull(buffer[b])
  <2>1. b \in Buffer /\ t \in Trace /\ buffer' = [buffer EXCEPT ![b] = new]
    BY <1>1, <1>3 DEF CopyToBuffer, Typed, WriterFramesOK, WritingPc, WriterFrame
  <2>2. new.full => \E u \in Trace : ~HasRoom(new, Size[u])
    BY <1>1, <2>1, MarkTruthful DEF FullMeansNoRoom
  <2> HIDE DEF b, t, new
  <2> QED
    BY <1>1, <2>1, <2>2 DEF FullMeansNoRoom, HasRoom
<1>4. ASSUME NEW f \in Flusher, LockBuffer(f) \/ ClearBuffer(f)
      PROVE  FullMeansNoRoom'
  <2> DEFINE b == Current(f)
  <2>1. b \in Buffer
    BY <1>4 DEF LockBuffer, ClearBuffer, Typed, TypeOK, FlusherTypeOK,
                FlusherFramesOK, FlusherFrame, Current
  <2>2. PICK new \in {Locked(buffer[b]), Cleared(buffer[b])} :
           buffer' = [buffer EXCEPT ![b] = new]
    BY <1>4 DEF LockBuffer, ClearBuffer
  <2>3. new.full => \E u \in Trace : ~HasRoom(new, Size[u])
    <3>1. CASE Trace # {}
      BY <1>1, <2>1, <3>1, MarkTruthful DEF FullMeansNoRoom
    <3>2. CASE Trace = {}
      <4>1. ~buffer[b].full
        BY <2>1, <3>2 DEF FullMeansNoRoom
      <4>2. ASSUME NEW old \in SpanBufferType, ~old.full
            PROVE  ~Locked(old).full /\ ~Cleared(old).full
        BY <4>2 DEF Locked, Cleared, SpanBufferType
      <4> QED
        BY <1>1, <2>1, <4>1, <4>2
    <3> QED
      BY <3>1, <3>2
  <2> HIDE DEF b
  <2> QED
    BY <1>1, <2>1, <2>2, <2>3 DEF FullMeansNoRoom, HasRoom
<1>5. \/ buffer' = buffer
      \/ \E w \in Writer : CopyToBuffer(w)
      \/ \E f \in Flusher : LockBuffer(f) \/ ClearBuffer(f)
  <2>1. ASSUME NEW w \in Writer, SerializeTrace(w)
        PROVE  buffer' = buffer \/ CopyToBuffer(w)
    BY <2>1 DEF SerializeTrace, TryEnterFails, SerializeToTemporary, SerializeThrows,
                SwapBuffers, PublishSwap, RequestFlush, CompleteRequest, DropTrace, bufferVars
  <2>2. ASSUME NEW f \in Flusher, FlushBuffers(f)
        PROVE  buffer' = buffer \/ LockBuffer(f) \/ ClearBuffer(f)
    BY <2>2 DEF FlushBuffers, ReadActiveBuffer, ChooseBuffers, ReadFlushTask,
                LockFails, StoreFlushTask, SendSucceeds, SendFails, NextBuffer
  <2> QED
    BY <2>1, <2>2 DEF Next, WriteTrace, SerializeTracesLoop, FlushBuffersTaskLoop,
                      FlushTraces, FlushAndClose, vars, bufferVars
<1> QED
  BY <1>2, <1>3, <1>4, <1>5

(* A buffer is marked full only while some trace does not fit in it, for   *)
(* every set of trace sizes: IsFull is never left behind by a flush.       *)
THEOREM FullMarkTruthful == Spec => []FullMeansNoRoom
<1>1. Init => FullMeansNoRoom
  BY DEF Init, FullMeansNoRoom, EmptyBuffer
<1> QED
  BY InitTyped, TypedStep, FullStep, <1>1, PTL DEF Spec

-----------------------------------------------------------------------------
(* No trace is lost or doubled on its way from WriteTrace to the agent,    *)
(* and the keep-rate calculator hears of each exactly once.                *)
(*                                                                         *)
(* What the earlier invariants say together.                               *)

LEMMA BaseStep == Base /\ [Next]_vars => Base'
  BY TypedStep, WriteTraceExclusive, SerializeTraceExclusive,
     SerializeTracesLoopExclusive, FlushBuffersExclusive,
     FlushBuffersTaskLoopExclusive, FlushTracesExclusive,
     FlushAndCloseExclusive, StutterExclusive, WriteTraceAwake,
     SerializeTraceAwake, SerializeTracesLoopAwake, FlushTracesAwake,
     FlushAndCloseAwake, FlushBuffersTaskLoopAwake, OtherStepsAwake
     DEF Next, Base

LEMMA InitBase == Init => Base
  BY InitTyped, InitExclusive, InitAwake DEF Base

-----------------------------------------------------------------------------
(* Who is in SerializeTrace.                                               *)

(* How a step of SerializeTrace moves its thread: it stays in hand of its  *)
(* trace, or the call is over.                                             *)
LEMMA SerializeTraceFrame ==
  ASSUME Typed, NEW w \in Writer, SerializeTrace(w)
  PROVE  /\ writer[w].pc \in WritingPc
         /\ \A v \in Writer \ {w} : writer'[v] = writer[v]
         /\ \/ writer'[w] = IdleWriter
            \/ writer'[w].pc \in WritingPc /\ writer'[w].trace = writer[w].trace
<1>1. writer \in [Writer -> WriterFrame]
  BY DEF Typed, TypeOK, WriterTypeOK
<1>2. writer[w].pc \in WritingPc
  BY DEF SerializeTrace, TryEnterFails, SerializeToTemporary, SerializeThrows,
         CopyToBuffer, SwapBuffers, PublishSwap, RequestFlush, CompleteRequest,
         DropTrace, WritingPc
<1>3. \/ Finish(w)
      \/ \E pc \in WritingPc : Goto(w, pc)
      \/ \E b \in Buffer, pc \in WritingPc :
            writer' = [writer EXCEPT ![w].pc = pc, ![w].buffer = b]
      \/ \E pc \in WritingPc :
            writer' = [writer EXCEPT ![w].pc = pc, ![w].retry = TRUE]
  <2>1. {"try", "copy", "swap", "publish", "request", "complete", "drop"}
           \subseteq WritingPc
    BY DEF WritingPc
  <2>2. activeBuffer \in Buffer /\ Other(activeBuffer) \in Buffer
    BY DEF Typed, TypeOK, SwapTypeOK, Other, Buffer
  <2>3. CASE TryEnterFails(w) \/ CopyToBuffer(w)
    BY <2>1, <2>3 DEF TryEnterFails, CopyToBuffer, Refused
  <2>4. CASE \/ SerializeToTemporary(w) \/ SerializeThrows(w)
             \/ PublishSwap(w) \/ DropTrace(w)
    BY <2>1, <2>4 DEF SerializeToTemporary, SerializeThrows, PublishSwap, DropTrace
  <2>5. CASE SwapBuffers(w)
    BY <2>1, <2>2, <2>5 DEF SwapBuffers
  <2>6. CASE RequestFlush(w)
    BY <2>1, <2>2, <2>6 DEF RequestFlush
  <2>7. CASE CompleteRequest(w)
    BY <2>1, <2>7 DEF CompleteRequest
  <2> QED
    BY <2>3, <2>4, <2>5, <2>6, <2>7 DEF SerializeTrace
<1> QED
  BY <1>1, <1>2, <1>3 DEF Finish, Goto, WriterFrame

LEMMA InitOrderly == Init => Orderly
  BY DEF Init, Orderly, HandsEmpty, TurnsTaken, MonitorHeld, IdleWriter, WritingPc,
         Writer

LEMMA WriteTraceFrame ==
  ASSUME Typed, NEW p \in Producer, WriteTrace(p)
  PROVE  /\ p \in Writer /\ p # Serializer
         /\ writer[p].pc \notin WritingPc
         /\ \A v \in Writer \ {p} : writer'[v] = writer[v]
<1>1. p \in Writer /\ p # Serializer /\ writer \in [Writer -> WriterFrame]
  BY ThreadAssumption DEF Writer, Typed, TypeOK, WriterTypeOK
<1>2. CASE BeginWriteTrace(p)
  BY <1>1, <1>2 DEF BeginWriteTrace, WritingPc
<1>3. CASE EnqueueTrace(p) \/ CheckMutex(p) \/ SetMutex(p)
  BY <1>1, <1>3 DEF EnqueueTrace, CheckMutex, SetMutex, Goto, Finish, WritingPc
<1> QED
  BY <1>1, <1>2, <1>3 DEF WriteTrace

LEMMA WriteTraceOrderly ==
  ASSUME Base, Orderly, NEW p \in Producer, WriteTrace(p)
  PROVE  Orderly'
<1>1. /\ serializer' = serializer /\ monitor' = monitor
      /\ writer \in [Writer -> WriterFrame]
      /\ monitor \in [Buffer -> Writer \cup {NoThread}]
      /\ NoThread \notin Writer
  BY ThreadAssumption DEF WriteTrace, loopVars, bufferVars, Base, Typed, TypeOK,
     WriterTypeOK, BufferTypeOK
<1>2. /\ p \in Writer /\ p # Serializer
      /\ writer[p].pc \notin WritingPc
      /\ \A v \in Writer \ {p} : writer'[v] = writer[v]
  BY WriteTraceFrame DEF Base
<1>3. /\ writer'[p].pc \notin WritingPc \cup {"enqueue"} => writer'[p].trace = NoTrace
      /\ writer'[p].pc \in WritingPc => SerializationCompleted
  <2>1. CASE BeginWriteTrace(p)
    <3>1. PICK t \in fresh : writer' = [writer EXCEPT ![p] =
             IF SerializationCompleted THEN Attempt(t)
             ELSE [IdleWriter EXCEPT !.pc = "enqueue", !.trace = t]]
      BY <2>1 DEF BeginWriteTrace
    <3> QED
      BY <1>1, <1>2, <3>1 DEF Attempt, IdleWriter, WritingPc
  <2>2. CASE EnqueueTrace(p)
    BY <1>1, <1>2, <2>2 DEF EnqueueTrace, IdleWriter, WritingPc
  <2>3. CASE CheckMutex(p)
    <3>1. writer[p].trace = NoTrace
      BY <1>2, <2>3 DEF CheckMutex, Orderly, HandsEmpty, WritingPc
    <3> QED
      BY <1>1, <1>2, <2>3, <3>1 DEF CheckMutex, Goto, Finish, IdleWriter, WritingPc,
                                    WriterFrame
  <2>4. CASE SetMutex(p)
    BY <1>1, <1>2, <2>4 DEF SetMutex, Finish, IdleWriter, WritingPc
  <2> QED
    BY <2>1, <2>2, <2>3, <2>4 DEF WriteTrace
<1>4. HandsEmpty'
  BY <1>2, <1>3 DEF Orderly, HandsEmpty
<1>5. TurnsTaken'
  BY <1>1, <1>2, <1>3 DEF Orderly, TurnsTaken, SerializationCompleted, Writer
<1>6. MonitorHeld'
  BY <1>1, <1>2 DEF Orderly, MonitorHeld, WritingPc
<1> QED
  BY <1>4, <1>5, <1>6 DEF Orderly

LEMMA SerializeTraceOrderly ==
  ASSUME Base, Orderly, NEW w \in Writer, SerializeTrace(w)
  PROVE  Orderly'
<1>1. /\ writer \in [Writer -> WriterFrame]
      /\ buffer \in [Buffer -> SpanBufferType]
      /\ monitor \in [Buffer -> Writer \cup {NoThread}]
      /\ NoThread \notin Writer
  BY ThreadAssumption DEF Base, Typed, TypeOK, WriterTypeOK, BufferTypeOK
<1>2. /\ writer[w].pc \in WritingPc
      /\ \A v \in Writer \ {w} : writer'[v] = writer[v]
      /\ \/ writer'[w] = IdleWriter
         \/ writer'[w].pc \in WritingPc /\ writer'[w].trace = writer[w].trace
  BY SerializeTraceFrame DEF Base
<1>3. HandsEmpty'
  BY <1>2 DEF Orderly, HandsEmpty, IdleWriter
<1>4. TurnsTaken'
  <2>1. serializer' # "exited" => serializer # "exited"
    BY DEF SerializeTrace, TryEnterFails, SerializeToTemporary, SerializeThrows,
           CopyToBuffer, SwapBuffers, PublishSwap, RequestFlush, CompleteRequest,
           DropTrace, Base, Awake, SerializerDrains, WritingPc
  <2> QED
    BY <1>2, <2>1 DEF Orderly, TurnsTaken, SerializationCompleted, Writer, IdleWriter,
                      WritingPc
<1>5. MonitorHeld'
  <2>1. CASE SerializeToTemporary(w)
    <3>1. /\ monitor' = [monitor EXCEPT ![writer[w].buffer] = w]
          /\ monitor[writer[w].buffer] = NoThread /\ writer[w].buffer \in Buffer
          /\ writer'[w].pc = "copy" /\ writer'[w].buffer = writer[w].buffer
          /\ writer[w].pc = "try"
      BY <1>1, <2>1 DEF SerializeToTemporary, CanEnter, Goto, WriterFrame
    <3> QED
      BY <1>1, <1>2, <3>1 DEF Orderly, MonitorHeld
  <2>2. CASE CopyToBuffer(w)
    <3>1. /\ monitor' = [monitor EXCEPT ![writer[w].buffer] = NoThread]
          /\ writer[w].buffer \in Buffer
      BY <1>1, <2>2 DEF CopyToBuffer, WriterFrame
    <3> QED
      BY <1>1, <1>2, <3>1 DEF Orderly, MonitorHeld
  <2>3. CASE ~SerializeToTemporary(w) /\ ~CopyToBuffer(w)
    <3>1. monitor' = monitor /\ writer[w].pc # "copy"
      BY <2>3 DEF SerializeTrace, TryEnterFails, SerializeThrows, SwapBuffers,
             PublishSwap, RequestFlush, CompleteRequest, DropTrace, bufferVars
    <3> QED
      BY <1>1, <1>2, <3>1 DEF Orderly, MonitorHeld
  <2> QED
    BY <2>1, <2>2, <2>3
<1> QED
  BY <1>3, <1>4, <1>5 DEF Orderly

LEMMA SerializeTracesLoopOrderly ==
  ASSUME Base, Orderly, SerializeTracesLoop
  PROVE  Orderly'
<1>1. /\ monitor' = monitor
      /\ writer \in [Writer -> WriterFrame] /\ Serializer \in Writer
      /\ Serializer \notin Producer /\ Producer \subseteq Writer
      /\ monitor \in [Buffer -> Writer \cup {NoThread}] /\ NoThread \notin Writer
  BY ThreadAssumption DEF SerializeTracesLoop, bufferVars, Base, Typed, TypeOK,
     WriterTypeOK, BufferTypeOK, Writer
<1>2. SerializationCompleted => SerializationCompleted'
  BY DEF SerializeTracesLoop, DequeueTrace, DequeueWatermark, QueueDrained, ExitCheck,
         SleepBatch, WaitMutex, ResetMutex, Draining, SerializationCompleted
<1>3. CASE writer' = writer
  BY <1>1, <1>2, <1>3 DEF Orderly, HandsEmpty, TurnsTaken, MonitorHeld
<1>4. CASE DequeueTrace
  <2>1. /\ writer[Serializer].pc = "idle" /\ serializer' = serializer
        /\ \A v \in Writer \ {Serializer} : writer'[v] = writer[v]
        /\ writer'[Serializer].pc = "try"
    BY <1>1, <1>4 DEF DequeueTrace, Draining, Attempt
  <2> QED
    BY <1>1, <2>1 DEF Orderly, HandsEmpty, TurnsTaken, MonitorHeld, WritingPc,
                      SerializationCompleted
<1> QED
  BY <1>3, <1>4 DEF SerializeTracesLoop, DequeueWatermark, QueueDrained, ExitCheck,
     SleepBatch, WaitMutex, ResetMutex

LEMMA FlushBuffersTaskLoopFrame ==
  ASSUME Typed, FlushBuffersTaskLoop
  PROVE  \A w \in Writer :
            /\ writer'[w].trace = writer[w].trace
            /\ writer'[w].buffer = writer[w].buffer
            /\ \/ writer'[w].pc = writer[w].pc
               \/ writer[w].pc = "complete" /\ writer'[w].pc = "stale"
<1>1. writer' = writer \/ writer' = [w \in Writer |-> Outdated(writer[w])]
  BY DEF FlushBuffersTaskLoop, LoopWakes, LoopReplacesForceFlush, LoopRepeats
<1> QED
  BY <1>1, OutdatedFrames DEF Typed, TypeOK

LEMMA FlushBuffersTaskLoopOrderly ==
  ASSUME Base, Orderly, FlushBuffersTaskLoop
  PROVE  Orderly'
<1>1. serializer' = serializer /\ monitor' = monitor
      /\ monitor \in [Buffer -> Writer \cup {NoThread}]
  BY DEF FlushBuffersTaskLoop, loopVars, bufferVars, Base, Typed, TypeOK, BufferTypeOK
<1>2. \A w \in Writer :
            /\ writer'[w].trace = writer[w].trace
            /\ writer'[w].buffer = writer[w].buffer
            /\ \/ writer'[w].pc = writer[w].pc
               \/ writer[w].pc = "complete" /\ writer'[w].pc = "stale"
  BY FlushBuffersTaskLoopFrame DEF Base
<1> QED
  BY <1>1, <1>2 DEF Orderly, HandsEmpty, TurnsTaken, MonitorHeld, WritingPc,
     SerializationCompleted, Writer

(* The threads are left alone by the flushes and the public calls.         *)
LEMMA OtherStepsFrame ==
  ASSUME \/ \E f \in Flusher : FlushBuffers(f)
         \/ \E c \in Caller : FlushTraces(c)
         \/ FlushAndClose \/ UNCHANGED vars
  PROVE  /\ writer' = writer /\ monitor' = monitor /\ serializer' = serializer
         /\ temporaryBuffer' = temporaryBuffer /\ activeBuffer' = activeBuffer
         /\ fresh' = fresh
  BY DEF FlushBuffers, FlushTraces, FlushAndClose, vars, loopVars, bufferVars, swapVars

LEMMA OtherStepsOrderly ==
  ASSUME Orderly,
         \/ \E f \in Flusher : FlushBuffers(f)
         \/ \E c \in Caller : FlushTraces(c)
         \/ FlushAndClose \/ UNCHANGED vars
  PROVE  Orderly'
  BY OtherStepsFrame DEF Orderly, HandsEmpty, TurnsTaken, MonitorHeld,
     SerializationCompleted

LEMMA OrderlyStep == Base /\ Orderly /\ [Next]_vars => Orderly'
  BY WriteTraceOrderly, SerializeTraceOrderly, SerializeTracesLoopOrderly,
     FlushBuffersTaskLoopOrderly, OtherStepsOrderly DEF Next
(* With a single writer at most one thread is in SerializeTrace.           *)
LEMMA OneWriting ==
  ASSUME Base, Orderly, SingleWriter, NEW v \in Writer, NEW w \in Writer,
         writer[v].pc \in WritingPc, writer[w].pc \in WritingPc
  PROVE  v = w
<1>1. CASE ~SerializationCompleted
  BY <1>1 DEF Orderly, TurnsTaken, Writer
<1>2. CASE SerializationCompleted
  <2>1. writer[Serializer].pc \notin WritingPc
    BY <1>2 DEF Base, Awake, SerializerDrains, SerializationCompleted, WritingPc
  <2> QED
    BY <1>2, <2>1 DEF SingleWriter, Writer
<1> QED
  BY <1>1, <1>2

(* The serialization thread ends once and for all.                         *)
LEMMA SingleWriterBefore ==
  ASSUME Base, [Next]_vars
  PROVE  /\ SerializationCompleted => SerializationCompleted'
         /\ SingleWriter' => SingleWriter
<1>1. serializer = "exited" => serializer' = "exited"
  <2>1. ASSUME NEW w \in Writer, SerializeTrace(w), serializer = "exited"
        PROVE  serializer' = "exited"
    BY <2>1 DEF SerializeTrace, TryEnterFails, SerializeToTemporary, SerializeThrows,
           CopyToBuffer, SwapBuffers, PublishSwap, RequestFlush, CompleteRequest,
           DropTrace, Base, Awake, SerializerDrains
  <2>2. SerializeTracesLoop /\ serializer = "exited" => serializer' = "exited"
    BY DEF SerializeTracesLoop, DequeueTrace, DequeueWatermark, QueueDrained,
           ExitCheck, SleepBatch, WaitMutex, ResetMutex, Draining
  <2>3. ASSUME NEW p \in Producer, WriteTrace(p)
        PROVE  serializer' = serializer
    BY <2>3 DEF WriteTrace, loopVars
  <2>4. FlushBuffersTaskLoop => serializer' = serializer
    BY DEF FlushBuffersTaskLoop, loopVars
  <2> QED
    BY <2>1, <2>2, <2>3, <2>4, OtherStepsFrame DEF Next
<1> QED
  BY <1>1 DEF SerializationCompleted, SingleWriter

LEMMA CopiesOwnTraceStep ==
  ASSUME Base, Orderly, SingleWriter, CopiesOwnTrace, [Next]_vars
  PROVE  CopiesOwnTrace'
<1>1. writer \in [Writer -> WriterFrame] /\ Serializer \in Writer
  BY DEF Base, Typed, TypeOK, WriterTypeOK, Writer
<1>2. ASSUME temporaryBuffer' = temporaryBuffer,
             \A w \in Writer : writer'[w].pc = "copy" =>
                writer[w].pc = "copy" /\ writer'[w].trace = writer[w].trace
      PROVE  CopiesOwnTrace'
  BY <1>2 DEF CopiesOwnTrace
<1>3. ASSUME NEW p \in Producer, WriteTrace(p)
      PROVE  CopiesOwnTrace'
  <2>1. writer'[p].pc # "copy"
    <3>1. CASE BeginWriteTrace(p)
      BY <1>1, <3>1, WriteTraceFrame, <1>3 DEF BeginWriteTrace, Attempt, IdleWriter, Base
    <3>2. CASE EnqueueTrace(p) \/ CheckMutex(p) \/ SetMutex(p)
      BY <1>1, <3>2, WriteTraceFrame, <1>3 DEF EnqueueTrace, CheckMutex, SetMutex, Goto,
         Finish, IdleWriter, WriterFrame, Base
    <3> QED
      BY <1>3, <3>1, <3>2 DEF WriteTrace
  <2>2. temporaryBuffer' = temporaryBuffer
    BY <1>3 DEF WriteTrace, bufferVars
  <2> QED
    BY <1>2, <1>3, <2>1, <2>2, WriteTraceFrame DEF Base
<1>4. ASSUME NEW w \in Writer, SerializeTrace(w)
      PROVE  CopiesOwnTrace'
  <2>1. /\ writer[w].pc \in WritingPc
        /\ \A v \in Writer \ {w} : writer'[v] = writer[v]
    BY <1>4, SerializeTraceFrame DEF Base
  <2>2. \A v \in Writer \ {w} : writer[v].pc # "copy"
    BY <2>1, OneWriting DEF WritingPc
  <2>3. writer'[w].pc = "copy" => temporaryBuffer' = writer'[w].trace
    <3>1. CASE SerializeToTemporary(w)
      BY <1>1, <3>1 DEF SerializeToTemporary, Goto, WriterFrame
    <3>2. CASE ~SerializeToTemporary(w)
      BY <1>1, <1>4, <3>2 DEF SerializeTrace, TryEnterFails, SerializeThrows,
         CopyToBuffer, SwapBuffers, PublishSwap, RequestFlush, CompleteRequest,
         DropTrace, Refused, Goto, Finish, IdleWriter, WriterFrame
    <3> QED
      BY <3>1, <3>2
  <2> QED
    BY <2>1, <2>2, <2>3 DEF CopiesOwnTrace
<1>5. CASE SerializeTracesLoop
  <2>1. temporaryBuffer' = temporaryBuffer
    BY <1>5 DEF SerializeTracesLoop, bufferVars
  <2>2. writer' = writer \/ writer' = [writer EXCEPT ![Serializer] = Attempt(Head(pendingTraces))]
    BY <1>5 DEF SerializeTracesLoop, DequeueTrace, DequeueWatermark, QueueDrained,
           ExitCheck, SleepBatch, WaitMutex, ResetMutex
  <2> QED
    BY <1>1, <1>2, <2>1, <2>2 DEF Attempt
<1>6. CASE FlushBuffersTaskLoop
  <2>1. temporaryBuffer' = temporaryBuffer
    BY <1>6 DEF FlushBuffersTaskLoop, bufferVars
  <2> QED
    BY <1>2, <1>6, <2>1, FlushBuffersTaskLoopFrame DEF Base
<1>7. CASE \/ \E f \in Flusher : FlushBuffers(f)
           \/ \E c \in Caller : FlushTraces(c)
           \/ FlushAndClose \/ UNCHANGED vars
  BY <1>2, <1>7, OtherStepsFrame
<1> QED
  BY <1>3, <1>4, <1>5, <1>6, <1>7 DEF Next

-----------------------------------------------------------------------------
(* The places of a trace, one by one.                                      *)

Live(b) == \A f \in Flusher : ~(Owns(f, b) /\ flusher[f].pc = "clear")

Stored(t, b, i) ==
    Live(b) /\ i \in 1..Len(buffer[b].traces) /\ buffer[b].traces[i] = t

Lies(t, kind, i) ==
    \/ kind = "unwritten" /\ i = 1 /\ t \in fresh
    \/ kind = "queue" /\ i \in 1..Len(pendingTraces) /\ pendingTraces[i] = t
    \/ kind = "hand" /\ i \in Writer /\ writer[i].trace = t
    \/ kind \in Buffer /\ Stored(t, kind, i)
    \/ kind = "settled" /\ i = 1 /\ outcome[t] # "pending"

OnlyPlace(t) ==
    /\ \E k, i : Lies(t, k, i)
    /\ \A k, i, l, j : Lies(t, k, i) /\ Lies(t, l, j) => k = l /\ i = j

LEMMA PlacesAre ==
  ASSUME NEW t \in Trace
  PROVE  /\ \A x \in Places(t) : \E k, i : x = <<k, i>> /\ Lies(t, k, i)
         /\ \A k, i : Lies(t, k, i) => <<k, i>> \in Places(t)
<1> DEFINE unwritten == {<<"unwritten", 1>> : x \in fresh \cap {t}}
           queued == {<<"queue", i>> : i \in {j \in 1..Len(pendingTraces) : pendingTraces[j] = t}}
           held == {<<"hand", w>> : w \in {v \in Writer : writer[v].trace = t}}
           live == {c \in Buffer : \A f \in Flusher : ~(Owns(f, c) /\ flusher[f].pc = "clear")}
           stored == UNION {{<<b, i>> : i \in {j \in 1..Len(buffer[b].traces) :
                                buffer[b].traces[j] = t}} : b \in live}
           settled == {<<"settled", 1>> : x \in {t} \ {u \in {t} : outcome[u] = "pending"}}
<1>1. Places(t) = unwritten \cup queued \cup held \cup stored \cup settled
  BY DEF Places
<1>2. \A x : x \in unwritten <=> t \in fresh /\ x = <<"unwritten", 1>>
  OBVIOUS
<1>3. \A x : x \in queued <=> \E i \in 1..Len(pendingTraces) :
                pendingTraces[i] = t /\ x = <<"queue", i>>
  OBVIOUS
<1>4. \A x : x \in held <=> \E w \in Writer : writer[w].trace = t /\ x = <<"hand", w>>
  OBVIOUS
<1>5. \A x : x \in stored <=> \E b \in Buffer :
                \E i \in 1..Len(buffer[b].traces) : Stored(t, b, i) /\ x = <<b, i>>
  <2>1. \A b : b \in live <=> b \in Buffer /\ Live(b)
    BY DEF Live
  <2> HIDE DEF live
  <2> QED
    BY <2>1 DEF Stored
<1>6. \A x : x \in settled <=> outcome[t] # "pending" /\ x = <<"settled", 1>>
  OBVIOUS
<1> HIDE DEF unwritten, queued, held, live, stored, settled
<1>7. ASSUME NEW x \in Places(t)
      PROVE  \E k, i : x = <<k, i>> /\ Lies(t, k, i)
  <2>1. CASE x \in unwritten
    BY <1>2, <2>1 DEF Lies
  <2>2. CASE x \in queued
    BY <1>3, <2>2 DEF Lies
  <2>3. CASE x \in held
    BY <1>4, <2>3 DEF Lies
  <2>4. CASE x \in stored
    BY <1>5, <2>4 DEF Lies, Stored
  <2>5. CASE x \in settled
    BY <1>6, <2>5 DEF Lies
  <2> QED
    BY <1>1, <1>7, <2>1, <2>2, <2>3, <2>4, <2>5
<1>8. ASSUME NEW k, NEW i, Lies(t, k, i)
      PROVE  <<k, i>> \in Places(t)
  BY <1>1, <1>2, <1>3, <1>4, <1>5, <1>6, <1>8 DEF Lies, Stored
<1> QED
  BY <1>7, <1>8

LEMMA ConservedMeans ==
  ASSUME NEW t \in Trace
  PROVE  (Places(t) # {} /\ \A x, y \in Places(t) : x = y) <=> OnlyPlace(t)
<1>1. /\ \A x \in Places(t) : \E k, i : x = <<k, i>> /\ Lies(t, k, i)
      /\ \A k, i : Lies(t, k, i) => <<k, i>> \in Places(t)
  BY PlacesAre
<1>2. Places(t) # {} <=> \E k, i : Lies(t, k, i)
  BY <1>1
<1>3. ASSUME \A x, y \in Places(t) : x = y,
             NEW k, NEW i, NEW l, NEW j, Lies(t, k, i), Lies(t, l, j)
      PROVE  k = l /\ i = j
  <2>1. <<k, i>> = <<l, j>>
    BY <1>1, <1>3
  <2> QED
    BY <2>1
<1>4. ASSUME \A k, i, l, j : Lies(t, k, i) /\ Lies(t, l, j) => k = l /\ i = j,
             NEW x \in Places(t), NEW y \in Places(t)
      PROVE  x = y
  <2>1. PICK k, i : x = <<k, i>> /\ Lies(t, k, i)
    BY <1>1
  <2>2. PICK l, j : y = <<l, j>> /\ Lies(t, l, j)
    BY <1>1
  <2> QED
    BY <1>4, <2>1, <2>2
<1> QED
  BY <1>2, <1>3, <1>4 DEF OnlyPlace

LEMMA ConservedIs == Conserved <=> \A t \in Trace : OnlyPlace(t)
  BY ConservedMeans DEF Conserved

LEMMA ConservedNext == Conserved' <=> \A t \in Trace : OnlyPlace(t)'
<1>1. (Conserved <=> \A t \in Trace : OnlyPlace(t))'
  BY ConservedIs, PTL
<1> QED
  BY <1>1
-----------------------------------------------------------------------------
(* A step that moves no trace, and a step that moves one.                  *)

LEMMA NothingMoves ==
  ASSUME Conserved, \A t \in Trace : \A k, i : Lies(t, k, i)' <=> Lies(t, k, i)
  PROVE  Conserved'
<1>1. ASSUME NEW t \in Trace
      PROVE  OnlyPlace(t)'
  <2>1. OnlyPlace(t)
    BY ConservedIs
  <2>2. \A k, i : Lies(t, k, i)' <=> Lies(t, k, i)
    OBVIOUS
  <2> QED
    BY <2>1, <2>2 DEF OnlyPlace
<1> QED
  BY <1>1, ConservedNext

LEMMA OneMoves ==
  ASSUME Conserved, NEW moved \in Trace,
         NEW from, NEW old, Lies(moved, from, old),
         NEW to, NEW new, Lies(moved, to, new)',
         \A k, i : Lies(moved, k, i)' =>
            (k = to /\ i = new) \/ (Lies(moved, k, i) /\ ~(k = from /\ i = old)),
         \A t \in Trace \ {moved} : \A k, i : Lies(t, k, i)' <=> Lies(t, k, i)
  PROVE  Conserved'
<1>1. ASSUME NEW t \in Trace \ {moved}
      PROVE  OnlyPlace(t)'
  <2>1. OnlyPlace(t)
    BY ConservedIs
  <2>2. \A k, i : Lies(t, k, i)' <=> Lies(t, k, i)
    OBVIOUS
  <2> QED
    BY <2>1, <2>2 DEF OnlyPlace
<1>2. OnlyPlace(moved)'
  <2>1. \A k, i : Lies(moved, k, i) => k = from /\ i = old
    BY ConservedIs DEF OnlyPlace
  <2>2. \A k, i : Lies(moved, k, i)' => k = to /\ i = new
    BY <2>1
  <2> QED
    BY <2>2 DEF OnlyPlace
<1> QED
  BY <1>1, <1>2, ConservedNext

LEMMA InitConserved == Init => Conserved
<1> SUFFICES ASSUME Init, NEW t \in Trace
             PROVE  OnlyPlace(t)
  BY ConservedIs
<1>1. \A k, i : Lies(t, k, i) <=> k = "unwritten" /\ i = 1
  BY ThreadAssumption DEF Init, Lies, Stored, IdleWriter, EmptyBuffer
<1> QED
  BY <1>1 DEF OnlyPlace

LEMMA WriteTraceConserved ==
  ASSUME Base, Orderly, Conserved, NEW p \in Producer, WriteTrace(p)
  PROVE  Conserved'
<1>1. /\ p \in Writer /\ writer \in [Writer -> WriterFrame]
      /\ fresh \subseteq Trace /\ NoTrace \notin Trace
      /\ pendingTraces \in Seq(Trace \cup Caller)
  BY WriteTraceFrame, ThreadAssumption DEF Base, Typed, TypeOK, WriterTypeOK, QueueTypeOK
<1>2. /\ \A v \in Writer \ {p} : writer'[v] = writer[v]
      /\ writer[p].pc \notin WritingPc
  BY WriteTraceFrame DEF Base
<1>3. /\ buffer' = buffer /\ outcome' = outcome
      /\ \A t, b, i : Stored(t, b, i)' <=> Stored(t, b, i)
  BY DEF WriteTrace, bufferVars, resultVars, Stored, Live, Owns, Current
<1>4. CASE BeginWriteTrace(p)
  <2>1. PICK t \in fresh :
           /\ fresh' = fresh \ {t}
           /\ writer' = [writer EXCEPT ![p] =
                 IF SerializationCompleted THEN Attempt(t)
                 ELSE [IdleWriter EXCEPT !.pc = "enqueue", !.trace = t]]
    BY <1>4 DEF BeginWriteTrace
  <2>2. writer'[p].trace = t
    BY <1>1, <2>1 DEF Attempt, IdleWriter
  <2>3. writer[p].trace = NoTrace
    BY <1>1, <1>4 DEF BeginWriteTrace, Orderly, HandsEmpty, WritingPc
  <2>4. pendingTraces' = pendingTraces
    BY <1>4 DEF BeginWriteTrace, queueVars
  <2>5. Lies(t, "unwritten", 1) /\ t \in Trace
    BY <1>1 DEF Lies
  <2>6. Lies(t, "hand", p)'
    BY <1>1, <2>2 DEF Lies
  <2>7. \A k, i : Lies(t, k, i)' => (k = "hand" /\ i = p)
                    \/ (Lies(t, k, i) /\ ~(k = "unwritten" /\ i = 1))
    BY <1>2, <1>3, <2>1, <2>4 DEF Lies, Buffer
  <2>8. \A u \in Trace \ {t} : \A k, i : Lies(u, k, i)' <=> Lies(u, k, i)
    BY <1>1, <1>2, <1>3, <2>1, <2>2, <2>3, <2>4 DEF Lies
  <2> QED
    BY <2>5, <2>6, <2>7, <2>8, OneMoves
<1>5. CASE EnqueueTrace(p)
  <2>0. PICK t, n : t = writer[p].trace /\ n = Len(pendingTraces) + 1
    OBVIOUS
  <2>1. t \in Trace /\ writer'[p].trace = NoTrace /\ fresh' = fresh
    BY <1>1, <1>5, <2>0 DEF EnqueueTrace, IdleWriter, Base, Typed, WriterFramesOK
  <2>2. /\ Len(pendingTraces') = n /\ pendingTraces'[n] = t
        /\ \A i \in 1..Len(pendingTraces) : pendingTraces'[i] = pendingTraces[i]
        /\ Len(pendingTraces) \in Nat
    BY <1>1, <1>5, <2>0, <2>1 DEF EnqueueTrace
  <2>3. Lies(t, "hand", p)
    BY <1>1, <2>0 DEF Lies
  <2>4. \A i : i \in 1..Len(pendingTraces') <=> i \in 1..Len(pendingTraces) \/ i = n
    BY <2>0, <2>2
  <2>5. Lies(t, "queue", n)'
    BY <2>2, <2>4 DEF Lies
  <2>6. \A k, i : Lies(t, k, i)' => (k = "queue" /\ i = n)
                    \/ (Lies(t, k, i) /\ ~(k = "hand" /\ i = p))
    <3>1. ThreadAssumption /\ writer'[p].trace # t
      BY <2>1, ThreadAssumption
    <3> QED
      BY <1>2, <1>3, <2>1, <2>2, <2>4, <3>1 DEF Lies, Buffer
  <2>7. \A u \in Trace \ {t} : \A k, i : Lies(u, k, i)' <=> Lies(u, k, i)
    <3>1. n \notin 1..Len(pendingTraces)
      BY <2>0, <2>2
    <3> QED
      BY <1>1, <1>2, <1>3, <2>0, <2>1, <2>2, <2>4, <3>1 DEF Lies
  <2> QED
    BY <2>1, <2>3, <2>5, <2>6, <2>7, OneMoves
<1>6. CASE CheckMutex(p) \/ SetMutex(p)
  <2>1. fresh' = fresh /\ pendingTraces' = pendingTraces
    BY <1>6 DEF CheckMutex, SetMutex, queueVars
  <2>2. writer[p].trace = NoTrace
    BY <1>1, <1>6 DEF CheckMutex, SetMutex, Orderly, HandsEmpty, WritingPc
  <2>3. writer'[p].trace = NoTrace
    BY <1>1, <1>6, <2>2 DEF CheckMutex, SetMutex, Goto, Finish, IdleWriter, WriterFrame
  <2>4. \A t \in Trace : \A k, i : Lies(t, k, i)' <=> Lies(t, k, i)
    BY <1>2, <1>3, <2>1, <2>2, <2>3 DEF Lies
  <2> QED
    BY <2>4, NothingMoves
<1> QED
  BY <1>4, <1>5, <1>6 DEF WriteTrace

LEMMA SerializeTraceConserved ==
  ASSUME Base, Orderly, SingleWriter, CopiesOwnTrace, Conserved,
         NEW w \in Writer, SerializeTrace(w)
  PROVE  Conserved'
<1>1. /\ writer \in [Writer -> WriterFrame]
      /\ buffer \in [Buffer -> SpanBufferType]
      /\ outcome \in [Trace -> Outcome]
      /\ NoTrace \notin Trace /\ writer[w].buffer \in Buffer
  BY ThreadAssumption DEF Base, Typed, TypeOK, WriterTypeOK, BufferTypeOK, ResultTypeOK,
     WriterFrame
<1>2. /\ writer[w].pc \in WritingPc
      /\ \A v \in Writer \ {w} : writer'[v] = writer[v]
      /\ \/ writer'[w] = IdleWriter
         \/ writer'[w].pc \in WritingPc /\ writer'[w].trace = writer[w].trace
  BY SerializeTraceFrame DEF Base
<1>3. /\ fresh' = fresh /\ pendingTraces' = pendingTraces /\ flusher' = flusher
      /\ \A b : Live(b)' <=> Live(b)
  BY DEF SerializeTrace, queueVars, Live, Owns, Current
<1>4. PICK t : t = writer[w].trace
  OBVIOUS
<1>5. t \in Trace /\ Lies(t, "hand", w)
  BY <1>2, <1>4 DEF Base, Typed, WriterFramesOK, Lies
<1>6. ASSUME UNCHANGED <<buffer, outcome>>, writer'[w].trace = writer[w].trace
      PROVE  Conserved'
  <2>1. \A u \in Trace : \A k, i : Lies(u, k, i)' <=> Lies(u, k, i)
    BY <1>2, <1>3, <1>6 DEF Lies, Stored
  <2> QED
    BY <2>1, NothingMoves
<1>7. ASSUME buffer' = buffer, NEW end \in Outcome \ {"pending"},
             outcome' = [outcome EXCEPT ![t] = end], writer'[w] = IdleWriter
      PROVE  Conserved'
  <2>1. writer'[w].trace = NoTrace
    BY <1>7 DEF IdleWriter
  <2>2. \A b, u, i : Stored(u, b, i)' <=> Stored(u, b, i)
    BY <1>3, <1>7 DEF Stored
  <2>3. Lies(t, "settled", 1)'
    BY <1>1, <1>5, <1>7 DEF Lies
  <2>4. \A k, i : Lies(t, k, i)' => (k = "settled" /\ i = 1)
                    \/ (Lies(t, k, i) /\ ~(k = "hand" /\ i = w))
    BY <1>1, <1>2, <1>3, <1>5, <2>1, <2>2 DEF Lies, Buffer
  <2>5. \A u \in Trace \ {t} : \A k, i : Lies(u, k, i)' <=> Lies(u, k, i)
    BY <1>1, <1>2, <1>3, <1>4, <1>7, <2>1, <2>2 DEF Lies
  <2> QED
    BY <1>5, <2>3, <2>4, <2>5, OneMoves
<1>8. CASE SerializeThrows(w) \/ DropTrace(w)
  <2>1. /\ buffer' = buffer
        /\ \E end \in Outcome \ {"pending"} : outcome' = [outcome EXCEPT ![t] = end]
    BY <1>4, <1>8 DEF SerializeThrows, DropTrace, bufferVars, Outcome
  <2>2. writer'[w] = IdleWriter
    BY <1>1, <1>8 DEF SerializeThrows, DropTrace, Finish
  <2> QED
    BY <1>7, <2>1, <2>2
<1>9. CASE CopyToBuffer(w)
  <2>1. PICK b, size : b = writer[w].buffer /\ size = Size[t]
    OBVIOUS
  <2>2. b \in Buffer /\ buffer[b] \in SpanBufferType /\ ~buffer[b].locked
    BY <1>1, <1>9, <2>1, ThreadAssumption DEF CopyToBuffer, Base, Exclusive, MonitorExcludes
  <2>3. temporaryBuffer = t /\ outcome' = outcome
    BY <1>4, <1>9 DEF CopyToBuffer, CopiesOwnTrace
  <2>4. CASE HasRoom(buffer[b], size)
    <3>1. buffer' = [buffer EXCEPT ![b] = WithContent(buffer[b], t, size)]
          /\ writer'[w] = IdleWriter
      BY <1>1, <1>4, <1>9, <2>1, <2>3, <2>4 DEF CopyToBuffer, Finish
    <3>2. PICK n : n = Len(buffer[b].traces) + 1
      OBVIOUS
    <3>3. /\ buffer'[b].traces = Append(buffer[b].traces, t)
          /\ \A c \in Buffer \ {b} : buffer'[c] = buffer[c]
      BY <1>1, <2>2, <3>1 DEF WithContent, SpanBufferType
    <3>4. /\ buffer'[b].traces[n] = t /\ n \notin 1..Len(buffer[b].traces)
          /\ \A i : i \in 1..Len(buffer'[b].traces)
                       <=> i \in 1..Len(buffer[b].traces) \/ i = n
          /\ \A i \in 1..Len(buffer[b].traces) :
                buffer'[b].traces[i] = buffer[b].traces[i]
      <4>1. buffer[b].traces \in Seq(Trace) /\ Len(buffer[b].traces) \in Nat
        BY <2>2 DEF SpanBufferType
      <4> QED
        BY <1>5, <3>2, <3>3, <4>1
    <3>5. Live(b)
      BY <2>2 DEF Live, Base, Exclusive, LockHasOneOwner
    <3>6. \A u, c, i : c \in Buffer => (Stored(u, c, i)' <=>
                  (Stored(u, c, i) \/ (u = t /\ c = b /\ i = n)))
      BY <1>3, <3>3, <3>4, <3>5 DEF Stored
    <3>7. writer'[w].trace = NoTrace
      BY <3>1 DEF IdleWriter
    <3>8. Lies(t, b, n)'
      BY <2>2, <3>6 DEF Lies
    <3>9. \A k, i : Lies(t, k, i)' => (k = b /\ i = n)
                    \/ (Lies(t, k, i) /\ ~(k = "hand" /\ i = w))
      BY <1>1, <1>2, <1>3, <1>5, <2>3, <3>6, <3>7 DEF Lies, Buffer
    <3>10. \A u \in Trace \ {t} : \A k, i : Lies(u, k, i)' <=> Lies(u, k, i)
      BY <1>1, <1>2, <1>3, <1>4, <2>3, <3>6, <3>7 DEF Lies
    <3> QED
      BY <1>5, <3>8, <3>9, <3>10, OneMoves
  <2>5. CASE ~HasRoom(buffer[b], size)
    <3>1. buffer' = [buffer EXCEPT ![b] = MarkFull(buffer[b])]
          /\ writer'[w].trace = writer[w].trace
      BY <1>1, <1>4, <1>9, <2>1, <2>5 DEF CopyToBuffer, Refused, Goto, WriterFrame
    <3>2. \A c \in Buffer : buffer'[c].traces = buffer[c].traces
      BY <1>1, <2>2, <3>1 DEF MarkFull, SpanBufferType
    <3>3. \A u \in Trace : \A k, i : Lies(u, k, i)' <=> Lies(u, k, i)
      BY <1>2, <1>3, <2>3, <3>1, <3>2 DEF Lies, Stored
    <3> QED
      BY <3>3, NothingMoves
  <2> QED
    BY <2>4, <2>5
<1>10. CASE \/ TryEnterFails(w) \/ SerializeToTemporary(w) \/ SwapBuffers(w)
            \/ PublishSwap(w) \/ RequestFlush(w) \/ CompleteRequest(w)
  <2>1. UNCHANGED <<buffer, outcome>>
    BY <1>10 DEF TryEnterFails, SerializeToTemporary, SwapBuffers, PublishSwap,
                 RequestFlush, CompleteRequest, bufferVars
  <2>2. writer'[w].trace = writer[w].trace
    BY <1>1, <1>10 DEF TryEnterFails, SerializeToTemporary, SwapBuffers, PublishSwap,
                 RequestFlush, CompleteRequest, Refused, Goto, WriterFrame
  <2> QED
    BY <1>6, <2>1, <2>2
<1> QED
  BY <1>8, <1>9, <1>10 DEF SerializeTrace

(* Taking the head of the queue moves every place in it up by one.         *)
LEMMA QueueShift ==
  ASSUME NEW S, NEW queue \in Seq(S), queue # <<>>
  PROVE  /\ Len(queue) \in Nat /\ Len(queue) > 0 /\ Len(Tail(queue)) = Len(queue) - 1
         /\ queue[1] = Head(queue)
         /\ \A i : i \in 1..Len(Tail(queue)) =>
               i \in Nat /\ i + 1 \in 2..Len(queue) /\ Tail(queue)[i] = queue[i + 1]
         /\ \A i \in 2..Len(queue) :
               i - 1 \in 1..Len(Tail(queue)) /\ Tail(queue)[i - 1] = queue[i]
         /\ \A i \in 1..Len(queue) : i = 1 \/ i \in 2..Len(queue)
  OBVIOUS

LEMMA SerializeTracesLoopConserved ==
  ASSUME Base, Orderly, Conserved, SerializeTracesLoop
  PROVE  Conserved'
<1>1. /\ writer \in [Writer -> WriterFrame] /\ Serializer \in Writer
      /\ pendingTraces \in Seq(Trace \cup Caller) /\ Trace \cap Caller = {}
      /\ NoTrace \notin Trace
  BY ThreadAssumption DEF Base, Typed, TypeOK, WriterTypeOK, QueueTypeOK, Writer
<1>2. /\ fresh' = fresh /\ outcome' = outcome
      /\ \A t, b, i : Stored(t, b, i)' <=> Stored(t, b, i)
  BY DEF SerializeTracesLoop, bufferVars, resultVars, Stored, Live, Owns, Current
<1>3. CASE writer' = writer /\ pendingTraces' = pendingTraces
  <2>1. \A u \in Trace : \A k, i : Lies(u, k, i)' <=> Lies(u, k, i)
    BY <1>2, <1>3 DEF Lies
  <2> QED
    BY <2>1, NothingMoves
<1>4. CASE DequeueTrace \/ DequeueWatermark
  <2>1. PICK item : item = Head(pendingTraces)
    OBVIOUS
  <2>2. pendingTraces # <<>> /\ pendingTraces' = Tail(pendingTraces)
        /\ writer[Serializer].pc = "idle"
    BY <1>4 DEF DequeueTrace, DequeueWatermark, Draining
  <2>3. /\ Len(pendingTraces) \in Nat /\ Len(pendingTraces) > 0
        /\ pendingTraces[1] = item
        /\ \A i : i \in 1..Len(pendingTraces') =>
               i \in Nat /\ i + 1 \in 2..Len(pendingTraces)
               /\ pendingTraces'[i] = pendingTraces[i + 1]
        /\ \A i \in 2..Len(pendingTraces) :
               i - 1 \in 1..Len(pendingTraces')
               /\ pendingTraces'[i - 1] = pendingTraces[i]
        /\ \A i \in 1..Len(pendingTraces) : i = 1 \/ i \in 2..Len(pendingTraces)
    BY <1>1, <2>1, <2>2, QueueShift
  <2>4. writer[Serializer].trace = NoTrace
    BY <1>1, <2>2 DEF Orderly, HandsEmpty, WritingPc
  <2>5. /\ \A v \in Writer \ {Serializer} : writer'[v] = writer[v]
        /\ item \in Trace => writer'[Serializer].trace = item
        /\ item \notin Trace => writer'[Serializer].trace = NoTrace
    BY <1>1, <1>4, <2>1, <2>4 DEF DequeueTrace, DequeueWatermark, Attempt
  <2>6. ASSUME NEW u \in Trace, u # item
        PROVE  OnlyPlace(u)'
    <3>1. \A i : Lies(u, "queue", i)' <=> (i \in Nat /\ Lies(u, "queue", i + 1))
      <4>1. \A i : Lies(u, "queue", i) <=> i \in 1..Len(pendingTraces) /\ pendingTraces[i] = u
        BY DEF Lies, Buffer
      <4>2. \A i : Lies(u, "queue", i)' <=> i \in 1..Len(pendingTraces') /\ pendingTraces'[i] = u
        BY DEF Lies, Buffer
      <4>3. ASSUME NEW i \in Nat, i + 1 \in 1..Len(pendingTraces), pendingTraces[i + 1] = u
            PROVE  i \in 1..Len(pendingTraces') /\ pendingTraces'[i] = u
        <5>1. i + 1 # 1
          BY <2>3, <2>6, <4>3
        <5>2. i + 1 \in 2..Len(pendingTraces) /\ (i + 1) - 1 = i
          BY <2>3, <4>3, <5>1
        <5> QED
          BY <2>3, <4>3, <5>2
      <4>4. ASSUME NEW i, i \in 1..Len(pendingTraces'), pendingTraces'[i] = u
            PROVE  i \in Nat /\ i + 1 \in 1..Len(pendingTraces) /\ pendingTraces[i + 1] = u
        BY <2>3, <4>4
      <4> QED
        BY <4>1, <4>2, <4>3, <4>4
    <3>2. \A k, i : k # "queue" => (Lies(u, k, i)' <=> Lies(u, k, i))
      BY <1>1, <1>2, <2>4, <2>5, <2>6 DEF Lies
    <3>3. \A i : Lies(u, "queue", i) => i \in Int /\ i - 1 \in Nat /\ (i - 1) + 1 = i
      BY <2>3 DEF Lies, Buffer
    <3>4. PICK k, i : Lies(u, k, i)
      BY ConservedIs DEF OnlyPlace
    <3>5. \A l, j : Lies(u, l, j) => k = l /\ i = j
      BY <3>4, ConservedIs DEF OnlyPlace
    <3>6. CASE k = "queue"
      <4>1. Lies(u, "queue", i - 1)' /\ i \in Int
        BY <3>1, <3>3, <3>4, <3>6
      <4>2. \A l, j : Lies(u, l, j)' => l = "queue" /\ j = i - 1
        BY <3>1, <3>2, <3>3, <3>5, <3>6, <4>1
      <4> QED
        BY <4>1, <4>2 DEF OnlyPlace
    <3>7. CASE k # "queue"
      <4>1. Lies(u, k, i)'
        BY <3>2, <3>4, <3>7
      <4>2. \A l, j : Lies(u, l, j)' => l = k /\ j = i
        BY <3>1, <3>2, <3>5, <3>7
      <4> QED
        BY <4>1, <4>2 DEF OnlyPlace
    <3> QED
      BY <3>6, <3>7
  <2>7. ASSUME item \in Trace
        PROVE  OnlyPlace(item)'
    <3>1. Lies(item, "queue", 1)
      BY <2>3 DEF Lies
    <3>2. \A l, j : Lies(item, l, j) => l = "queue" /\ j = 1
      BY <2>7, <3>1, ConservedIs DEF OnlyPlace
    <3>3. Lies(item, "hand", Serializer)'
      BY <1>1, <2>5, <2>7 DEF Lies
    <3>4. \A i : ~Lies(item, "queue", i)'
      <4>1. \A i : i \in 1..Len(pendingTraces') =>
               i \in Nat /\ i + 1 # 1 /\ i + 1 \in 1..Len(pendingTraces)
               /\ pendingTraces'[i] = pendingTraces[i + 1]
        BY <2>3
      <4>2. \A j \in 1..Len(pendingTraces) : pendingTraces[j] = item => j = 1
        BY <3>2 DEF Lies
      <4> QED
        BY <4>1, <4>2 DEF Lies, Buffer
    <3>5. \A k, i : Lies(item, k, i)' => k = "hand" /\ i = Serializer
      <4>1. \A k, i : k # "queue" /\ Lies(item, k, i)' =>
               (k = "hand" /\ i = Serializer) \/ Lies(item, k, i)
        BY <1>2, <2>5, <2>7 DEF Lies
      <4> QED
        BY <3>2, <3>4, <4>1
    <3> QED
      BY <3>3, <3>5 DEF OnlyPlace
  <2> QED
    BY <2>6, <2>7, ConservedNext
<1> QED
  BY <1>3, <1>4 DEF SerializeTracesLoop, QueueDrained, ExitCheck, SleepBatch,
     WaitMutex, ResetMutex, queueVars

(* What a step of a flush does to its frame, and to the frames of others.  *)
LEMMA FlushBuffersConserved ==
  ASSUME Base, Conserved, NEW f \in Flusher, FlushBuffers(f)
  PROVE  Conserved'
<1>1. /\ flusher \in [Flusher -> FlusherFrame]
      /\ buffer \in [Buffer -> SpanBufferType]
      /\ outcome \in [Trace -> Outcome]
      /\ fresh' = fresh /\ pendingTraces' = pendingTraces /\ writer' = writer
  BY DEF FlushBuffers, queueVars, Base, Typed, TypeOK, FlusherTypeOK, BufferTypeOK,
     ResultTypeOK
<1>2. ASSUME NEW g \in Flusher, flusher[g].pc \notin {"idle", "read"}
      PROVE  Current(g) \in Buffer
  BY <1>1, <1>2 DEF Base, Typed, FlusherFramesOK, FlusherFrame, Current
<1>3. ASSUME outcome' = outcome,
             \A c \in Buffer : \A u, i : Stored(u, c, i)' <=> Stored(u, c, i)
      PROVE  Conserved'
  <2>1. \A u \in Trace : \A k, i : Lies(u, k, i)' <=> Lies(u, k, i)
    BY <1>1, <1>3 DEF Lies
  <2> QED
    BY <2>1, NothingMoves
<1>4. CASE ReadActiveBuffer(f) \/ ChooseBuffers(f) \/ ReadFlushTask(f)
           \/ LockFails(f) \/ NextBuffer(f) \/ StoreFlushTask(f)
  <2>1. buffer' = buffer /\ outcome' = outcome
    BY <1>4 DEF ReadActiveBuffer, ChooseBuffers, ReadFlushTask, LockFails, NextBuffer,
                StoreFlushTask, resultVars
  <2>2. \A g \in Flusher \ {f} : flusher'[g] = flusher[g]
    BY <1>1, <1>4 DEF ReadActiveBuffer, ChooseBuffers, ReadFlushTask, LockFails,
                      NextBuffer, StoreFlushTask
  <2>3. \/ flusher'[f].pc # "clear" /\ flusher[f].pc # "clear"
        \/ flusher'[f].pc = flusher[f].pc /\ flusher'[f].todo = flusher[f].todo
    <3>1. CASE ReadActiveBuffer(f)
      BY <1>1, <3>1 DEF ReadActiveBuffer, FlusherFrame
    <3>2. CASE ChooseBuffers(f)
      BY <1>1, <3>2 DEF ChooseBuffers, FlusherFrame
    <3>3. CASE ReadFlushTask(f)
      BY <1>1, <3>3 DEF ReadFlushTask, FlusherFrame
    <3>4. CASE LockFails(f)
      BY <1>1, <3>4 DEF LockFails, FlusherFrame
    <3>5. CASE NextBuffer(f)
      BY <1>1, <3>5 DEF NextBuffer, IdleFlusher
    <3>6. CASE StoreFlushTask(f)
      BY <1>1, <3>6 DEF StoreFlushTask, FlusherFrame
    <3> QED
      BY <1>4, <3>1, <3>2, <3>3, <3>4, <3>5, <3>6
  <2>4. \A c : Live(c)' <=> Live(c)
    BY <2>2, <2>3 DEF Live, Owns, Current
  <2> QED
    BY <1>3, <2>1, <2>4 DEF Stored
<1>5. CASE LockBuffer(f)
  <2>1. PICK b : b = Current(f)
    OBVIOUS
  <2>2. b \in Buffer /\ ~buffer[b].locked /\ buffer[b] \in SpanBufferType
    BY <1>1, <1>2, <1>5, <2>1 DEF LockBuffer
  <2>3. /\ buffer' = [buffer EXCEPT ![b] = Locked(buffer[b])] /\ outcome' = outcome
        /\ flusher[f].pc = "lock"
    BY <1>5, <2>1 DEF LockBuffer, resultVars
  <2>4. \A c \in Buffer : buffer'[c].traces = buffer[c].traces
    BY <1>1, <2>2, <2>3 DEF Locked, SpanBufferType
  <2>5. /\ flusher'[f].todo = flusher[f].todo
        /\ flusher'[f].pc = "clear" => Len(buffer[b].traces) = 0
        /\ \A g \in Flusher \ {f} : flusher'[g] = flusher[g]
    <3>1. Len(buffer[b].traces) \in Nat
      BY <2>2 DEF SpanBufferType
    <3> QED
      BY <1>1, <1>5, <2>1, <3>1 DEF LockBuffer, FlusherFrame, TraceCount
  <2>6. \A c \in Buffer \ {b} : Live(c)' <=> Live(c)
    BY <2>1, <2>3, <2>5 DEF Live, Owns, Current
  <2>7. \A u, i : ~Stored(u, b, i) \/ flusher'[f].pc # "clear"
    BY <2>5 DEF Stored
  <2>8. flusher'[f].pc # "clear" => (Live(b)' <=> Live(b))
    BY <2>3, <2>5 DEF Live, Owns, Current
  <2>9. flusher'[f].pc = "clear" => \A u, i : ~Stored(u, b, i)'
    BY <2>2, <2>4, <2>5 DEF Stored
  <2>10. \A c \in Buffer : \A u, i : Stored(u, c, i)' <=> Stored(u, c, i)
    BY <2>4, <2>6, <2>7, <2>8, <2>9 DEF Stored
  <2> QED
    BY <1>3, <2>3, <2>10
<1>6. CASE SendSucceeds(f) \/ SendFails(f)
  <2>1. PICK b : b = Current(f)
    OBVIOUS
  <2>2. b \in Buffer /\ Owns(f, b) /\ flusher[f].pc = "sending"
        /\ flusher[f].payload = buffer[b].traces
    BY <1>2, <1>6, <2>1 DEF SendSucceeds, SendFails, Owns, Base, Exclusive, PayloadStable
  <2>3. buffer' = buffer
        /\ \E result \in Outcome \ {"pending"} : Resolve(buffer[b].traces, result)
    BY <1>6, <2>2 DEF SendSucceeds, SendFails, Outcome
  <2>4. PICK result \in Outcome \ {"pending"} :
           outcome' = [t \in Trace |-> IF \E i \in 1..Len(buffer[b].traces) :
                         buffer[b].traces[i] = t THEN result ELSE outcome[t]]
    BY <2>3 DEF Resolve
  <2>5. /\ flusher'[f].pc = "clear" /\ flusher'[f].todo = flusher[f].todo
        /\ \A g \in Flusher \ {f} : flusher'[g] = flusher[g]
    BY <1>1, <1>6 DEF SendSucceeds, SendFails, FlusherFrame
  <2>6. \A g \in Flusher \ {f} : ~Owns(g, b)
    BY <2>2 DEF Base, Exclusive, LockHasOneOwner
  <2>7. Live(b) /\ ~Live(b)' /\ \A c \in Buffer \ {b} : Live(c)' <=> Live(c)
    <3>1. Live(b)
      BY <2>2, <2>6 DEF Live
    <3>2. Owns(f, b)'
      BY <2>1, <2>5 DEF Owns, Current
    <3>3. ~Live(b)'
      BY <2>5, <3>2 DEF Live
    <3>4. \A c \in Buffer \ {b} : Live(c)' <=> Live(c)
      BY <2>1, <2>2, <2>5 DEF Live, Owns, Current
    <3> QED
      BY <3>1, <3>3, <3>4
  <2>8. \A c \in Buffer : \A u, i : Stored(u, c, i)' <=> (Stored(u, c, i) /\ c # b)
    BY <2>3, <2>7 DEF Stored
  <2>9. ASSUME NEW t \in Trace
        PROVE  OnlyPlace(t)'
    <3>1. CASE \E i : Stored(t, b, i)
      <4>1. PICK n : Stored(t, b, n) /\ n \in 1..Len(buffer[b].traces)
        BY <3>1 DEF Stored
      <4>2. Lies(t, b, n)
        BY <2>2, <4>1 DEF Lies
      <4>3. \A k, i : Lies(t, k, i) => k = b /\ i = n
        BY <4>2, ConservedIs DEF OnlyPlace
      <4>4. outcome'[t] # "pending"
        BY <2>4, <4>1 DEF Stored
      <4>5. Lies(t, "settled", 1)'
        BY <4>4 DEF Lies
      <4>6. \A k, i : Lies(t, k, i)' =>
               (k = "settled" /\ i = 1) \/ (Lies(t, k, i) /\ k # b)
        BY <1>1, <2>2, <2>8 DEF Lies, Buffer
      <4>7. \A k, i : Lies(t, k, i)' => k = "settled" /\ i = 1
        BY <4>3, <4>6
      <4> QED
        BY <4>5, <4>7 DEF OnlyPlace
    <3>2. CASE ~\E i : Stored(t, b, i)
      <4>1. outcome'[t] = outcome[t]
        BY <2>4, <2>7, <3>2 DEF Stored
      <4>2. \A k, i : Lies(t, k, i)' <=> Lies(t, k, i)
        BY <1>1, <2>8, <3>2, <4>1 DEF Lies
      <4>3. OnlyPlace(t)
        BY ConservedIs
      <4> QED
        BY <4>2, <4>3 DEF OnlyPlace
    <3> QED
      BY <3>1, <3>2
  <2> QED
    BY <2>9, ConservedNext
<1>7. CASE ClearBuffer(f)
  <2>1. PICK b : b = Current(f)
    OBVIOUS
  <2>2. b \in Buffer /\ Owns(f, b) /\ flusher[f].pc = "clear"
        /\ buffer[b] \in SpanBufferType
    BY <1>1, <1>2, <1>7, <2>1 DEF ClearBuffer, Owns
  <2>3. /\ flusher'[f].pc = "flushed"
        /\ \A g \in Flusher \ {f} :
              flusher'[g].pc = flusher[g].pc /\ flusher'[g].todo = flusher[g].todo
    <3>1. flusher'[f] = [flusher[f] EXCEPT !.pc = "flushed", !.payload = <<>>]
      BY <1>7 DEF ClearBuffer
    <3>2. ASSUME NEW g \in Flusher \ {f}
          PROVE  \/ flusher'[g] = [flusher[g] EXCEPT !.previous = NoThread]
                 \/ flusher'[g] = [flusher[g] EXCEPT !.previous = flusher[g].previous]
      BY <1>7 DEF ClearBuffer
    <3>3. \A g \in Flusher : flusher[g] \in FlusherFrame
      BY <1>1
    <3> QED
      BY <3>1, <3>2, <3>3 DEF FlusherFrame
  <2>4. /\ outcome' = outcome /\ Len(buffer'[b].traces) = 0
        /\ \A c \in Buffer \ {b} : buffer'[c] = buffer[c]
    <3>1. buffer' = [buffer EXCEPT ![b] = Cleared(buffer[b])]
      BY <1>7, <2>1 DEF ClearBuffer
    <3>2. outcome' = outcome
      BY <1>7 DEF ClearBuffer, resultVars
    <3>3. Cleared(buffer[b]).traces = <<>>
      BY <2>2 DEF Cleared, SpanBufferType
    <3> QED
      BY <1>1, <2>2, <3>1, <3>2, <3>3
  <2>5. \A c \in Buffer \ {b} : Live(c)' <=> Live(c)
    BY <2>1, <2>2, <2>3 DEF Live, Owns, Current
  <2>6. ~Live(b)
    BY <2>2 DEF Live
  <2>7. \A c \in Buffer : \A u, i : Stored(u, c, i)' <=> Stored(u, c, i)
    BY <2>4, <2>5, <2>6 DEF Stored
  <2> QED
    BY <1>3, <2>4, <2>7
<1> QED
  BY <1>4, <1>5, <1>6, <1>7 DEF FlushBuffers

LEMMA FlushTracesConserved ==
  ASSUME Base, Conserved, NEW c \in Caller, FlushTraces(c)
  PROVE  Conserved'
<1>1. /\ fresh' = fresh /\ outcome' = outcome /\ writer' = writer /\ buffer' = buffer
      /\ pendingTraces \in Seq(Trace \cup Caller) /\ c \notin Trace
  BY ThreadAssumption DEF FlushTraces, bufferVars, resultVars, Base, Typed, TypeOK,
     QueueTypeOK
<1>2. \A b : Live(b)' <=> Live(b)
  <2>1. CASE flusher' = flusher
    BY <2>1 DEF Live, Owns, Current
  <2>2. CASE FlushAllBuffers(c)
    <3>1. flusher[c].pc = "idle" /\ c \in Flusher /\ StartFlush(c)
          /\ flusher \in [Flusher -> FlusherFrame]
      BY <2>2 DEF FlushAllBuffers, Base, Exclusive, FlusherFree, Flusher, Typed, TypeOK,
                  FlusherTypeOK
    <3>2. flusher'[c].pc = "read" /\ \A g \in Flusher \ {c} : flusher'[g] = flusher[g]
      BY <3>1 DEF StartFlush, FlusherFrame
    <3> QED
      BY <3>1, <3>2 DEF Live, Owns, Current
  <2> QED
    BY <2>1, <2>2 DEF FlushTraces, BeginFlushTraces, EnqueueWatermark, WakeSerializer
<1>3. \A u \in Trace : \A i : (i \in 1..Len(pendingTraces') /\ pendingTraces'[i] = u)
                           <=> (i \in 1..Len(pendingTraces) /\ pendingTraces[i] = u)
  <2>1. CASE pendingTraces' = pendingTraces
    BY <2>1
  <2>2. CASE pendingTraces' = Append(pendingTraces, c)
    BY <1>1, <2>2
  <2> QED
    BY <2>1, <2>2 DEF FlushTraces, BeginFlushTraces, EnqueueWatermark, WakeSerializer,
       FlushAllBuffers, queueVars
<1>4. \A u \in Trace : \A k, i : Lies(u, k, i)' <=> Lies(u, k, i)
  BY <1>1, <1>2, <1>3 DEF Lies, Stored
<1> QED
  BY <1>4, NothingMoves

LEMMA OtherConserved ==
  ASSUME Base, Conserved, FlushBuffersTaskLoop \/ FlushAndClose \/ UNCHANGED vars
  PROVE  Conserved'
<1>1. /\ fresh' = fresh /\ outcome' = outcome /\ buffer' = buffer
      /\ pendingTraces' = pendingTraces
  BY DEF FlushBuffersTaskLoop, FlushAndClose, vars, queueVars, bufferVars, resultVars
<1>2. \A w \in Writer : writer'[w].trace = writer[w].trace
  BY FlushBuffersTaskLoopFrame, OtherStepsFrame DEF Base
<1>3. \A b : Live(b)' <=> Live(b)
  <2>1. CASE flusher' = flusher
    BY <2>1 DEF Live, Owns, Current
  <2>2. ASSUME NEW f \in Flusher, flusher[f].pc = "idle", StartFlush(f)
        PROVE  \A b : Live(b)' <=> Live(b)
    <3>1. flusher'[f].pc = "read" /\ \A g \in Flusher \ {f} : flusher'[g] = flusher[g]
      BY <2>2 DEF StartFlush, FlusherFrame, Base, Typed, TypeOK, FlusherTypeOK
    <3> QED
      BY <2>2, <3>1 DEF Live, Owns, Current
  <2>3. FlushLoop \in Flusher /\ CloseFlush \in Flusher
    BY DEF Flusher
  <2>4. loopPc # "flushing" => flusher[FlushLoop].pc = "idle"
    BY DEF Base, Exclusive, FlusherFree
  <2>5. close.pc = "check" => flusher[CloseFlush].pc = "idle"
    BY DEF Base, Exclusive, FlusherFree
  <2> QED
    BY <2>1, <2>2, <2>3, <2>4, <2>5 DEF FlushBuffersTaskLoop, LoopWakes,
       LoopReplacesForceFlush, LoopRepeats, FlushAndClose, BeginClose,
       CloseWakesSerializer, CloseAwaitsSerialization, CloseAwaitsFlushLoop,
       CloseChecksBuffers, CloseForced, vars
<1>4. \A u \in Trace : \A k, i : Lies(u, k, i)' <=> Lies(u, k, i)
  BY <1>1, <1>2, <1>3 DEF Lies, Stored
<1> QED
  BY <1>4, NothingMoves

LEMMA ConservedStep ==
  ASSUME Base, Orderly, SingleWriter, CopiesOwnTrace, Conserved, [Next]_vars
  PROVE  Conserved'
  BY WriteTraceConserved, SerializeTraceConserved, SerializeTracesLoopConserved,
     FlushBuffersConserved, FlushTracesConserved, OtherConserved DEF Next

-----------------------------------------------------------------------------
(* The rates.                                                              *)

(* A sequence without repetition has as many elements as places.           *)
LEMMA CountSequence ==
  ASSUME NEW S, NEW seq \in Seq(S),
         \A i, j \in 1..Len(seq) : seq[i] = seq[j] => i = j
  PROVE  IsFiniteSet(Elements(seq)) /\ Cardinality(Elements(seq)) = Len(seq)
<1> DEFINE T == Elements(seq)
           n == Len(seq)
<1>1. n \in Nat /\ seq \in [1..n -> S]
  OBVIOUS
<1>2. /\ \A i \in 1..n : seq[i] \in T
      /\ \A x \in T : \E i \in 1..n : seq[i] = x
  BY DEF Elements
<1> HIDE DEF T, n
<1>3. seq \in [1..n -> T]
  BY <1>1, <1>2
<1>4. seq \in Bijection(1..n, T)
  BY <1>2, <1>3 DEF Bijection, Injection, Surjection, IsInjective, n
<1>5. ExistsBijection(1..n, T)
  BY <1>4 DEF ExistsBijection
<1>6. IsFiniteSet(T)
  <2>1. IsFiniteSet(1..n)
    BY <1>1, FS_Interval
  <2> QED
    BY <1>5, <2>1, FS_Bijection
<1>7. Cardinality(T) = n
  BY <1>1, <1>5, FS_CountingElements
<1> QED
  BY <1>6, <1>7 DEF T, n

(* Counting a batch in.                                                    *)
LEMMA CountBatch ==
  ASSUME NEW S, IsFiniteSet(S), NEW T, IsFiniteSet(T), S \cap T = {}
  PROVE  IsFiniteSet(S \cup T)
         /\ Cardinality(S \cup T) = Cardinality(S) + Cardinality(T)
<1>1. Cardinality(S) \in Nat /\ Cardinality(T) \in Nat
  BY FS_CardinalityType
<1>2. Cardinality(S \cap T) = 0
  BY FS_EmptySet
<1>3. IsFiniteSet(S \cup T)
      /\ Cardinality(S \cup T) = Cardinality(S) + Cardinality(T) - Cardinality(S \cap T)
  BY FS_Union
<1> QED
  BY <1>1, <1>2, <1>3

(* A trace in a hand or in a buffer whose send is not over is pending, and *)
(* it is in no other place of a buffer.                                    *)
LEMMA PendingInPlace ==
  ASSUME Base, Conserved
  PROVE  /\ \A w \in Writer : writer[w].trace \in Trace =>
               outcome[writer[w].trace] = "pending"
         /\ \A b \in Buffer : Live(b) =>
               /\ \A t \in Elements(buffer[b].traces) :
                     t \in Trace /\ outcome[t] = "pending"
               /\ \A i, j \in 1..Len(buffer[b].traces) :
                     buffer[b].traces[i] = buffer[b].traces[j] => i = j
<1>1. ASSUME NEW w \in Writer, writer[w].trace \in Trace
      PROVE  outcome[writer[w].trace] = "pending"
  <2>1. Lies(writer[w].trace, "hand", w)
    BY DEF Lies
  <2>2. ~Lies(writer[w].trace, "settled", 1)
    BY <1>1, <2>1, ConservedIs DEF OnlyPlace
  <2> QED
    BY <2>2 DEF Lies
<1>2. ASSUME NEW b \in Buffer, Live(b), NEW i \in 1..Len(buffer[b].traces)
      PROVE  /\ buffer[b].traces[i] \in Trace
             /\ outcome[buffer[b].traces[i]] = "pending"
             /\ \A j \in 1..Len(buffer[b].traces) :
                     buffer[b].traces[i] = buffer[b].traces[j] => i = j
  <2>1. PICK t : t = buffer[b].traces[i]
    OBVIOUS
  <2>2. t \in Trace
    BY <1>2, <2>1 DEF Base, Typed, TypeOK, BufferTypeOK, SpanBufferType
  <2>3. Lies(t, b, i) /\ \A j \in 1..Len(buffer[b].traces) :
                            t = buffer[b].traces[j] => Lies(t, b, j)
    BY <1>2, <2>1 DEF Lies, Stored
  <2>4. \A k, j : Lies(t, k, j) => k = b /\ i = j
    BY <2>2, <2>3, ConservedIs DEF OnlyPlace
  <2>5. ~Lies(t, "settled", 1)
    BY <2>4 DEF Buffer
  <2> QED
    BY <2>1, <2>2, <2>3, <2>4, <2>5 DEF Lies
<1> QED
  BY <1>1, <1>2 DEF Elements

LEMMA InitAccounted == Init => Accounted
<1> SUFFICES ASSUME Init PROVE Accounted
  OBVIOUS
<1>1. Settled({"sent"}) = {} /\ Settled({"dropped", "rejected"}) = {}
  BY DEF Init, Settled
<1> QED
  BY <1>1, FS_EmptySet DEF Init, Accounted

(* One trace gets an outcome.                                              *)
LEMMA SerializeTraceAccounted ==
  ASSUME Base, Orderly, Conserved, Accounted, NEW w \in Writer, SerializeTrace(w)
  PROVE  Accounted'
<1>1. PICK t : t = writer[w].trace
  OBVIOUS
<1>2. t \in Trace /\ outcome[t] = "pending" /\ outcome \in [Trace -> Outcome]
  <2>1. t \in Trace
    BY <1>1, SerializeTraceFrame DEF Base, Typed, WriterFramesOK
  <2> QED
    BY <1>1, <2>1, PendingInPlace DEF Base, Typed, TypeOK, ResultTypeOK
<1>3. keeps' = keeps
  BY DEF SerializeTrace
<1>4. CASE DropTrace(w)
  <2>1. drops' = drops + 1 /\ outcome' = [outcome EXCEPT ![t] = "dropped"]
    BY <1>1, <1>4 DEF DropTrace
  <2>2. Settled({"sent"})' = Settled({"sent"})
    BY <1>2, <2>1 DEF Settled
  <2>3. /\ Settled({"dropped", "rejected"})' = Settled({"dropped", "rejected"}) \cup {t}
        /\ t \notin Settled({"dropped", "rejected"})
    BY <1>2, <2>1 DEF Settled
  <2>4. IsFiniteSet(Settled({"dropped", "rejected"}) \cup {t})
        /\ Cardinality(Settled({"dropped", "rejected"}) \cup {t}) =
              Cardinality(Settled({"dropped", "rejected"})) + 1
    BY <2>3, FS_AddElement DEF Accounted
  <2> QED
    BY <1>3, <2>1, <2>2, <2>3, <2>4 DEF Accounted
<1>5. CASE ~DropTrace(w)
  <2>1. drops' = drops /\ (outcome' = outcome \/ outcome' = [outcome EXCEPT ![t] = "thrown"])
    BY <1>1, <1>5 DEF SerializeTrace, TryEnterFails, SerializeToTemporary,
       SerializeThrows, CopyToBuffer, SwapBuffers, PublishSwap, RequestFlush,
       CompleteRequest
  <2>2. /\ Settled({"sent"})' = Settled({"sent"})
        /\ Settled({"dropped", "rejected"})' = Settled({"dropped", "rejected"})
    BY <1>2, <2>1 DEF Settled
  <2> QED
    BY <1>3, <2>1, <2>2 DEF Accounted
<1> QED
  BY <1>4, <1>5

(* A batch gets an outcome.                                                *)
LEMMA FlushBuffersAccounted ==
  ASSUME Base, Conserved, Accounted, NEW f \in Flusher, FlushBuffers(f)
  PROVE  Accounted'
<1>1. CASE UNCHANGED resultVars
  BY <1>1 DEF resultVars, Accounted, Settled
<1>2. CASE SendSucceeds(f) \/ SendFails(f)
  <2>1. PICK b : b = Current(f)
    OBVIOUS
  <2>2. b \in Buffer /\ Owns(f, b) /\ flusher[f].pc = "sending"
        /\ flusher[f].payload = buffer[b].traces
    <3>1. flusher[f].pc = "sending"
      BY <1>2 DEF SendSucceeds, SendFails
    <3>2. Current(f) \in Buffer
      BY <3>1 DEF Base, Typed, FlusherFramesOK, TypeOK, FlusherTypeOK, FlusherFrame, Current
    <3> QED
      BY <2>1, <3>1, <3>2 DEF Owns, Base, Exclusive, PayloadStable
  <2>3. Live(b)
    BY <2>2 DEF Live, Base, Exclusive, LockHasOneOwner
  <2>4. PICK batch : batch = Elements(buffer[b].traces)
    OBVIOUS
  <2>5. /\ \A t \in batch : t \in Trace /\ outcome[t] = "pending"
        /\ \A i, j \in 1..Len(buffer[b].traces) :
                     buffer[b].traces[i] = buffer[b].traces[j] => i = j
    BY <2>2, <2>3, <2>4, PendingInPlace
  <2>6. IsFiniteSet(batch) /\ Cardinality(batch) = Len(buffer[b].traces)
    <3>1. buffer[b].traces \in Seq(Trace)
      BY <2>2 DEF Base, Typed, TypeOK, BufferTypeOK, SpanBufferType
    <3> QED
      BY <2>4, <2>5, <3>1, CountSequence
  <2>7. \A result : Resolve(buffer[b].traces, result) =>
             outcome' = [t \in Trace |-> IF t \in batch THEN result ELSE outcome[t]]
    BY <2>4 DEF Resolve, Elements
  <2>8. CASE SendSucceeds(f)
    <3>1. /\ keeps' = keeps + Len(buffer[b].traces) /\ drops' = drops
          /\ outcome' = [t \in Trace |-> IF t \in batch THEN "sent" ELSE outcome[t]]
      BY <2>1, <2>2, <2>7, <2>8 DEF SendSucceeds, TraceCount
    <3>2. /\ Settled({"sent"})' = Settled({"sent"}) \cup batch
          /\ Settled({"sent"}) \cap batch = {}
          /\ Settled({"dropped", "rejected"})' = Settled({"dropped", "rejected"})
      BY <2>5, <3>1 DEF Settled
    <3> QED
      BY <2>6, <3>1, <3>2, CountBatch DEF Accounted
  <2>9. CASE SendFails(f)
    <3>1. /\ drops' = drops + Len(buffer[b].traces) /\ keeps' = keeps
          /\ outcome' = [t \in Trace |-> IF t \in batch THEN "rejected" ELSE outcome[t]]
      BY <2>1, <2>2, <2>7, <2>9 DEF SendFails, TraceCount
    <3>2. /\ Settled({"dropped", "rejected"})' = Settled({"dropped", "rejected"}) \cup batch
          /\ Settled({"dropped", "rejected"}) \cap batch = {}
          /\ Settled({"sent"})' = Settled({"sent"})
      BY <2>5, <3>1 DEF Settled
    <3> QED
      BY <2>6, <3>1, <3>2, CountBatch DEF Accounted
  <2> QED
    BY <1>2, <2>8, <2>9
<1> QED
  BY <1>1, <1>2 DEF FlushBuffers, ReadActiveBuffer, ChooseBuffers, ReadFlushTask,
     LockBuffer, LockFails, StoreFlushTask, ClearBuffer, NextBuffer

LEMMA AccountedStep ==
  ASSUME Base, Orderly, Conserved, Accounted, [Next]_vars
  PROVE  Accounted'
<1>1. CASE UNCHANGED resultVars
  BY <1>1 DEF resultVars, Accounted, Settled
<1> QED
  BY <1>1, SerializeTraceAccounted, FlushBuffersAccounted DEF Next, WriteTrace,
     SerializeTracesLoop, FlushBuffersTaskLoop, FlushTraces, FlushAndClose, vars

-----------------------------------------------------------------------------
LEMMA OneAtATimeStep ==
  Base /\ Orderly /\ OneAtATime /\ [Next]_vars => OneAtATime'
<1> SUFFICES ASSUME Base, Orderly, OneAtATime, [Next]_vars, SingleWriter'
             PROVE  (CopiesOwnTrace /\ Conserved /\ Accounted)'
  BY DEF OneAtATime
<1>1. SingleWriter
  BY SingleWriterBefore
<1>2. CopiesOwnTrace /\ Conserved /\ Accounted
  BY <1>1 DEF OneAtATime
<1> QED
  BY <1>1, <1>2, CopiesOwnTraceStep, ConservedStep, AccountedStep

LEMMA InitOneAtATime == Init => OneAtATime
<1>1. Init => CopiesOwnTrace
  BY DEF Init, CopiesOwnTrace, IdleWriter
<1> QED
  BY <1>1, InitConserved, InitAccounted DEF OneAtATime

LEMMA ConservationInvariant == Spec => [](Base /\ Orderly /\ OneAtATime)
<1>1. Base /\ Orderly /\ OneAtATime /\ [Next]_vars => (Base /\ Orderly /\ OneAtATime)'
  BY BaseStep, OrderlyStep, OneAtATimeStep
<1> QED
  BY InitBase, InitOrderly, InitOneAtATime, <1>1, PTL DEF Spec

(* Conservation of traces, for every number of threads, callers and traces *)
(* and every buffer size: at every moment each trace is in exactly one     *)
(* place of the pipeline, so that WriteTrace, SerializeTrace, SwapBuffers  *)
(* and InternalBufferFlush together lose none and double none.             *)
THEOREM TracesConserved == Spec => []EveryTraceInOnePlace
<1>1. Conserved => \A t \in Trace : \E x \in Places(t) : Places(t) = {x}
  <2> SUFFICES ASSUME Conserved, NEW t \in Trace
               PROVE  \E x \in Places(t) : Places(t) = {x}
    OBVIOUS
  <2>1. PICK x : x \in Places(t)
    BY DEF Conserved
  <2>2. Places(t) = {x}
    BY <2>1 DEF Conserved
  <2> QED
    BY <2>1, <2>2
<1>2. OneAtATime => EveryTraceInOnePlace
  BY <1>1 DEF OneAtATime, EveryTraceInOnePlace
<1> QED
  BY <1>2, ConservationInvariant, PTL

(* The calls of IncrementKeeps and IncrementDrops in SendTracesAsync and   *)
(* SerializeTrace tell the calculator of every trace exactly once, and of  *)
(* none that is still under way, however sends fail and buffers swap.      *)
THEOREM RatesExact == Spec => []RatesAccountForTraces
<1>1. OneAtATime => RatesAccountForTraces
  BY DEF OneAtATime, Accounted, Settled, RatesAccountForTraces
<1> QED
  BY <1>1, ConservationInvariant, PTL

-----------------------------------------------------------------------------
(* Sends and clears.                                                       *)

(* What a step of FlushBuffers does to the frames.                         *)
LEMMA FlushBuffersFrame ==
  ASSUME Base, NEW f \in Flusher, FlushBuffers(f)
  PROVE  /\ \A g \in Flusher \ {f} :
               /\ flusher'[g].pc = flusher[g].pc
               /\ flusher'[g].todo = flusher[g].todo
               /\ flusher'[g].stored = flusher[g].stored
               /\ flusher'[g].payload = flusher[g].payload
         /\ \/ /\ LockBuffer(f) /\ flusher[f].pc = "lock"
               /\ flusher'[f].todo = flusher[f].todo
               /\ flusher'[f].payload = buffer[Current(f)].traces
               /\ flusher'[f].pc = IF TraceCount(buffer[Current(f)]) > 0
                                   THEN "sending" ELSE "clear"
            \/ /\ SendSucceeds(f) \/ SendFails(f)
               /\ flusher[f].pc = "sending" /\ flusher'[f].pc = "clear"
               /\ flusher'[f].todo = flusher[f].todo
               /\ flusher'[f].payload = flusher[f].payload
            \/ /\ ClearBuffer(f) /\ flusher[f].pc = "clear"
               /\ flusher'[f].pc = "flushed"
               /\ flusher'[f].todo = flusher[f].todo
               /\ flusher'[f].stored = flusher[f].stored
            \/ /\ StoreFlushTask(f) /\ flusher'[f].stored
               /\ flusher'[f].pc = flusher[f].pc
               /\ flusher'[f].todo = flusher[f].todo
               /\ flusher'[f].payload = flusher[f].payload
            \/ /\ \/ ReadActiveBuffer(f) \/ ChooseBuffers(f) \/ ReadFlushTask(f)
                  \/ LockFails(f) \/ NextBuffer(f)
               /\ flusher[f].pc \notin {"sending", "clear"}
               /\ flusher'[f].pc \notin {"sending", "clear"}
<1>1. flusher \in [Flusher -> FlusherFrame] /\ flusher[f] \in FlusherFrame
  BY DEF Base, Typed, TypeOK, FlusherTypeOK
<1>2. CASE ClearBuffer(f)
  <2>1. flusher'[f] = [flusher[f] EXCEPT !.pc = "flushed", !.payload = <<>>]
    BY <1>2 DEF ClearBuffer
  <2>2. ASSUME NEW g \in Flusher \ {f}
        PROVE  \/ flusher'[g] = [flusher[g] EXCEPT !.previous = NoThread]
               \/ flusher'[g] = [flusher[g] EXCEPT !.previous = flusher[g].previous]
    BY <1>2 DEF ClearBuffer
  <2>3. flusher[f].pc = "clear"
    BY <1>2 DEF ClearBuffer
  <2>4. /\ flusher'[f].pc = "flushed" /\ flusher'[f].todo = flusher[f].todo
        /\ flusher'[f].stored = flusher[f].stored
    BY <1>1, <2>1 DEF FlusherFrame
  <2>5. ASSUME NEW g \in Flusher \ {f}
        PROVE  /\ flusher'[g].pc = flusher[g].pc
               /\ flusher'[g].todo = flusher[g].todo
               /\ flusher'[g].stored = flusher[g].stored
               /\ flusher'[g].payload = flusher[g].payload
    <3>1. flusher[g] \in FlusherFrame
      BY <1>1
    <3> QED
      BY <2>2, <3>1 DEF FlusherFrame
  <2> QED
    BY <1>2, <2>3, <2>4, <2>5
<1>3. ASSUME ~ClearBuffer(f)
      PROVE  \A g \in Flusher \ {f} : flusher'[g] = flusher[g]
  BY <1>1, <1>3 DEF FlushBuffers, ReadActiveBuffer, ChooseBuffers, ReadFlushTask,
     LockBuffer, LockFails, StoreFlushTask, SendSucceeds, SendFails, NextBuffer
<1>4. CASE LockBuffer(f) /\ ~ClearBuffer(f)
  BY <1>1, <1>3, <1>4 DEF LockBuffer, FlusherFrame
<1>5. CASE (SendSucceeds(f) \/ SendFails(f)) /\ ~ClearBuffer(f)
  BY <1>1, <1>3, <1>5 DEF SendSucceeds, SendFails, FlusherFrame
<1>6. CASE StoreFlushTask(f) /\ ~ClearBuffer(f)
  BY <1>1, <1>3, <1>6 DEF StoreFlushTask, FlusherFrame
<1>7. CASE (\/ ReadActiveBuffer(f) \/ ChooseBuffers(f) \/ ReadFlushTask(f)
            \/ LockFails(f) \/ NextBuffer(f)) /\ ~ClearBuffer(f)
  <2>1. flusher[f].pc \notin {"sending", "clear"}
    BY <1>7 DEF ReadActiveBuffer, ChooseBuffers, ReadFlushTask, LockFails, NextBuffer
  <2>2. flusher'[f].pc \notin {"sending", "clear"}
    <3>1. CASE ReadActiveBuffer(f)
      BY <1>1, <3>1 DEF ReadActiveBuffer, FlusherFrame
    <3>2. CASE ChooseBuffers(f)
      BY <1>1, <3>2 DEF ChooseBuffers, FlusherFrame
    <3>3. CASE ReadFlushTask(f)
      BY <1>1, <3>3 DEF ReadFlushTask, FlusherFrame
    <3>4. CASE LockFails(f)
      BY <1>1, <3>4 DEF LockFails, FlusherFrame
    <3>5. CASE NextBuffer(f)
      BY <1>1, <3>5 DEF NextBuffer, IdleFlusher
    <3> QED
      BY <1>7, <3>1, <3>2, <3>3, <3>4, <3>5
  <2> QED
    BY <1>3, <1>7, <2>1, <2>2
<1> QED
  BY <1>2, <1>4, <1>5, <1>6, <1>7 DEF FlushBuffers

(* A step that starts no flush, or starts one in an idle frame.            *)
LEMMA OtherFlusherFrame ==
  ASSUME Base, \/ \E p \in Producer : WriteTrace(p)
               \/ \E w \in Writer : SerializeTrace(w)
               \/ SerializeTracesLoop \/ FlushBuffersTaskLoop
               \/ \E c \in Caller : FlushTraces(c)
               \/ FlushAndClose \/ UNCHANGED vars
  PROVE  \/ flusher' = flusher
         \/ \E f \in Flusher :
               /\ flusher[f].pc = "idle" /\ flusher'[f].pc = "read"
               /\ \A g \in Flusher \ {f} : flusher'[g] = flusher[g]
<1>1. flusher \in [Flusher -> FlusherFrame] /\ FlushLoop \in Flusher
      /\ CloseFlush \in Flusher /\ \A c \in Caller : c \in Flusher
  BY DEF Base, Typed, TypeOK, FlusherTypeOK, Flusher
<1>2. ASSUME NEW f \in Flusher, StartFlush(f), flusher[f].pc = "idle"
      PROVE  \E g \in Flusher :
               /\ flusher[g].pc = "idle" /\ flusher'[g].pc = "read"
               /\ \A h \in Flusher \ {g} : flusher'[h] = flusher[h]
  <2>1. flusher'[f].pc = "read" /\ \A h \in Flusher \ {f} : flusher'[h] = flusher[h]
    BY <1>1, <1>2 DEF StartFlush, FlusherFrame
  <2> QED
    BY <1>2, <2>1
<1>3. /\ loopPc # "flushing" => flusher[FlushLoop].pc = "idle"
      /\ \A c \in Caller : call[c].pc # "flushing" => flusher[c].pc = "idle"
      /\ close.pc = "check" => flusher[CloseFlush].pc = "idle"
  BY DEF Base, Exclusive, FlusherFree
<1>4. CASE FlushBuffersTaskLoop
  BY <1>1, <1>2, <1>3, <1>4 DEF FlushBuffersTaskLoop, LoopWakes, LoopReplacesForceFlush,
                          LoopRepeats
<1>5. ASSUME NEW c \in Caller, FlushTraces(c)
      PROVE  \/ flusher' = flusher
             \/ StartFlush(c) /\ flusher[c].pc = "idle"
  BY <1>3, <1>5 DEF FlushTraces, BeginFlushTraces, EnqueueWatermark, WakeSerializer,
                    FlushAllBuffers
<1>6. CASE FlushAndClose
  BY <1>1, <1>2, <1>3, <1>6 DEF FlushAndClose, BeginClose, CloseWakesSerializer,
     CloseAwaitsSerialization, CloseAwaitsFlushLoop, CloseChecksBuffers, CloseForced
<1>7. CASE \/ \E p \in Producer : WriteTrace(p)
           \/ \E w \in Writer : SerializeTrace(w)
           \/ SerializeTracesLoop \/ UNCHANGED vars
  BY <1>7 DEF WriteTrace, SerializeTrace, SerializeTracesLoop, vars
<1> QED
  BY <1>1, <1>2, <1>4, <1>5, <1>6, <1>7

(* An outcome, once known, stays known.                                    *)
LEMMA OutcomeStays ==
  ASSUME Base, [Next]_vars
  PROVE  \A t \in Trace : outcome[t] # "pending" => outcome'[t] # "pending"
<1>1. outcome \in [Trace -> Outcome]
  BY DEF Base, Typed, TypeOK, ResultTypeOK
<1>2. ASSUME NEW w \in Writer, SerializeTrace(w)
      PROVE  \/ outcome' = outcome
             \/ \E t, end : end # "pending" /\ outcome' = [outcome EXCEPT ![t] = end]
  BY <1>2 DEF SerializeTrace, TryEnterFails, SerializeToTemporary, SerializeThrows,
     CopyToBuffer, SwapBuffers, PublishSwap, RequestFlush, CompleteRequest, DropTrace
<1>3. ASSUME NEW f \in Flusher, FlushBuffers(f)
      PROVE  \/ outcome' = outcome
             \/ \E traces, end : end # "pending" /\ Resolve(traces, end)
  BY <1>3 DEF FlushBuffers, ReadActiveBuffer, ChooseBuffers, ReadFlushTask, LockBuffer,
     LockFails, StoreFlushTask, SendSucceeds, SendFails, ClearBuffer, NextBuffer, resultVars
<1>4. CASE outcome' = outcome
  BY <1>4
<1>5. ASSUME NEW w \in Writer, SerializeTrace(w)
      PROVE  \A t \in Trace : outcome[t] # "pending" => outcome'[t] # "pending"
  BY <1>1, <1>2, <1>5
<1>6. ASSUME NEW f \in Flusher, FlushBuffers(f)
      PROVE  \A t \in Trace : outcome[t] # "pending" => outcome'[t] # "pending"
  BY <1>1, <1>3, <1>6 DEF Resolve
<1> QED
  BY <1>4, <1>5, <1>6 DEF Next, WriteTrace, SerializeTracesLoop, FlushBuffersTaskLoop,
     FlushTraces, FlushAndClose, vars, resultVars

LEMMA InitLanded == Init => Landed
  BY DEF Init, Landed, SendsSomething, ClearsSettled, IdleFlusher

(* What a flush holds locked changes only when it clears it.               *)
LEMMA OwnedTraces ==
  ASSUME Base, [Next]_vars, NEW f \in Flusher, NEW b \in Buffer, Owns(f, b),
         ~ClearBuffer(f)
  PROVE  buffer'[b].traces = buffer[b].traces /\ buffer'[b].locked = buffer[b].locked
<1>1. /\ buffer \in [Buffer -> SpanBufferType] /\ buffer[b].locked
      /\ \A g \in Flusher : Owns(g, b) => g = f
  BY DEF Base, Typed, TypeOK, BufferTypeOK, Exclusive, LockHasOneOwner
<1>2. CASE buffer' = buffer
  BY <1>2
<1>3. ASSUME NEW w \in Writer, CopyToBuffer(w)
      PROVE  buffer'[b] = buffer[b]
  <2>1. monitor[writer[w].buffer] # NoThread /\ writer[w].buffer \in Buffer
    BY <1>3, ThreadAssumption DEF CopyToBuffer, Base, Exclusive, MonitorExcludes, Typed,
       TypeOK, WriterTypeOK, WriterFrame
  <2>2. writer[w].buffer # b
    BY <1>1, <2>1 DEF Base, Exclusive, MonitorExcludes
  <2> QED
    BY <1>1, <1>3, <2>2 DEF CopyToBuffer
<1>4. ASSUME NEW g \in Flusher, LockBuffer(g)
      PROVE  buffer'[b] = buffer[b]
  BY <1>1, <1>4 DEF LockBuffer
<1>5. ASSUME NEW g \in Flusher, ClearBuffer(g)
      PROVE  buffer'[b] = buffer[b]
  <2>1. g # f
    BY <1>5
  <2>2. Current(g) # b
    BY <1>1, <1>5, <2>1 DEF ClearBuffer, Owns
  <2> QED
    BY <1>1, <1>5, <2>2 DEF ClearBuffer
<1>6. \/ buffer' = buffer
      \/ \E w \in Writer : CopyToBuffer(w)
      \/ \E g \in Flusher : LockBuffer(g) \/ ClearBuffer(g)
  <2>1. ASSUME NEW w \in Writer, SerializeTrace(w)
        PROVE  buffer' = buffer \/ CopyToBuffer(w)
    BY <2>1 DEF SerializeTrace, TryEnterFails, SerializeToTemporary, SerializeThrows,
                SwapBuffers, PublishSwap, RequestFlush, CompleteRequest, DropTrace, bufferVars
  <2>2. ASSUME NEW g \in Flusher, FlushBuffers(g)
        PROVE  buffer' = buffer \/ LockBuffer(g) \/ ClearBuffer(g)
    BY <2>2 DEF FlushBuffers, ReadActiveBuffer, ChooseBuffers, ReadFlushTask,
                LockFails, StoreFlushTask, SendSucceeds, SendFails, NextBuffer
  <2> QED
    BY <2>1, <2>2 DEF Next, WriteTrace, SerializeTracesLoop, FlushBuffersTaskLoop,
                      FlushTraces, FlushAndClose, vars, bufferVars
<1> QED
  BY <1>2, <1>3, <1>4, <1>5, <1>6

LEMMA LandedStep == Base /\ Landed /\ [Next]_vars => Landed'
<1> SUFFICES ASSUME Base, Landed, [Next]_vars
             PROVE  Landed'
  OBVIOUS
<1>1. ASSUME NEW f \in Flusher, flusher[f].pc \notin {"idle", "read"}
      PROVE  Current(f) \in Buffer
  BY <1>1 DEF Base, Typed, TypeOK, FlusherTypeOK, FlusherFramesOK, FlusherFrame, Current
<1>2. /\ buffer \in [Buffer -> SpanBufferType] /\ outcome \in [Trace -> Outcome]
      /\ \A b \in Buffer : \A t \in Elements(buffer[b].traces) : t \in Trace
  <2>1. buffer \in [Buffer -> SpanBufferType] /\ outcome \in [Trace -> Outcome]
    BY DEF Base, Typed, TypeOK, BufferTypeOK, ResultTypeOK
  <2> QED
    BY <2>1 DEF SpanBufferType, Elements
<1>6. flusher \in [Flusher -> FlusherFrame] /\ \A f \in Flusher : flusher[f] \in FlusherFrame
  BY DEF Base, Typed, TypeOK, FlusherTypeOK
(* A frame that stays where it was.                                        *)
<1>3. ASSUME NEW f \in Flusher, flusher[f].pc = flusher'[f].pc,
             flusher[f].todo = flusher'[f].todo, flusher[f].payload = flusher'[f].payload
      PROVE  /\ flusher'[f].pc = "sending" => flusher'[f].payload # <<>>
             /\ flusher'[f].pc = "clear" =>
                   \A t \in Elements(buffer[Current(f)].traces)' : outcome'[t] # "pending"
  <2>1. flusher'[f].pc = "sending" => flusher'[f].payload # <<>>
    BY <1>3 DEF Landed, SendsSomething
  <2>2. ASSUME flusher'[f].pc = "clear"
        PROVE  \A t \in Elements(buffer[Current(f)].traces)' : outcome'[t] # "pending"
    <3>1. PICK b : b = Current(f)
      OBVIOUS
    <3>2. b \in Buffer /\ Owns(f, b) /\ Current(f)' = b
      BY <1>1, <1>3, <2>2, <3>1 DEF Owns, Current
    <3>3. ~ClearBuffer(f)
      <4>1. ClearBuffer(f) => flusher'[f].pc = "flushed"
        BY DEF ClearBuffer, Base, Typed, TypeOK, FlusherTypeOK, FlusherFrame
      <4> QED
        BY <2>2, <4>1
    <3>4. buffer'[b].traces = buffer[b].traces
      BY <3>2, <3>3, OwnedTraces
    <3>5. \A t \in Elements(buffer[b].traces) : outcome[t] # "pending" /\ t \in Trace
      BY <1>2, <1>3, <2>2, <3>1, <3>2 DEF Landed, ClearsSettled
    <3>6. Elements(buffer[Current(f)].traces)' = Elements(buffer[b].traces)
      BY <3>2, <3>4 DEF Elements
    <3> QED
      BY <3>5, <3>6, OutcomeStays
  <2> QED
    BY <2>1, <2>2
<1>4. CASE \/ \E p \in Producer : WriteTrace(p)
           \/ \E w \in Writer : SerializeTrace(w)
           \/ SerializeTracesLoop \/ FlushBuffersTaskLoop
           \/ \E c \in Caller : FlushTraces(c)
           \/ FlushAndClose \/ UNCHANGED vars
  <2>1. ASSUME NEW f \in Flusher
        PROVE  \/ flusher'[f].pc = "read"
               \/ /\ flusher[f].pc = flusher'[f].pc /\ flusher[f].todo = flusher'[f].todo
                  /\ flusher[f].payload = flusher'[f].payload
    BY <1>4, OtherFlusherFrame
  <2>2. ASSUME NEW f \in Flusher
        PROVE  /\ flusher'[f].pc = "sending" => flusher'[f].payload # <<>>
               /\ flusher'[f].pc = "clear" =>
                   \A t \in Elements(buffer[Current(f)].traces)' : outcome'[t] # "pending"
    BY <1>3, <2>1
  <2> QED
    BY <2>2 DEF Landed, SendsSomething, ClearsSettled
<1>5. ASSUME NEW f \in Flusher, FlushBuffers(f)
      PROVE  Landed'
  <2>1. ASSUME NEW g \in Flusher, g # f
        PROVE  /\ flusher'[g].pc = "sending" => flusher'[g].payload # <<>>
               /\ flusher'[g].pc = "clear" =>
                   \A t \in Elements(buffer[Current(g)].traces)' : outcome'[t] # "pending"
    BY <1>3, <1>5, <2>1, FlushBuffersFrame
  <2>2. /\ flusher'[f].pc = "sending" => flusher'[f].payload # <<>>
        /\ flusher'[f].pc = "clear" =>
             \A t \in Elements(buffer[Current(f)].traces)' : outcome'[t] # "pending"
    <3>1. CASE LockBuffer(f)
      <4>1. PICK b : b = Current(f)
        OBVIOUS
      <4>2. /\ b \in Buffer /\ flusher'[f].todo = flusher[f].todo
            /\ buffer' = [buffer EXCEPT ![b] = Locked(buffer[b])]
            /\ buffer[b] \in SpanBufferType
            /\ flusher'[f].payload = buffer[b].traces
            /\ flusher'[f].pc = IF TraceCount(buffer[b]) > 0 THEN "sending" ELSE "clear"
        BY <1>1, <1>2, <1>5, <3>1, <4>1, FlushBuffersFrame DEF LockBuffer, SendSucceeds,
           SendFails, ClearBuffer, StoreFlushTask, ReadActiveBuffer, ChooseBuffers,
           ReadFlushTask, LockFails, NextBuffer
      <4>3. buffer'[b].traces = buffer[b].traces
        BY <1>2, <4>2 DEF Locked, SpanBufferType
      <4>4. Elements(buffer[Current(f)].traces)' = Elements(buffer[b].traces)
        BY <4>1, <4>2, <4>3 DEF Elements, Current
      <4>5. Len(buffer[b].traces) \in Nat /\ buffer[b].traces \in Seq(Trace)
        BY <4>2 DEF SpanBufferType
      <4>6. TraceCount(buffer[b]) = 0 => Elements(buffer[b].traces) = {}
        BY <4>5 DEF Elements, TraceCount
      <4>7. TraceCount(buffer[b]) > 0 => buffer[b].traces # <<>>
        BY <4>5 DEF TraceCount
      <4> QED
        BY <4>2, <4>4, <4>5, <4>6, <4>7 DEF TraceCount
    <3>2. CASE SendSucceeds(f) \/ SendFails(f)
      <4>1. PICK b : b = Current(f)
        OBVIOUS
      <4>0. flusher[f].pc = "sending" /\ flusher[f].payload = buffer[b].traces
        BY <3>2, <4>1 DEF SendSucceeds, SendFails, Base, Exclusive, PayloadStable
      <4>2. /\ b \in Buffer /\ flusher'[f].todo = flusher[f].todo
            /\ flusher'[f].pc = "clear" /\ buffer' = buffer
            /\ flusher[f].payload = buffer[b].traces
        <5>1. flusher'[f] = [flusher[f] EXCEPT !.pc = "clear"] /\ buffer' = buffer
          BY <1>6, <3>2 DEF SendSucceeds, SendFails
        <5> QED
          BY <1>1, <1>6, <4>0, <4>1, <5>1 DEF FlusherFrame
      <4>3. \E end : end # "pending" /\ Resolve(buffer[b].traces, end)
        BY <3>2, <4>2 DEF SendSucceeds, SendFails
      <4>4. Elements(buffer[Current(f)].traces)' = Elements(buffer[b].traces)
        BY <4>1, <4>2 DEF Elements, Current
      <4>5. \A t \in Elements(buffer[b].traces) : outcome'[t] # "pending"
        BY <1>2, <4>2, <4>3 DEF Resolve, Elements
      <4> QED
        BY <4>2, <4>4, <4>5
    <3>3. CASE ClearBuffer(f)
      <4>1. flusher'[f] = [flusher[f] EXCEPT !.pc = "flushed", !.payload = <<>>]
        BY <3>3 DEF ClearBuffer
      <4>2. flusher'[f].pc = "flushed"
        BY <1>6, <4>1 DEF FlusherFrame
      <4> QED
        BY <4>2
    <3>4. CASE ~LockBuffer(f) /\ ~SendSucceeds(f) /\ ~SendFails(f) /\ ~ClearBuffer(f)
      BY <1>3, <1>5, <3>4, FlushBuffersFrame
    <3> QED
      BY <3>1, <3>2, <3>3, <3>4
  <2> QED
    BY <2>1, <2>2 DEF Landed, SendsSomething, ClearsSettled
<1> QED
  BY <1>4, <1>5 DEF Next

LEMMA LandedInvariant == Spec => []Landed
<1>1. Base /\ Landed /\ [Next]_vars => (Base /\ Landed)'
  BY BaseStep, LandedStep
<1> QED
  BY InitBase, InitLanded, <1>1, PTL DEF Spec
=============================================================================
