--------------------- MODULE AgentWriterDeliveryProofs ----------------------
(***************************************************************************)
(* What becomes of the traces, for every number of threads, flush calls    *)
(* and traces: the agent writer implements TraceDelivery as long as        *)
(* application threads do not serialize side by side; no buffer is         *)
(* stranded by a swap; flushing and closing leave nothing behind; a flush  *)
(* request is not lost.                                                    *)
(***************************************************************************)
EXTENDS AgentWriterProofs

InFlight(t) == \E S \in DeliveryBatches : t \in S

(* What the refinement rests on.                                           *)
Sound == Base /\ Orderly /\ CopiesOwnTrace /\ Conserved /\ Landed

-----------------------------------------------------------------------------
(* The abstract variables.                                                 *)

LEMMA StatusIs ==
  ASSUME NEW t \in Trace
  PROVE  /\ t \in fresh => DeliveryStatus[t] = "new"
         /\ t \notin fresh /\ outcome[t] # "pending" => DeliveryStatus[t] = outcome[t]
         /\ t \notin fresh /\ outcome[t] = "pending" =>
               /\ InFlight(t) => DeliveryStatus[t] = "travelling"
               /\ ~InFlight(t) /\ InBuffer(t) => DeliveryStatus[t] = "buffered"
               /\ ~InFlight(t) /\ ~InBuffer(t) => DeliveryStatus[t] = "accepted"
  BY DEF DeliveryStatus, InFlight, InBuffer

LEMMA StatusNext ==
  ASSUME NEW t \in Trace
  PROVE  /\ t \in fresh' => DeliveryStatus'[t] = "new"
         /\ t \notin fresh' /\ outcome'[t] # "pending" => DeliveryStatus'[t] = outcome'[t]
         /\ t \notin fresh' /\ outcome'[t] = "pending" =>
               /\ InFlight(t)' => DeliveryStatus'[t] = "travelling"
               /\ ~InFlight(t)' /\ InBuffer(t)' => DeliveryStatus'[t] = "buffered"
               /\ ~InFlight(t)' /\ ~InBuffer(t)' => DeliveryStatus'[t] = "accepted"
  BY DEF DeliveryStatus, InFlight, InBuffer

LEMMA StatusKept ==
  ASSUME NEW t \in Trace,
         t \in fresh' <=> t \in fresh,
         outcome'[t] = outcome[t],
         InFlight(t)' <=> InFlight(t),
         outcome[t] = "pending" => (InBuffer(t)' <=> InBuffer(t))
  PROVE  DeliveryStatus'[t] = DeliveryStatus[t]
  BY StatusIs, StatusNext

LEMMA StatusFunction ==
  /\ DeliveryStatus = [t \in Trace |-> DeliveryStatus[t]]
  /\ DeliveryStatus' = [t \in Trace |-> DeliveryStatus'[t]]
  BY DEF DeliveryStatus

(* Only sending frames matter to the batches.                              *)
LEMMA BatchesKept ==
  ASSUME \A f \in Flusher :
            /\ flusher'[f].pc = "sending" <=> flusher[f].pc = "sending"
            /\ flusher[f].pc = "sending" => flusher'[f].payload = flusher[f].payload
  PROVE  /\ DeliveryBatches' = DeliveryBatches
         /\ \A t : InFlight(t)' <=> InFlight(t)
<1>1. DeliveryBatches' = DeliveryBatches
  BY DEF DeliveryBatches, Elements
<1> QED
  BY <1>1 DEF InFlight

LEMMA BufferKept ==
  ASSUME \A b \in Buffer : buffer'[b].traces = buffer[b].traces
  PROVE  \A t : InBuffer(t)' <=> InBuffer(t)
  BY DEF InBuffer, Holds

(* A step that nobody at this level sees.                                  *)
LEMMA Unseen ==
  ASSUME UNCHANGED <<fresh, outcome, DeliveryBatches>>,
         \A t \in Trace : outcome[t] = "pending" => (InBuffer(t)' <=> InBuffer(t))
  PROVE  UNCHANGED <<DeliveryStatus, DeliveryBatches>>
<1>1. \A t : InFlight(t)' <=> InFlight(t)
  BY DEF InFlight
<1>2. \A t \in Trace : DeliveryStatus'[t] = DeliveryStatus[t]
  BY <1>1, StatusKept
<1> QED
  BY <1>2, StatusFunction

LEMMA CardinalityThere ==
  Delivery!Cardinality(DeliveryBatches) = Cardinality(DeliveryBatches)
  BY DEF Delivery!Cardinality, Cardinality, Delivery!IsFiniteSet, IsFiniteSet

-----------------------------------------------------------------------------
(* Where a trace is decides its status.                                    *)

LEMMA SendingStored ==
  ASSUME Sound, NEW f \in Flusher, flusher[f].pc = "sending"
  PROVE  /\ Current(f) \in Buffer /\ Live(Current(f)) /\ Owns(f, Current(f))
         /\ buffer[Current(f)].locked
         /\ flusher[f].payload = buffer[Current(f)].traces
<1>1. Current(f) \in Buffer
  BY DEF Sound, Base, Typed, TypeOK, FlusherTypeOK, FlusherFramesOK, FlusherFrame, Current
<1>2. Owns(f, Current(f)) /\ \A g \in Flusher : Owns(g, Current(f)) => g = f
  BY <1>1 DEF Owns, Sound, Base, Exclusive, LockHasOneOwner
<1>3. Live(Current(f))
  BY <1>2 DEF Live
<1> QED
  BY <1>1, <1>2, <1>3 DEF Sound, Base, Exclusive, LockHasOneOwner, PayloadStable

LEMMA FlightStored ==
  ASSUME Sound, NEW f \in Flusher, flusher[f].pc = "sending", NEW t \in Trace,
         t \in Elements(flusher[f].payload)
  PROVE  \E i : Lies(t, Current(f), i)
  BY SendingStored DEF Elements, Lies, Stored

LEMMA BufferStored ==
  ASSUME Sound, NEW t \in Trace, InBuffer(t)
  PROVE  outcome[t] # "pending" \/ \E b \in Buffer : \E i : Lies(t, b, i)
<1>1. PICK b \in Buffer : Holds(b, t)
  BY DEF InBuffer
<1>2. CASE Live(b)
  BY <1>1, <1>2 DEF Lies, Stored, Holds
<1>3. CASE ~Live(b)
  BY <1>1, <1>3 DEF Live, Owns, Sound, Landed, ClearsSettled, Holds, Elements
<1> QED
  BY <1>2, <1>3

(* A trace that is unwritten or in a hand is neither sent nor stored.      *)
LEMMA ElsewhereMeans ==
  ASSUME Sound, NEW t \in Trace,
         t \in fresh \/ \E w \in Writer : writer[w].trace = t
  PROVE  outcome[t] = "pending" /\ ~InFlight(t) /\ ~InBuffer(t)
<1>1. PICK k, i : Lies(t, k, i) /\ k \notin Buffer /\ k # "settled"
  <2>1. CASE t \in fresh
    <3>1. Lies(t, "unwritten", 1)
      BY <2>1 DEF Lies
    <3> QED
      BY <3>1 DEF Buffer
  <2>2. ASSUME NEW w \in Writer, writer[w].trace = t
        PROVE  \E k, i : Lies(t, k, i) /\ k \notin Buffer /\ k # "settled"
    <3>1. Lies(t, "hand", w)
      BY <2>2 DEF Lies
    <3> QED
      BY <3>1 DEF Buffer
  <2> QED
    BY <2>1, <2>2
<1>2. \A l, j : Lies(t, l, j) => l = k
  BY <1>1, ConservedIs DEF Sound, OnlyPlace
<1>3. outcome[t] = "pending"
  BY <1>1, <1>2 DEF Lies
<1>4. ~InBuffer(t)
  BY <1>1, <1>2, <1>3, BufferStored
<1>5. ~InFlight(t)
  <2>1. SUFFICES ASSUME InFlight(t) PROVE FALSE
    OBVIOUS
  <2>2. PICK f \in Flusher : flusher[f].pc = "sending" /\ t \in Elements(flusher[f].payload)
    BY <2>1 DEF InFlight, DeliveryBatches
  <2>3. PICK b \in Buffer : b = Current(f)
    BY <2>2, SendingStored
  <2> QED
    BY <1>1, <1>2, <2>2, <2>3, FlightStored
<1> QED
  BY <1>3, <1>4, <1>5

LEMMA InHandMeans ==
  ASSUME Sound, NEW w \in Writer, writer[w].trace \in Trace
  PROVE  /\ DeliveryStatus[writer[w].trace] = "accepted"
         /\ writer[w].trace \notin fresh
<1>1. PICK t \in Trace : t = writer[w].trace
  OBVIOUS
<1>2. t \notin fresh
  BY <1>1, ConservedIs DEF Sound, OnlyPlace, Lies
<1> QED
  BY <1>1, <1>2, ElsewhereMeans, StatusIs

(* Two sends never carry the same trace.                                   *)
LEMMA BatchesDisjoint ==
  ASSUME Sound, NEW f \in Flusher, flusher[f].pc = "sending",
         NEW g \in Flusher, flusher[g].pc = "sending", NEW t \in Trace,
         t \in Elements(flusher[f].payload), t \in Elements(flusher[g].payload)
  PROVE  f = g
<1>1. PICK b \in Buffer, c \in Buffer : b = Current(f) /\ c = Current(g)
  BY SendingStored
<1>2. b = c
  BY <1>1, FlightStored, ConservedIs DEF Sound, OnlyPlace
<1> QED
  BY <1>1, <1>2, SendingStored DEF Sound, Base, Exclusive, LockHasOneOwner

-----------------------------------------------------------------------------
(* The steps.                                                              *)

LEMMA InitDelivery == Init => Delivery!Init
<1> SUFFICES ASSUME Init PROVE Delivery!Init
  OBVIOUS
<1>1. DeliveryBatches = {}
  BY DEF Init, DeliveryBatches, IdleFlusher
<1>2. \A t \in Trace : DeliveryStatus[t] = "new"
  BY StatusIs DEF Init
<1> QED
  BY <1>1, <1>2, StatusFunction DEF Delivery!Init

LEMMA WriteTraceDelivery ==
  ASSUME Sound, NEW p \in Producer, WriteTrace(p)
  PROVE  Delivery!Next \/ UNCHANGED <<DeliveryStatus, DeliveryBatches>>
<1>1. UNCHANGED <<outcome, buffer, flusher>>
  BY DEF WriteTrace, resultVars, bufferVars
<1>2. /\ DeliveryBatches' = DeliveryBatches
      /\ \A t : (InFlight(t)' <=> InFlight(t)) /\ (InBuffer(t)' <=> InBuffer(t))
  BY <1>1, BatchesKept, BufferKept
<1>3. CASE BeginWriteTrace(p)
  <2>1. PICK t \in fresh : fresh' = fresh \ {t}
    BY <1>3 DEF BeginWriteTrace
  <2>2. t \in Trace
    BY <2>1 DEF Sound, Base, Typed, TypeOK, QueueTypeOK
  <2>3. DeliveryStatus[t] = "new" /\ DeliveryStatus'[t] = "accepted"
    BY <1>1, <1>2, <2>1, <2>2, ElsewhereMeans, StatusIs, StatusNext
  <2>4. \A s \in Trace \ {t} : DeliveryStatus'[s] = DeliveryStatus[s]
    BY <1>1, <1>2, <2>1, StatusKept
  <2>5. DeliveryStatus' = [DeliveryStatus EXCEPT ![t] = "accepted"]
    BY <2>3, <2>4, StatusFunction
  <2> QED
    BY <1>2, <2>2, <2>3, <2>5 DEF Delivery!Next, Delivery!Accept
<1>4. CASE EnqueueTrace(p) \/ CheckMutex(p) \/ SetMutex(p)
  <2>1. fresh' = fresh
    BY <1>4 DEF EnqueueTrace, CheckMutex, SetMutex
  <2> QED
    BY <1>1, <1>2, <2>1, Unseen
<1> QED
  BY <1>3, <1>4 DEF WriteTrace

(* A trace in hand is given up.                                            *)
LEMMA GivenUp ==
  ASSUME Sound, NEW w \in Writer, writer[w].trace \in Trace,
         NEW why \in {"dropped", "thrown"},
         outcome' = [outcome EXCEPT ![writer[w].trace] = why],
         UNCHANGED <<fresh, buffer, flusher>>
  PROVE  Delivery!Next
<1>1. PICK t \in Trace : t = writer[w].trace
  OBVIOUS
<1>2. /\ DeliveryBatches' = DeliveryBatches
      /\ \A s : (InFlight(s)' <=> InFlight(s)) /\ (InBuffer(s)' <=> InBuffer(s))
  BY BatchesKept, BufferKept
<1>3. outcome'[t] = why /\ \A s \in Trace \ {t} : outcome'[s] = outcome[s]
  BY <1>1 DEF Sound, Base, Typed, TypeOK, ResultTypeOK
<1>4. DeliveryStatus[t] = "accepted" /\ DeliveryStatus'[t] = why
  BY <1>1, <1>3, InHandMeans, StatusNext
<1>5. \A s \in Trace \ {t} : DeliveryStatus'[s] = DeliveryStatus[s]
  BY <1>2, <1>3, StatusKept
<1>6. DeliveryStatus' = [DeliveryStatus EXCEPT ![t] = why]
  BY <1>4, <1>5, StatusFunction
<1> QED
  BY <1>2, <1>4, <1>6 DEF Delivery!Next, Delivery!GiveUp

LEMMA CopyToBufferDelivery ==
  ASSUME Sound, NEW w \in Writer, CopyToBuffer(w), fresh' = fresh, flusher' = flusher
  PROVE  Delivery!Next \/ UNCHANGED <<DeliveryStatus, DeliveryBatches>>
<1>1. PICK b \in Buffer, t \in Trace : b = writer[w].buffer /\ t = writer[w].trace
  BY DEF CopyToBuffer, Sound, Base, Typed, TypeOK, WriterTypeOK, WriterFrame,
         WriterFramesOK, WritingPc
<1>2. buffer \in [Buffer -> SpanBufferType] /\ outcome' = outcome
  BY DEF CopyToBuffer, Sound, Base, Typed, TypeOK, BufferTypeOK
<1>3. /\ DeliveryBatches' = DeliveryBatches
      /\ \A s : InFlight(s)' <=> InFlight(s)
  BY BatchesKept
<1>4. CASE HasRoom(buffer[b], Size[t])
  <2>1. temporaryBuffer = t
    BY <1>1 DEF Sound, CopiesOwnTrace, CopyToBuffer
  <2>2. buffer' = [buffer EXCEPT ![b] = WithContent(buffer[b], t, Size[t])]
    BY <1>1, <1>2, <1>4, <2>1 DEF CopyToBuffer
  <2>3. /\ buffer'[b].traces = Append(buffer[b].traces, t)
        /\ \A c \in Buffer \ {b} : buffer'[c] = buffer[c]
    <3>1. buffer[b] \in SpanBufferType
      BY <1>2
    <3> QED
      BY <1>2, <2>2, <3>1 DEF WithContent, SpanBufferType
  <2>4. buffer[b].traces \in Seq(Trace)
    BY <1>2 DEF SpanBufferType
  <2>5. Holds(b, t)' /\ \A s \in Trace \ {t} : Holds(b, s)' <=> Holds(b, s)
    BY <2>3, <2>4 DEF Holds
  <2>6. \A c \in Buffer \ {b} : \A s \in Trace : Holds(c, s)' <=> Holds(c, s)
    BY <2>3 DEF Holds
  <2>7. InBuffer(t)' /\ \A s \in Trace \ {t} : InBuffer(s)' <=> InBuffer(s)
    BY <2>5, <2>6 DEF InBuffer
  <2>8. t \notin fresh /\ outcome[t] = "pending" /\ ~InFlight(t)
    BY <1>1, InHandMeans, ElsewhereMeans
  <2>9. DeliveryStatus[t] = "accepted" /\ DeliveryStatus'[t] = "buffered"
    BY <1>1, <1>2, <1>3, <2>7, <2>8, InHandMeans, StatusNext
  <2>10. \A s \in Trace \ {t} : DeliveryStatus'[s] = DeliveryStatus[s]
    BY <1>2, <1>3, <2>7, StatusKept
  <2>11. DeliveryStatus' = [DeliveryStatus EXCEPT ![t] = "buffered"]
    BY <2>9, <2>10, StatusFunction
  <2> QED
    BY <1>3, <2>9, <2>11 DEF Delivery!Next, Delivery!Store
<1>5. CASE ~HasRoom(buffer[b], Size[t])
  <2>1. buffer' = [buffer EXCEPT ![b] = MarkFull(buffer[b])]
    BY <1>1, <1>2, <1>5 DEF CopyToBuffer
  <2>2. \A c \in Buffer : buffer'[c].traces = buffer[c].traces
    BY <1>2, <2>1 DEF MarkFull, SpanBufferType
  <2> QED
    BY <1>2, <1>3, <2>2, BufferKept, Unseen
<1> QED
  BY <1>4, <1>5

LEMMA SerializeTraceDelivery ==
  ASSUME Sound, NEW w \in Writer, SerializeTrace(w)
  PROVE  Delivery!Next \/ UNCHANGED <<DeliveryStatus, DeliveryBatches>>
<1>1. UNCHANGED <<fresh, flusher>>
  BY DEF SerializeTrace
<1>2. writer[w].trace \in Trace
  BY SerializeTraceFrame DEF Sound, Base, Typed, WriterFramesOK
<1>3. CASE SerializeThrows(w)
  <2>1. outcome' = [outcome EXCEPT ![writer[w].trace] = "thrown"] /\ buffer' = buffer
    BY <1>3 DEF SerializeThrows, bufferVars
  <2> QED
    BY <1>1, <1>2, <2>1, GivenUp
<1>4. CASE DropTrace(w)
  <2>1. outcome' = [outcome EXCEPT ![writer[w].trace] = "dropped"] /\ buffer' = buffer
    BY <1>4 DEF DropTrace, bufferVars
  <2> QED
    BY <1>1, <1>2, <2>1, GivenUp
<1>5. CASE ~SerializeThrows(w) /\ ~DropTrace(w) /\ ~CopyToBuffer(w)
  <2>1. UNCHANGED <<outcome, buffer>>
    BY <1>5 DEF SerializeTrace, TryEnterFails, SerializeToTemporary, SwapBuffers,
           PublishSwap, RequestFlush, CompleteRequest, bufferVars
  <2> QED
    BY <1>1, <2>1, BatchesKept, BufferKept, Unseen
<1> QED
  BY <1>1, <1>3, <1>4, <1>5, CopyToBufferDelivery

(* Locking a buffer that has traces sends them off as one batch.           *)
LEMMA LockBufferDelivery ==
  ASSUME Sound, NEW f \in Flusher, FlushBuffers(f), LockBuffer(f),
         TraceCount(buffer[Current(f)]) > 0
  PROVE  Delivery!Next
<1>1. PICK b \in Buffer : b = Current(f)
  BY DEF LockBuffer, Sound, Base, Typed, TypeOK, FlusherTypeOK, FlusherFramesOK,
         FlusherFrame, Current
<1>2. PICK batch : batch = Elements(buffer[b].traces)
  OBVIOUS
<1>3. /\ buffer \in [Buffer -> SpanBufferType] /\ buffer[b] \in SpanBufferType
      /\ flusher \in [Flusher -> FlusherFrame] /\ flusher[f] \in FlusherFrame
      /\ UNCHANGED <<fresh, outcome>>
  BY DEF Sound, Base, Typed, TypeOK, BufferTypeOK, FlusherTypeOK, FlushBuffers,
         LockBuffer, resultVars
<1>4. /\ buffer' = [buffer EXCEPT ![b] = Locked(buffer[b])] /\ ~buffer[b].locked
      /\ flusher[f].pc = "lock" /\ flusher'[f].pc = "sending"
      /\ flusher'[f].payload = buffer[b].traces
      /\ \A g \in Flusher \ {f} : flusher'[g] = flusher[g]
  BY <1>1, <1>3 DEF LockBuffer, FlusherFrame
<1>5. \A c \in Buffer : buffer'[c].traces = buffer[c].traces
  BY <1>3, <1>4 DEF Locked, SpanBufferType
<1>6. \A t : InBuffer(t)' <=> InBuffer(t)
  BY <1>5, BufferKept
(* The batch leaves.                                                       *)
<1>7. DeliveryBatches' = DeliveryBatches \cup {batch}
  <2>1. Elements(flusher'[f].payload) = batch
    BY <1>2, <1>4
  <2>2. \A g \in Flusher \ {f} : flusher'[g].pc = flusher[g].pc
                                 /\ flusher'[g].payload = flusher[g].payload
    BY <1>4
  <2>3. \A S : S \in DeliveryBatches <=>
                 \E g \in Flusher : flusher[g].pc = "sending" /\ S = Elements(flusher[g].payload)
    BY DEF DeliveryBatches
  <2>4. \A S : S \in DeliveryBatches' <=>
                 \E g \in Flusher : flusher'[g].pc = "sending" /\ S = Elements(flusher'[g].payload)
    BY DEF DeliveryBatches, Elements
  <2>5. ASSUME NEW S
        PROVE  S \in DeliveryBatches' <=> S \in DeliveryBatches \/ S = batch
    BY <1>4, <2>1, <2>2, <2>3, <2>4
  <2> QED
    BY <2>5
(* At most the other buffer is being sent.                                 *)
<1>8. Cardinality(DeliveryBatches) < 2
  <2>1. PICK other : other = Elements(buffer[Other(b)].traces)
    OBVIOUS
  <2>2. DeliveryBatches \subseteq {other}
    <3>1. SUFFICES ASSUME NEW g \in Flusher, flusher[g].pc = "sending"
                   PROVE  Elements(flusher[g].payload) = other
      BY DEF DeliveryBatches
    <3>2. Current(g) \in Buffer /\ Current(g) # b
      BY <1>4, <3>1, SendingStored
    <3>3. Current(g) = Other(b)
      BY <3>2 DEF Other, Buffer
    <3> QED
      BY <2>1, <3>1, <3>3, SendingStored
  <2>3. CASE DeliveryBatches = {}
    BY <2>3, FS_EmptySet
  <2>4. CASE DeliveryBatches = {other}
    BY <2>4, FS_Singleton
  <2> QED
    BY <2>2, <2>3, <2>4
<1>9. batch # {} /\ batch \subseteq Trace
  <2>1. buffer[b].traces \in Seq(Trace) /\ Len(buffer[b].traces) > 0
    BY <1>1, <1>3 DEF TraceCount, SpanBufferType
  <2>2. 1 \in 1..Len(buffer[b].traces)
    BY <2>1
  <2>3. batch = {buffer[b].traces[i] : i \in 1..Len(buffer[b].traces)}
    BY <1>2 DEF Elements
  <2>4. \A i \in 1..Len(buffer[b].traces) : buffer[b].traces[i] \in Trace
    BY <2>1
  <2> QED
    BY <2>2, <2>3, <2>4
<1>10. ASSUME NEW t \in batch
       PROVE  t \notin fresh /\ outcome[t] = "pending" /\ ~InFlight(t) /\ InBuffer(t)
  <2>1. t \in Trace
    BY <1>9
  <2>2. PICK i : Lies(t, b, i)
    <3>1. Live(b)
      BY <1>1, <1>4 DEF Live, Sound, Base, Exclusive, LockHasOneOwner
    <3> QED
      BY <1>2, <3>1 DEF Lies, Stored, Elements
  <2>3. \A l, j : Lies(t, l, j) => l = b
    BY <2>1, <2>2, ConservedIs DEF Sound, OnlyPlace
  <2>4. t \notin fresh /\ outcome[t] = "pending"
    <3>1. t \in fresh => Lies(t, "unwritten", 1)
      BY DEF Lies
    <3>2. outcome[t] # "pending" => Lies(t, "settled", 1)
      BY DEF Lies
    <3> QED
      BY <2>3, <3>1, <3>2 DEF Buffer
  <2>5. ~InFlight(t)
    <3>1. SUFFICES ASSUME InFlight(t) PROVE FALSE
      OBVIOUS
    <3>2. PICK g \in Flusher : flusher[g].pc = "sending" /\ t \in Elements(flusher[g].payload)
      BY <3>1 DEF InFlight, DeliveryBatches
    <3>3. buffer[Current(g)].locked
      BY <3>2, SendingStored
    <3>4. Current(g) = b
      BY <2>1, <2>3, <3>2, FlightStored
    <3> QED
      BY <1>4, <3>3, <3>4
  <2>6. InBuffer(t)
    BY <1>2 DEF InBuffer, Holds, Elements
  <2> QED
    BY <2>4, <2>5, <2>6
<1>11. \A t \in batch : DeliveryStatus[t] = "buffered"
  BY <1>9, <1>10, StatusIs
<1>12. \A t : InFlight(t)' <=> (InFlight(t) \/ t \in batch)
  BY <1>7 DEF InFlight
<1>13. \A t \in batch : DeliveryStatus'[t] = "travelling"
  BY <1>3, <1>9, <1>10, <1>12, StatusNext
<1>14. \A t \in Trace \ batch : DeliveryStatus'[t] = DeliveryStatus[t]
  BY <1>3, <1>6, <1>12, StatusKept
<1>15. DeliveryStatus' = [t \in Trace |-> IF t \in batch THEN "travelling"
                                          ELSE DeliveryStatus[t]]
  <2>1. \A t \in Trace : DeliveryStatus'[t] = IF t \in batch THEN "travelling"
                                              ELSE DeliveryStatus[t]
    BY <1>13, <1>14
  <2> QED
    BY <2>1, StatusFunction
<1>16. Delivery!Move(batch, "travelling")
  BY <1>15 DEF Delivery!Move
<1>17. Delivery!Dispatch(batch)
  BY <1>7, <1>8, <1>9, <1>11, <1>16, CardinalityThere DEF Delivery!Dispatch
<1> QED
  BY <1>9, <1>17 DEF Delivery!Next

(* The end of a send lands its batch.                                      *)
LEMMA SendDelivery ==
  ASSUME Sound, NEW f \in Flusher, FlushBuffers(f), NEW result \in {"sent", "rejected"},
         flusher[f].pc = "sending", Resolve(flusher[f].payload, result),
         flusher' = [flusher EXCEPT ![f].pc = "clear"], buffer' = buffer
  PROVE  Delivery!Next
<1>1. PICK batch : batch = Elements(flusher[f].payload)
  OBVIOUS
<1>2. /\ flusher \in [Flusher -> FlusherFrame] /\ flusher[f] \in FlusherFrame
      /\ outcome \in [Trace -> Outcome] /\ fresh' = fresh
  BY DEF Sound, Base, Typed, TypeOK, FlusherTypeOK, ResultTypeOK, FlushBuffers
<1>3. /\ flusher'[f].pc = "clear"
      /\ \A g \in Flusher \ {f} : flusher'[g] = flusher[g]
  BY <1>2 DEF FlusherFrame
<1>4. batch \subseteq Trace /\ batch # {}
  <2>1. flusher[f].payload \in Seq(Trace) /\ flusher[f].payload # <<>>
    BY <1>2 DEF Sound, Landed, SendsSomething, FlusherFrame
  <2>2. 1 \in 1..Len(flusher[f].payload)
    BY <2>1
  <2>3. batch = {flusher[f].payload[i] : i \in 1..Len(flusher[f].payload)}
    BY <1>1 DEF Elements
  <2>4. \A i \in 1..Len(flusher[f].payload) : flusher[f].payload[i] \in Trace
    BY <2>1
  <2> QED
    BY <2>2, <2>3, <2>4
<1>5. DeliveryBatches' = DeliveryBatches \ {batch} /\ batch \in DeliveryBatches
  <2>1. \A S : S \in DeliveryBatches <=>
                 \E g \in Flusher : flusher[g].pc = "sending" /\ S = Elements(flusher[g].payload)
    BY DEF DeliveryBatches
  <2>2. \A S : S \in DeliveryBatches' <=>
                 \E g \in Flusher : flusher'[g].pc = "sending" /\ S = Elements(flusher'[g].payload)
    BY DEF DeliveryBatches, Elements
  <2>3. ASSUME NEW g \in Flusher \ {f}, flusher[g].pc = "sending"
        PROVE  Elements(flusher[g].payload) # batch
    BY <1>1, <1>4, <2>3, BatchesDisjoint
  <2>4. ASSUME NEW S
        PROVE  S \in DeliveryBatches' <=> S \in DeliveryBatches /\ S # batch
    BY <1>1, <1>3, <2>1, <2>2, <2>3
  <2>5. batch \in DeliveryBatches
    BY <1>1, <2>1
  <2> QED
    BY <2>4, <2>5
<1>6. \A t \in batch : t \notin fresh /\ outcome'[t] = result
  <2>1. ASSUME NEW t \in batch
        PROVE  t \notin fresh
    BY <1>1, <1>4, <1>5, ElsewhereMeans DEF InFlight
  <2>2. ASSUME NEW t \in batch
        PROVE  outcome'[t] = result
    BY <1>1, <1>4 DEF Resolve, Elements
  <2> QED
    BY <2>1, <2>2
<1>7. \A t \in Trace \ batch : outcome'[t] = outcome[t]
  BY <1>1 DEF Resolve, Elements
<1>8. \A t \in batch : DeliveryStatus'[t] = result
  BY <1>2, <1>4, <1>6, StatusNext
<1>9. \A t \in Trace \ batch : DeliveryStatus'[t] = DeliveryStatus[t]
  <2>1. \A t : t \notin batch => (InFlight(t)' <=> InFlight(t))
    BY <1>5 DEF InFlight
  <2> QED
    BY <1>2, <1>7, <2>1, BufferKept, StatusKept
<1>10. DeliveryStatus' = [t \in Trace |-> IF t \in batch THEN result
                                          ELSE DeliveryStatus[t]]
  <2>1. \A t \in Trace : DeliveryStatus'[t] = IF t \in batch THEN result
                                              ELSE DeliveryStatus[t]
    BY <1>8, <1>9
  <2> QED
    BY <2>1, StatusFunction
<1>11. Delivery!Land(batch, result)
  BY <1>5, <1>10 DEF Delivery!Land, Delivery!Move
<1> QED
  BY <1>5, <1>11 DEF Delivery!Next

LEMMA FlushBuffersDelivery ==
  ASSUME Sound, NEW f \in Flusher, FlushBuffers(f)
  PROVE  Delivery!Next \/ UNCHANGED <<DeliveryStatus, DeliveryBatches>>
<1>1. /\ buffer \in [Buffer -> SpanBufferType] /\ fresh' = fresh
      /\ flusher \in [Flusher -> FlusherFrame] /\ flusher[f] \in FlusherFrame
  BY DEF Sound, Base, Typed, TypeOK, BufferTypeOK, FlusherTypeOK, FlushBuffers
<1>2. CASE SendSucceeds(f)
  BY <1>2, SendDelivery DEF SendSucceeds
<1>3. CASE SendFails(f)
  BY <1>3, SendDelivery DEF SendFails
<1>4. CASE LockBuffer(f) /\ TraceCount(buffer[Current(f)]) > 0
  BY <1>4, LockBufferDelivery
<1>5. CASE LockBuffer(f) /\ ~(TraceCount(buffer[Current(f)]) > 0)
  <2>1. PICK b : b = Current(f)
    OBVIOUS
  <2>2. /\ outcome' = outcome /\ buffer' = [buffer EXCEPT ![b] = Locked(buffer[b])]
        /\ flusher[f].pc = "lock" /\ flusher'[f].pc = "clear"
        /\ \A g \in Flusher \ {f} : flusher'[g] = flusher[g]
    BY <1>1, <1>5, <2>1 DEF LockBuffer, FlusherFrame, resultVars
  <2>3. \A c \in Buffer : buffer'[c].traces = buffer[c].traces
    BY <1>1, <2>2 DEF Locked, SpanBufferType
  <2> QED
    BY <1>1, <2>2, <2>3, BatchesKept, BufferKept, Unseen
<1>6. CASE ClearBuffer(f)
  <2>1. PICK b : b = Current(f)
    OBVIOUS
  <2>2. /\ outcome' = outcome /\ buffer' = [buffer EXCEPT ![b] = Cleared(buffer[b])]
        /\ flusher[f].pc = "clear"
    BY <1>1, <1>6, <2>1 DEF ClearBuffer, resultVars
  <2>3. flusher'[f].pc = "flushed"
    <3>1. flusher'[f] = [flusher[f] EXCEPT !.pc = "flushed", !.payload = <<>>]
      BY <1>6 DEF ClearBuffer
    <3> QED
      BY <1>1, <3>1 DEF FlusherFrame
  <2>4. /\ DeliveryBatches' = DeliveryBatches
    BY <1>6, <2>2, <2>3, BatchesKept, FlushBuffersFrame DEF Sound
  <2>5. ASSUME NEW t \in Trace, outcome[t] = "pending"
        PROVE  InBuffer(t)' <=> InBuffer(t)
    <3>1. ~Holds(b, t)
      BY <2>1, <2>2, <2>5 DEF Sound, Landed, ClearsSettled, Holds, Elements
    <3>2. b \in Buffer => ~Holds(b, t)'
      BY <1>1, <2>2 DEF Holds, Cleared, SpanBufferType
    <3>3. \A c \in Buffer \ {b} : Holds(c, t)' <=> Holds(c, t)
      BY <1>1, <2>2 DEF Holds
    <3> QED
      BY <3>1, <3>2, <3>3 DEF InBuffer
  <2> QED
    BY <1>1, <2>2, <2>4, <2>5, Unseen
<1>7. CASE ~SendSucceeds(f) /\ ~SendFails(f) /\ ~LockBuffer(f) /\ ~ClearBuffer(f)
  <2>1. UNCHANGED <<buffer, outcome>>
    BY <1>7 DEF FlushBuffers, ReadActiveBuffer, ChooseBuffers, ReadFlushTask, LockFails,
                StoreFlushTask, NextBuffer, resultVars
  <2>2. DeliveryBatches' = DeliveryBatches
    BY <1>7, BatchesKept, FlushBuffersFrame DEF Sound
  <2> QED
    BY <1>1, <2>1, <2>2, BufferKept, Unseen
<1> QED
  BY <1>2, <1>3, <1>4, <1>5, <1>6, <1>7

LEMMA OtherDelivery ==
  ASSUME Sound, \/ SerializeTracesLoop \/ FlushBuffersTaskLoop
                \/ \E c \in Caller : FlushTraces(c)
                \/ FlushAndClose \/ UNCHANGED vars
  PROVE  UNCHANGED <<DeliveryStatus, DeliveryBatches>>
<1>1. UNCHANGED <<fresh, outcome, buffer>>
  BY DEF SerializeTracesLoop, FlushBuffersTaskLoop, FlushTraces, FlushAndClose, vars,
         resultVars, bufferVars
<1>2. ASSUME NEW f \in Flusher
      PROVE  flusher'[f] = flusher[f] \/ (flusher[f].pc = "idle" /\ flusher'[f].pc = "read")
  <2>1. \/ flusher' = flusher
        \/ \E g \in Flusher :
              /\ flusher[g].pc = "idle" /\ flusher'[g].pc = "read"
              /\ \A h \in Flusher \ {g} : flusher'[h] = flusher[h]
    BY OtherFlusherFrame DEF Sound
  <2> QED
    BY <2>1
<1>3. DeliveryBatches' = DeliveryBatches
  BY <1>2, BatchesKept
<1> QED
  BY <1>1, <1>3, BufferKept, Unseen

LEMMA DeliveryStep ==
  Sound /\ [Next]_vars => [Delivery!Next]_<<DeliveryStatus, DeliveryBatches>>
  BY WriteTraceDelivery, SerializeTraceDelivery, FlushBuffersDelivery, OtherDelivery
     DEF Next

(* Whatever the interleaving of writers, flushers, calls and close, an     *)
(* accepted trace is buffered or given up, buffered traces leave in whole  *)
(* batches and at most once, and their outcome is final - while            *)
(* application threads do not serialize side by side.                      *)
THEOREM Refinement == Spec /\ []SingleWriter => ImplementsDelivery
<1>1. Base /\ Orderly /\ OneAtATime /\ Landed /\ SingleWriter => Sound
  BY DEF OneAtATime, Sound
<1>2. Init => Delivery!Init
  BY InitDelivery
<1>3. Sound /\ [Next]_vars => [Delivery!Next]_<<DeliveryStatus, DeliveryBatches>>
  BY DeliveryStep
<1> QED
  BY <1>1, <1>2, <1>3, ConservationInvariant, LandedInvariant, PTL
     DEF Spec, ImplementsDelivery, Delivery!Spec

(* With a single application thread that is no condition at all.           *)
THEOREM RefinementOneThread ==
  ASSUME \A p, q \in Producer : p = q
  PROVE  Spec => ImplementsDelivery
<1>1. SingleWriter
  BY DEF SingleWriter
<1> QED
  BY <1>1, Refinement, PTL

-----------------------------------------------------------------------------
(* Swapping buffers.                                                       *)

LEMMA OtherBuffer ==
  /\ \A b \in Buffer : Other(b) \in Buffer /\ Other(b) # b /\ Other(Other(b)) = b
  /\ \A b, c \in Buffer : b # c => c = Other(b)
  BY DEF Other, Buffer

(* What the operations of a buffer do to its traces and its marks.         *)
LEMMA BufferOperations ==
  ASSUME NEW old \in SpanBufferType
  PROVE  /\ Locked(old).locked /\ Locked(old).full = old.full
         /\ Locked(old).traces = old.traces /\ Locked(old).offset = old.offset
         /\ MarkFull(old).full /\ MarkFull(old).locked = old.locked
         /\ MarkFull(old).traces = old.traces /\ MarkFull(old).offset = old.offset
         /\ ~Cleared(old).full /\ ~Cleared(old).locked
         /\ Cleared(old).traces = <<>> /\ Cleared(old).offset = HeaderSize
         /\ \A content, size :
               /\ WithContent(old, content, size).full = old.full
               /\ WithContent(old, content, size).locked = old.locked
               /\ WithContent(old, content, size).traces = Append(old.traces, content)
               /\ WithContent(old, content, size).offset = old.offset + size
  BY DEF Locked, MarkFull, Cleared, WithContent, SpanBufferType

(* How a step of a flush can change a buffer.                              *)
LEMMA FlushBuffersBuffer ==
  ASSUME Base, NEW f \in Flusher, FlushBuffers(f)
  PROVE  \/ buffer' = buffer /\ ~LockBuffer(f) /\ ~ClearBuffer(f)
         \/ /\ LockBuffer(f) /\ Current(f) \in Buffer /\ ~buffer[Current(f)].locked
            /\ buffer' = [buffer EXCEPT ![Current(f)] = Locked(buffer[Current(f)])]
         \/ /\ ClearBuffer(f) /\ Current(f) \in Buffer /\ Owns(f, Current(f))
            /\ buffer' = [buffer EXCEPT ![Current(f)] = Cleared(buffer[Current(f)])]
<1>1. ASSUME flusher[f].pc \notin {"idle", "read"}
      PROVE  Current(f) \in Buffer
  BY <1>1 DEF Base, Typed, TypeOK, FlusherTypeOK, FlusherFramesOK, FlusherFrame, Current
<1>2. CASE LockBuffer(f)
  BY <1>1, <1>2 DEF LockBuffer
<1>3. CASE ClearBuffer(f)
  BY <1>1, <1>3 DEF ClearBuffer, Owns
<1>4. CASE ~LockBuffer(f) /\ ~ClearBuffer(f)
  BY <1>4 DEF FlushBuffers, ReadActiveBuffer, ChooseBuffers, ReadFlushTask, LockFails,
              StoreFlushTask, SendSucceeds, SendFails, NextBuffer
<1> QED
  BY <1>2, <1>3, <1>4

(* A buffer a flush works on stays marked, or is locked, or is empty.      *)
LEMMA FlushBuffersLeaves ==
  ASSUME Base, NEW f \in Flusher, FlushBuffers(f), NEW b \in Buffer,
         buffer[b].full \/ buffer[b].locked \/ TraceCount(buffer[b]) = 0
  PROVE  buffer'[b].full \/ buffer'[b].locked \/ TraceCount(buffer'[b]) = 0
<1>1. buffer \in [Buffer -> SpanBufferType]
  BY DEF Base, Typed, TypeOK, BufferTypeOK
<1> QED
  BY <1>1, FlushBuffersBuffer, BufferOperations DEF TraceCount

LEMMA InitSwap == Init => SwapInOrder /\ NotStranded
  BY DEF Init, SwapInOrder, NotStranded, IdleWriter, EmptyBuffer, TraceCount, WritingPc

LEMMA SerializeTraceSwap ==
  ASSUME Base, Orderly, SingleWriter, SwapInOrder, NotStranded,
         NEW w \in Writer, SerializeTrace(w)
  PROVE  SwapInOrder' /\ NotStranded'
<1>1. /\ writer \in [Writer -> WriterFrame]
      /\ buffer \in [Buffer -> SpanBufferType]
      /\ activeBuffer \in Buffer /\ writer[w].buffer \in Buffer
  BY DEF Base, Typed, TypeOK, WriterTypeOK, BufferTypeOK, SwapTypeOK, WriterFrame
<1>2. /\ writer[w].pc \in WritingPc
      /\ \A v \in Writer \ {w} : writer'[v] = writer[v]
  BY SerializeTraceFrame DEF Base
<1>3. \A v \in Writer \ {w} : writer'[v].pc \notin WritingPc
  BY <1>2, OneWriting
<1>4. ASSUME
         /\ writer'[w].pc \in WritingPc \ {"publish", "drop"} =>
               writer'[w].buffer = activeBuffer'
         /\ writer'[w].pc = "publish" => writer'[w].buffer = Other(activeBuffer)'
         /\ writer'[w].pc \in {"swap", "publish"} =>
               \/ buffer'[activeBuffer'].full \/ buffer'[activeBuffer'].locked
               \/ TraceCount(buffer'[activeBuffer']) = 0
      PROVE  SwapInOrder'
  BY <1>3, <1>4 DEF SwapInOrder, WritingPc
<1>5. CASE TryEnterFails(w)
  <2>1. buffer[activeBuffer].locked /\ writer[w].buffer = activeBuffer
    <3>1. writer[w].pc = "try" /\ writer[w].buffer = activeBuffer
      BY <1>5 DEF TryEnterFails, SwapInOrder, WritingPc
    <3>2. monitor[activeBuffer] = NoThread
      <4>1. SUFFICES ASSUME monitor[activeBuffer] # NoThread
                     PROVE  FALSE
        OBVIOUS
      <4>2. PICK v \in Writer : v = monitor[activeBuffer]
        BY <1>1, <4>1 DEF Base, Typed, TypeOK, BufferTypeOK
      <4>3. writer[v].pc = "copy"
        BY <1>1, <4>1, <4>2 DEF Orderly, MonitorHeld
      <4> QED
        BY <1>2, <3>1, <4>3, OneWriting DEF WritingPc
    <3> QED
      BY <1>5, <3>1, <3>2 DEF TryEnterFails, CanEnter
  <2>2. UNCHANGED <<buffer, activeBuffer>>
    BY <1>5 DEF TryEnterFails, bufferVars, swapVars
  <2>3. writer'[w].buffer = writer[w].buffer /\ writer'[w].pc \in {"swap", "drop"}
    BY <1>1, <1>5 DEF TryEnterFails, Refused, Goto, WriterFrame
  <2> QED
    BY <1>4, <2>1, <2>2, <2>3 DEF NotStranded
<1>6. CASE SerializeToTemporary(w) \/ RequestFlush(w) \/ CompleteRequest(w)
  <2>1. UNCHANGED <<buffer, activeBuffer>>
    BY <1>6 DEF SerializeToTemporary, RequestFlush, CompleteRequest, bufferVars, swapVars
  <2>2. writer[w].pc \in WritingPc \ {"publish", "drop"}
    BY <1>6 DEF SerializeToTemporary, RequestFlush, CompleteRequest, WritingPc
  <2>3. /\ writer'[w].pc \notin {"swap", "publish"}
        /\ writer'[w].buffer = writer[w].buffer \/ writer'[w].buffer = activeBuffer
    BY <1>1, <1>6 DEF SerializeToTemporary, RequestFlush, CompleteRequest, Goto, WriterFrame
  <2> QED
    BY <1>4, <2>1, <2>2, <2>3 DEF NotStranded, SwapInOrder
<1>7. CASE SerializeThrows(w) \/ DropTrace(w)
  <2>1. UNCHANGED <<buffer, activeBuffer>> /\ writer'[w].pc = "idle"
    BY <1>1, <1>7 DEF SerializeThrows, DropTrace, bufferVars, swapVars, Finish, IdleWriter
  <2> QED
    BY <1>4, <2>1 DEF NotStranded, WritingPc
<1>8. CASE CopyToBuffer(w)
  <2>1. writer[w].buffer = activeBuffer /\ activeBuffer' = activeBuffer
    BY <1>8 DEF CopyToBuffer, SwapInOrder, WritingPc, swapVars
  <2>2. \A c \in Buffer \ {activeBuffer} : buffer'[c] = buffer[c]
    BY <1>1, <1>8, <2>1 DEF CopyToBuffer
  <2>3. NotStranded'
    BY <2>1, <2>2 DEF NotStranded
  <2>4. CASE HasRoom(buffer[writer[w].buffer], Size[writer[w].trace])
    <3>1. writer'[w].pc = "idle"
      BY <1>1, <1>8, <2>4 DEF CopyToBuffer, Finish, IdleWriter
    <3> QED
      BY <1>4, <2>3, <3>1 DEF WritingPc
  <2>5. CASE ~HasRoom(buffer[writer[w].buffer], Size[writer[w].trace])
    <3>1. /\ buffer' = [buffer EXCEPT ![activeBuffer] = MarkFull(buffer[activeBuffer])]
          /\ Refused(w)
      BY <1>1, <1>8, <2>1, <2>5 DEF CopyToBuffer
    <3>2. buffer'[activeBuffer].full
      BY <1>1, <3>1, BufferOperations
    <3>3. writer'[w].buffer = activeBuffer /\ writer'[w].pc \in {"swap", "drop"}
      BY <1>1, <2>1, <3>1 DEF Refused, Goto, WriterFrame
    <3> QED
      BY <1>4, <2>1, <2>3, <3>2, <3>3
  <2> QED
    BY <2>4, <2>5
<1>9. CASE SwapBuffers(w)
  <2>1. UNCHANGED <<buffer, activeBuffer>> /\ writer[w].pc = "swap"
    BY <1>9 DEF SwapBuffers, bufferVars, swapVars
  <2>2. \/ writer'[w].pc = "drop"
        \/ writer'[w].pc = "publish" /\ writer'[w].buffer = Other(activeBuffer)
    BY <1>1, <1>9 DEF SwapBuffers, Goto, WriterFrame
  <2> QED
    BY <1>4, <2>1, <2>2 DEF NotStranded, SwapInOrder, Other
<1>10. CASE PublishSwap(w)
  <2>1. /\ writer[w].pc = "publish" /\ writer[w].buffer = Other(activeBuffer)
        /\ buffer' = buffer /\ activeBuffer' = Other(activeBuffer)
        /\ writer'[w].pc = "request" /\ writer'[w].buffer = activeBuffer'
    BY <1>1, <1>10 DEF PublishSwap, SwapInOrder, bufferVars, Goto, WriterFrame
  <2>2. \/ buffer[activeBuffer].full \/ buffer[activeBuffer].locked
        \/ TraceCount(buffer[activeBuffer]) = 0
    BY <2>1 DEF SwapInOrder
  <2>3. TraceCount(buffer[activeBuffer]) > 0 =>
           buffer[activeBuffer].full \/ buffer[activeBuffer].locked
    BY <2>2
  <2>4. NotStranded'
    BY <1>1, <2>1, <2>3, OtherBuffer DEF NotStranded
  <2> QED
    BY <1>4, <2>1, <2>4
<1> QED
  BY <1>5, <1>6, <1>7, <1>8, <1>9, <1>10 DEF SerializeTrace

LEMMA SwapStep ==
  ASSUME Base, Orderly, SingleWriter, SwapInOrder, NotStranded, [Next]_vars
  PROVE  SwapInOrder' /\ NotStranded'
<1>1. /\ writer \in [Writer -> WriterFrame] /\ Serializer \in Writer
      /\ activeBuffer \in Buffer
  BY DEF Base, Typed, TypeOK, WriterTypeOK, SwapTypeOK, Writer
<1>2. ASSUME UNCHANGED <<buffer, activeBuffer>>,
             \A w \in Writer : writer'[w].pc \in WritingPc =>
                \/ writer'[w].pc = "try" /\ writer'[w].buffer = activeBuffer
                \/ writer'[w].pc = writer[w].pc /\ writer'[w].buffer = writer[w].buffer
                \/ writer[w].pc = "complete" /\ writer'[w].pc = "stale"
                     /\ writer'[w].buffer = writer[w].buffer
      PROVE  SwapInOrder' /\ NotStranded'
  BY <1>2 DEF SwapInOrder, NotStranded, WritingPc, Other
<1>3. ASSUME NEW p \in Producer, WriteTrace(p)
      PROVE  SwapInOrder' /\ NotStranded'
  <2>1. p \in Writer /\ \A v \in Writer \ {p} : writer'[v] = writer[v]
    BY <1>3, WriteTraceFrame DEF Base
  <2>2. UNCHANGED <<buffer, activeBuffer>>
    BY <1>3 DEF WriteTrace, bufferVars, swapVars
  <2>3. writer'[p].pc \in WritingPc =>
           writer'[p].pc = "try" /\ writer'[p].buffer = activeBuffer
    <3>1. CASE BeginWriteTrace(p)
      BY <1>1, <2>1, <3>1 DEF BeginWriteTrace, Attempt, IdleWriter, WritingPc
    <3>2. CASE EnqueueTrace(p) \/ CheckMutex(p) \/ SetMutex(p)
      BY <1>1, <2>1, <3>2 DEF EnqueueTrace, CheckMutex, SetMutex, Goto, Finish,
                              IdleWriter, WriterFrame, WritingPc
    <3> QED
      BY <1>3, <3>1, <3>2 DEF WriteTrace
  <2> QED
    BY <1>2, <2>1, <2>2, <2>3
<1>4. ASSUME NEW f \in Flusher, FlushBuffers(f)
      PROVE  SwapInOrder' /\ NotStranded'
  <2>1. writer' = writer /\ activeBuffer' = activeBuffer
    BY <1>4, OtherStepsFrame
  <2>2. SwapInOrder'
    BY <1>1, <1>4, <2>1, FlushBuffersLeaves DEF SwapInOrder, Other
  <2>3. NotStranded'
    <3>1. /\ buffer \in [Buffer -> SpanBufferType] /\ buffer' \in [Buffer -> SpanBufferType]
          /\ \A b \in Buffer : TraceCount(buffer[b]) \in Nat /\ TraceCount(buffer'[b]) \in Nat
      <4>1. Base'
        BY <1>4, BaseStep DEF Next
      <4> QED
        BY <4>1 DEF Base, Typed, TypeOK, BufferTypeOK, SpanBufferType, TraceCount
    <3>2. ASSUME NEW b \in Buffer, b # activeBuffer
          PROVE  buffer'[b].full \/ buffer'[b].locked \/ TraceCount(buffer'[b]) = 0
      <4>1. buffer[b].full \/ buffer[b].locked \/ TraceCount(buffer[b]) = 0
        BY <3>1, <3>2 DEF NotStranded
      <4> QED
        BY <1>4, <4>1, FlushBuffersLeaves
    <3> QED
      BY <2>1, <3>1, <3>2 DEF NotStranded
  <2> QED
    BY <2>2, <2>3
<1>5. CASE SerializeTracesLoop
  <2>1. UNCHANGED <<buffer, activeBuffer>>
    BY <1>5 DEF SerializeTracesLoop, bufferVars, swapVars
  <2>2. writer' = writer
        \/ writer' = [writer EXCEPT ![Serializer] = Attempt(Head(pendingTraces))]
    BY <1>5 DEF SerializeTracesLoop, DequeueTrace, DequeueWatermark, QueueDrained,
           ExitCheck, SleepBatch, WaitMutex, ResetMutex
  <2> QED
    BY <1>1, <1>2, <2>1, <2>2 DEF Attempt
<1>6. CASE FlushBuffersTaskLoop
  <2>1. UNCHANGED <<buffer, activeBuffer>>
    BY <1>6 DEF FlushBuffersTaskLoop, bufferVars
  <2> QED
    BY <1>2, <1>6, <2>1, FlushBuffersTaskLoopFrame DEF Base
<1>7. CASE (\E c \in Caller : FlushTraces(c)) \/ FlushAndClose \/ UNCHANGED vars
  <2>1. buffer' = buffer
    BY <1>7 DEF FlushTraces, FlushAndClose, vars, bufferVars
  <2> QED
    BY <1>2, <1>7, <2>1, OtherStepsFrame
<1> QED
  BY <1>3, <1>4, <1>5, <1>6, <1>7, SerializeTraceSwap DEF Next

(* ChooseBuffers flushes the fallback buffer only when it is full; even so *)
(* no trace is stranded in one, for any number of callers and traces: the  *)
(* writer swaps only away from a buffer that is full, locked or empty.     *)
THEOREM FallbackDrained == Spec => []FallbackNotStranded
<1> DEFINE Inv == Base /\ Orderly /\ (SingleWriter => SwapInOrder /\ NotStranded)
<1>1. Init => Inv
  BY InitBase, InitOrderly, InitSwap
<1>2. Inv /\ [Next]_vars => Inv'
  BY BaseStep, OrderlyStep, SingleWriterBefore, SwapStep
<1>3. Inv => FallbackNotStranded
  BY DEF FallbackNotStranded, NotStranded
<1> QED
  BY <1>1, <1>2, <1>3, PTL DEF Spec

-----------------------------------------------------------------------------
(* What a step does to the traces that a flush or a close is asked for.    *)

LEMMA BufferSteps ==
  ASSUME [Next]_vars
  PROVE  \/ buffer' = buffer
         \/ \E w \in Writer : CopyToBuffer(w)
         \/ \E f \in Flusher : FlushBuffers(f) /\ (LockBuffer(f) \/ ClearBuffer(f))
<1>1. ASSUME NEW w \in Writer, SerializeTrace(w)
      PROVE  buffer' = buffer \/ CopyToBuffer(w)
  BY <1>1 DEF SerializeTrace, TryEnterFails, SerializeToTemporary, SerializeThrows,
              SwapBuffers, PublishSwap, RequestFlush, CompleteRequest, DropTrace, bufferVars
<1>2. ASSUME NEW f \in Flusher, FlushBuffers(f)
      PROVE  buffer' = buffer \/ LockBuffer(f) \/ ClearBuffer(f)
  BY <1>2 DEF FlushBuffers, ReadActiveBuffer, ChooseBuffers, ReadFlushTask,
              LockFails, StoreFlushTask, SendSucceeds, SendFails, NextBuffer
<1> QED
  BY <1>1, <1>2 DEF Next, WriteTrace, SerializeTracesLoop, FlushBuffersTaskLoop,
                    FlushTraces, FlushAndClose, vars, bufferVars

(* The content of a buffer changes by one copy or is cleared.              *)
LEMMA TracesChange ==
  ASSUME Base, [Next]_vars, NEW b \in Buffer
  PROVE  \/ buffer'[b].traces = buffer[b].traces
         \/ \E w \in Writer : CopyToBuffer(w)
               /\ buffer'[b].traces = Append(buffer[b].traces, temporaryBuffer)
         \/ \E f \in Flusher : FlushBuffers(f) /\ ClearBuffer(f) /\ Current(f) = b
               /\ Owns(f, b) /\ buffer'[b].traces = <<>>
<1>1. buffer \in [Buffer -> SpanBufferType] /\ buffer[b] \in SpanBufferType
      /\ writer \in [Writer -> WriterFrame]
  BY DEF Base, Typed, TypeOK, BufferTypeOK, WriterTypeOK
<1>2. ASSUME NEW w \in Writer, CopyToBuffer(w)
      PROVE  \/ buffer'[b].traces = buffer[b].traces
             \/ buffer'[b].traces = Append(buffer[b].traces, temporaryBuffer)
  <2>0. PICK c \in Buffer : c = writer[w].buffer
    BY <1>1 DEF WriterFrame
  <2>1. PICK size : size = Size[writer[w].trace]
    OBVIOUS
  <2>2. \/ buffer' = [buffer EXCEPT ![c] = WithContent(buffer[c], temporaryBuffer, size)]
        \/ buffer' = [buffer EXCEPT ![c] = MarkFull(buffer[c])]
    BY <1>1, <1>2, <2>0, <2>1 DEF CopyToBuffer
  <2> QED
    BY <1>1, <2>2, BufferOperations
<1>3. ASSUME NEW f \in Flusher, FlushBuffers(f), LockBuffer(f) \/ ClearBuffer(f)
      PROVE  \/ buffer'[b].traces = buffer[b].traces
             \/ /\ ClearBuffer(f) /\ Current(f) = b /\ Owns(f, b)
                /\ buffer'[b].traces = <<>>
  BY <1>1, <1>3, FlushBuffersBuffer, BufferOperations
<1> QED
  BY <1>2, <1>3, BufferSteps

LEMMA NewHold ==
  ASSUME Base, [Next]_vars, NEW b \in Buffer, NEW t, Holds(b, t)', ~Holds(b, t)
  PROVE  \E w \in Writer : CopyToBuffer(w) /\ temporaryBuffer = t
<1>1. buffer[b].traces \in Seq(Trace)
  BY DEF Base, Typed, TypeOK, BufferTypeOK, SpanBufferType
<1>2. buffer'[b].traces # <<>> /\ buffer'[b].traces # buffer[b].traces
  BY DEF Holds
<1>3. PICK w \in Writer : CopyToBuffer(w)
               /\ buffer'[b].traces = Append(buffer[b].traces, temporaryBuffer)
  BY <1>2, TracesChange
<1>4. PICK i \in 1..Len(buffer'[b].traces) : buffer'[b].traces[i] = t
  BY DEF Holds
<1>5. i = Len(buffer[b].traces) + 1
  BY <1>1, <1>3, <1>4 DEF Holds
<1> QED
  BY <1>1, <1>3, <1>4, <1>5

(* A trace leaves a buffer settled.                                        *)
LEMMA OldHold ==
  ASSUME Base, Landed, [Next]_vars, NEW b \in Buffer, NEW t \in Trace, Holds(b, t)
  PROVE  Holds(b, t)' \/ outcome[t] # "pending"
<1>1. buffer[b].traces \in Seq(Trace)
  BY DEF Base, Typed, TypeOK, BufferTypeOK, SpanBufferType
<1>2. CASE buffer'[b].traces = buffer[b].traces
  BY <1>2 DEF Holds
<1>3. CASE buffer'[b].traces = Append(buffer[b].traces, temporaryBuffer)
  BY <1>1, <1>3 DEF Holds
<1>4. ASSUME NEW f \in Flusher, ClearBuffer(f), Current(f) = b
      PROVE  outcome[t] # "pending"
  BY <1>4 DEF ClearBuffer, Landed, ClearsSettled, Elements, Holds
<1> QED
  BY <1>2, <1>3, <1>4, TracesChange

LEMMA DeliveredStays ==
  ASSUME Base, Landed, [Next]_vars, NEW t \in Trace, Delivered(t)
  PROVE  Delivered(t)'
  BY OldHold, OutcomeStays DEF Delivered, InBuffer

LEMMA UnderWayStays ==
  ASSUME Base, Landed, [Next]_vars, NEW t \in Trace, UnderWay(t)
  PROVE  UnderWay(t)'
<1>1. CASE outcome[t] # "pending"
  BY <1>1, OutcomeStays DEF UnderWay
<1>2. ASSUME NEW b \in Buffer, buffer[b].locked, Holds(b, t), outcome[t] = "pending"
      PROVE  buffer'[b].locked /\ Holds(b, t)'
  <2>1. PICK f \in Flusher : Owns(f, b)
    BY <1>2 DEF Base, Exclusive, LockHasOneOwner
  <2>2. ~ClearBuffer(f)
    BY <1>2, <2>1 DEF ClearBuffer, Owns, Landed, ClearsSettled, Elements, Holds
  <2> QED
    BY <1>2, <2>1, <2>2, OwnedTraces DEF Holds
<1> QED
  BY <1>1, <1>2 DEF UnderWay

(* No application thread takes a trace that was taken before.              *)
LEMMA HandedStays ==
  ASSUME Base, [Next]_vars, NEW t \in Trace, Handed(t)
  PROVE  Handed(t)'
<1>1. /\ writer \in [Writer -> WriterFrame] /\ Producer \subseteq Writer
      /\ Serializer \notin Producer /\ NoTrace \notin Trace
  BY ThreadAssumption DEF Base, Typed, TypeOK, WriterTypeOK, Writer
<1>2. ASSUME NEW p \in Producer, WriteTrace(p)
      PROVE  Handed(t)'
  <2>1. \A q \in Producer \ {p} : writer'[q].trace = writer[q].trace
    BY <1>1, <1>2, WriteTraceFrame DEF Base
  <2>2. writer'[p].trace # t /\ fresh' \subseteq fresh
    <3>1. CASE BeginWriteTrace(p)
      <4>1. PICK s \in fresh :
               /\ fresh' = fresh \ {s}
               /\ writer' = [writer EXCEPT ![p] =
                    IF SerializationCompleted THEN Attempt(s)
                    ELSE [IdleWriter EXCEPT !.pc = "enqueue", !.trace = s]]
        BY <3>1 DEF BeginWriteTrace
      <4>2. writer'[p].trace = s
        BY <1>1, <4>1 DEF Attempt, IdleWriter
      <4> QED
        BY <4>1, <4>2 DEF Handed
    <3>2. CASE EnqueueTrace(p)
      BY <1>1, <3>2 DEF EnqueueTrace, IdleWriter
    <3>3. CASE CheckMutex(p) \/ SetMutex(p)
      BY <1>1, <3>3 DEF CheckMutex, SetMutex, Goto, Finish, IdleWriter, WriterFrame, Handed
    <3> QED
      BY <1>2, <3>1, <3>2, <3>3 DEF WriteTrace
  <2> QED
    BY <2>1, <2>2 DEF Handed
<1>3. ASSUME NEW w \in Writer, SerializeTrace(w)
      PROVE  Handed(t)'
  <2>1. fresh' = fresh
    BY <1>3 DEF SerializeTrace
  <2> QED
    BY <1>1, <1>3, <2>1, SerializeTraceFrame DEF Base, Handed, IdleWriter
<1>4. CASE SerializeTracesLoop
  <2>1. /\ fresh' = fresh
        /\ writer' = writer
           \/ writer' = [writer EXCEPT ![Serializer] = Attempt(Head(pendingTraces))]
    BY <1>4 DEF SerializeTracesLoop, DequeueTrace, DequeueWatermark, QueueDrained,
           ExitCheck, SleepBatch, WaitMutex, ResetMutex
  <2> QED
    BY <1>1, <2>1 DEF Handed
<1>5. CASE FlushBuffersTaskLoop
  <2>1. fresh' = fresh
    BY <1>5 DEF FlushBuffersTaskLoop
  <2> QED
    BY <1>1, <1>5, <2>1, FlushBuffersTaskLoopFrame DEF Base, Handed
<1>6. CASE \/ \E f \in Flusher : FlushBuffers(f)
           \/ \E c \in Caller : FlushTraces(c)
           \/ FlushAndClose \/ UNCHANGED vars
  BY <1>6, OtherStepsFrame DEF Handed
<1> QED
  BY <1>2, <1>3, <1>4, <1>5, <1>6 DEF Next

-----------------------------------------------------------------------------
(* What a flush has passed over.                                           *)

LEMMA InitChooses == Init => OnlyLoopChooses
  BY DEF Init, OnlyLoopChooses, IdleFlusher

LEMMA ChoosesStep == Base /\ OnlyLoopChooses /\ [Next]_vars => OnlyLoopChooses'
<1> SUFFICES ASSUME Base, OnlyLoopChooses, [Next]_vars, NEW f \in Flusher,
                    flusher'[f].pc = "choose"
             PROVE  f = FlushLoop
  BY DEF OnlyLoopChooses
<1>1. flusher \in [Flusher -> FlusherFrame] /\ flusher[f] \in FlusherFrame
  BY DEF Base, Typed, TypeOK, FlusherTypeOK
<1>2. CASE flusher'[f].pc = flusher[f].pc
  BY <1>2 DEF OnlyLoopChooses
<1>3. CASE FlushBuffers(f)
  <2>1. CASE ReadActiveBuffer(f)
    BY <1>1, <2>1 DEF ReadActiveBuffer, FlusherFrame
  <2>2. CASE ChooseBuffers(f)
    BY <1>1, <2>2 DEF ChooseBuffers, FlusherFrame
  <2>3. CASE ReadFlushTask(f) \/ LockFails(f)
    BY <1>1, <2>3 DEF ReadFlushTask, LockFails, FlusherFrame
  <2>7. CASE NextBuffer(f)
    BY <1>1, <2>7 DEF NextBuffer, IdleFlusher
  <2>4. CASE LockBuffer(f) \/ SendSucceeds(f) \/ SendFails(f)
    BY <1>1, <2>4 DEF LockBuffer, SendSucceeds, SendFails, FlusherFrame
  <2>5. CASE StoreFlushTask(f)
    <3>1. flusher'[f].pc = flusher[f].pc
      BY <1>1, <2>5 DEF StoreFlushTask, FlusherFrame
    <3> QED
      BY <1>2, <3>1
  <2>6. CASE ClearBuffer(f)
    <3>1. flusher'[f] = [flusher[f] EXCEPT !.pc = "flushed", !.payload = <<>>]
      BY <2>6 DEF ClearBuffer
    <3> QED
      BY <1>1, <3>1 DEF FlusherFrame
  <2> QED
    BY <1>3, <2>1, <2>2, <2>3, <2>4, <2>5, <2>6, <2>7 DEF FlushBuffers
<1>4. ASSUME NEW g \in Flusher \ {f}, FlushBuffers(g)
      PROVE  flusher'[f].pc = flusher[f].pc
  BY <1>4, FlushBuffersFrame
<1>5. CASE ~\E g \in Flusher : FlushBuffers(g)
  <2>1. \/ flusher' = flusher
        \/ \E g \in Flusher :
              /\ flusher[g].pc = "idle" /\ flusher'[g].pc = "read"
              /\ \A h \in Flusher \ {g} : flusher'[h] = flusher[h]
    BY <1>5, OtherFlusherFrame DEF Next
  <2> QED
    BY <1>2, <2>1
<1> QED
  BY <1>2, <1>3, <1>4, <1>5

LEMMA HeadAndTail ==
  ASSUME NEW T, NEW s \in Seq(T), s # <<>>
  PROVE  /\ \A x \in Elements(s) : x = Head(s) \/ x \in Elements(Tail(s))
         /\ \A x \in Elements(Tail(s)) : x \in Elements(s)
<1>1. /\ Len(s) \in Nat \ {0} /\ Head(s) = s[1]
      /\ Len(Tail(s)) = Len(s) - 1
      /\ \A i \in 1..Len(s) - 1 : Tail(s)[i] = s[i + 1]
  OBVIOUS
<1>2. ASSUME NEW i \in 1..Len(s)
      PROVE  s[i] = Head(s) \/ s[i] \in Elements(Tail(s))
  <2>1. CASE i = 1
    BY <1>1, <2>1
  <2>2. CASE i # 1
    <3>1. i - 1 \in 1..Len(Tail(s)) /\ Tail(s)[i - 1] = s[i]
      BY <1>1, <2>2
    <3> QED
      BY <3>1 DEF Elements
  <2> QED
    BY <2>1, <2>2
<1>3. ASSUME NEW i \in 1..Len(Tail(s))
      PROVE  Tail(s)[i] \in Elements(s)
  <2>1. i + 1 \in 1..Len(s) /\ s[i + 1] = Tail(s)[i]
    BY <1>1
  <2> QED
    BY <2>1 DEF Elements
<1> QED
  BY <1>2, <1>3 DEF Elements

LEMMA RemainingIs ==
  ASSUME NEW f \in Flusher, NEW frame \in FlusherFrame, flusher[f] = frame
  PROVE  /\ frame.pc = "idle" => Remaining(f) = {}
         /\ frame.pc \in {"read", "choose"} => Remaining(f) = Buffer
         /\ frame.pc \in {"previous", "lock"} => Remaining(f) = Elements(frame.todo)
         /\ frame.pc \in {"sending", "clear", "flushed"} =>
               Remaining(f) = Elements(Tail(frame.todo))
  BY DEF Remaining

LEMMA RemainingNext ==
  ASSUME NEW f \in Flusher, NEW frame \in FlusherFrame, flusher'[f] = frame
  PROVE  /\ frame.pc = "idle" => Remaining(f)' = {}
         /\ frame.pc \in {"read", "choose"} => Remaining(f)' = Buffer
         /\ frame.pc \in {"previous", "lock"} => Remaining(f)' = Elements(frame.todo)
         /\ frame.pc \in {"sending", "clear", "flushed"} =>
               Remaining(f)' = Elements(Tail(frame.todo))
  BY DEF Remaining, Elements

(* A flush is done with a buffer when it has it locked, or finds it locked *)
(* by another.                                                             *)
LEMMA RemainingStep ==
  ASSUME Base, OnlyLoopChooses, [Next]_vars, NEW f \in Flusher \ {FlushLoop},
         NEW b \in Remaining(f), b \notin Remaining(f)'
  PROVE  b = Current(f) /\ (LockBuffer(f) \/ LockFails(f))
<1>1. Base'
  BY BaseStep
<1>2. PICK old \in FlusherFrame : old = flusher[f]
  BY DEF Base, Typed, TypeOK, FlusherTypeOK
<1>3. PICK new \in FlusherFrame : new = flusher'[f]
  BY <1>1 DEF Base, Typed, TypeOK, FlusherTypeOK
<1>4. /\ old.pc \notin {"idle", "read"} => old.todo # <<>>
      /\ new.pc \notin {"idle", "read"} => new.todo # <<>>
      /\ old.todo \in Seq(Buffer) /\ new.todo \in Seq(Buffer)
      /\ old.pc # "choose" /\ old.pc \in FlusherPc /\ new.pc \in FlusherPc
  BY <1>1, <1>2, <1>3 DEF Base, Typed, FlusherFramesOK, FlusherFrame, OnlyLoopChooses
<1>5. ASSUME old.pc = new.pc, old.todo = new.todo
      PROVE  FALSE
  BY <1>2, <1>3, <1>4, <1>5, RemainingIs, RemainingNext DEF FlusherPc
<1>6. b \in Buffer
  <2>1. CASE old.pc \in {"previous", "lock", "read", "idle"}
    BY <1>2, <1>4, <2>1, RemainingIs DEF Elements
  <2>2. CASE old.pc \in {"sending", "clear", "flushed"}
    <3>1. b \in Elements(old.todo)
      BY <1>2, <1>4, <2>2, RemainingIs, HeadAndTail
    <3> QED
      BY <1>4, <3>1 DEF Elements
  <2> QED
    BY <1>4, <2>1, <2>2 DEF FlusherPc
<1>7. new.pc # "read"
  BY <1>3, <1>6, RemainingNext
<1>8. CASE FlushBuffers(f)
  <2>1. CASE ReadActiveBuffer(f)
    <3>1. new.pc = "previous" /\ new.todo = <<Other(activeBuffer), activeBuffer>>
      BY <1>2, <1>3, <2>1 DEF ReadActiveBuffer, FlusherFrame, Base, Typed, TypeOK, FlusherTypeOK
    <3>2. Elements(new.todo) = {Other(activeBuffer), activeBuffer}
      BY <3>1 DEF Elements
    <3>3. b \in Elements(new.todo)
      BY <1>6, <3>2 DEF Base, Typed, TypeOK, SwapTypeOK, Other, Buffer
    <3> QED
      BY <1>3, <3>1, <3>3, RemainingNext
  <2>2. CASE ChooseBuffers(f)
    BY <1>2, <1>4, <2>2 DEF ChooseBuffers
  <2>3. CASE ReadFlushTask(f)
    <3>1. old.pc = "previous" /\ new.pc = "lock" /\ new.todo = old.todo
      BY <1>2, <1>3, <2>3 DEF ReadFlushTask, FlusherFrame, Base, Typed, TypeOK, FlusherTypeOK
    <3> QED
      BY <1>2, <1>3, <3>1, RemainingIs, RemainingNext
  <2>4. CASE LockBuffer(f) \/ LockFails(f)
    <3>1. old.pc = "lock" /\ new.pc \in {"sending", "clear", "flushed"}
          /\ new.todo = old.todo
      <4>1. CASE LockBuffer(f)
        BY <1>2, <1>3, <4>1 DEF LockBuffer, FlusherFrame, Base, Typed, TypeOK, FlusherTypeOK
      <4>2. CASE LockFails(f)
        BY <1>2, <1>3, <4>2 DEF LockFails, FlusherFrame, Base, Typed, TypeOK, FlusherTypeOK
      <4> QED
        BY <2>4, <4>1, <4>2
    <3>2. b \in Elements(old.todo) /\ b \notin Elements(Tail(old.todo))
      BY <1>2, <1>3, <3>1, RemainingIs, RemainingNext
    <3>3. b = Head(old.todo)
      BY <1>4, <3>1, <3>2, HeadAndTail
    <3> QED
      BY <1>2, <2>4, <3>3 DEF Current
  <2>5. CASE StoreFlushTask(f)
    BY <1>2, <1>3, <1>5, <2>5 DEF StoreFlushTask, FlusherFrame, Base, Typed, TypeOK,
       FlusherTypeOK
  <2>6. CASE SendSucceeds(f) \/ SendFails(f)
    <3>1. old.pc = "sending" /\ new.pc = "clear" /\ new.todo = old.todo
      <4>1. CASE SendSucceeds(f)
        BY <1>2, <1>3, <4>1 DEF SendSucceeds, FlusherFrame, Base, Typed, TypeOK,
           FlusherTypeOK
      <4>2. CASE SendFails(f)
        BY <1>2, <1>3, <4>2 DEF SendFails, FlusherFrame, Base, Typed, TypeOK, FlusherTypeOK
      <4> QED
        BY <2>6, <4>1, <4>2
    <3> QED
      BY <1>2, <1>3, <3>1, RemainingIs, RemainingNext
  <2>7. CASE ClearBuffer(f)
    <3>1. flusher'[f] = [flusher[f] EXCEPT !.pc = "flushed", !.payload = <<>>]
          /\ old.pc = "clear"
      BY <1>2, <2>7 DEF ClearBuffer
    <3>2. new.pc = "flushed" /\ new.todo = old.todo
      BY <1>2, <1>3, <3>1 DEF FlusherFrame
    <3>3. b \in Elements(Tail(old.todo))
      BY <1>2, <3>1, RemainingIs
    <3>4. Remaining(f)' = Elements(Tail(old.todo))
      BY <1>3, <3>2, RemainingNext
    <3> QED
      BY <3>3, <3>4
  <2>8. CASE NextBuffer(f)
    <3>1. old.pc = "flushed"
      BY <1>2, <2>8 DEF NextBuffer
    <3>2. b \in Elements(Tail(old.todo))
      BY <1>2, <3>1, RemainingIs
    <3>3. Tail(old.todo) # <<>>
      <4>1. Elements(<<>>) = {}
        BY DEF Elements
      <4> QED
        BY <3>2, <4>1
    <3>4. new.pc = "lock" /\ new.todo = Tail(old.todo)
      BY <1>2, <1>3, <2>8, <3>3 DEF NextBuffer, FlusherFrame, Base, Typed, TypeOK,
         FlusherTypeOK
    <3> QED
      BY <1>3, <3>2, <3>4, RemainingNext
  <2> QED
    BY <1>8, <2>1, <2>2, <2>3, <2>4, <2>5, <2>6, <2>7, <2>8 DEF FlushBuffers
<1>9. ASSUME NEW g \in Flusher \ {f}, FlushBuffers(g)
      PROVE  FALSE
  <2>1. flusher'[f].pc = flusher[f].pc /\ flusher'[f].todo = flusher[f].todo
    BY <1>9, FlushBuffersFrame
  <2> QED
    BY <1>2, <1>3, <1>5, <2>1
<1>10. CASE ~\E g \in Flusher : FlushBuffers(g)
  <2>1. \/ flusher' = flusher
        \/ \E g \in Flusher :
              /\ flusher[g].pc = "idle" /\ flusher'[g].pc = "read"
              /\ \A h \in Flusher \ {g} : flusher'[h] = flusher[h]
    BY <1>10, OtherFlusherFrame DEF Next
  <2> QED
    BY <1>2, <1>3, <1>5, <1>7, <2>1
<1> QED
  BY <1>8, <1>9, <1>10

LEMMA PassedStep ==
  ASSUME Base, Landed, OnlyLoopChooses, [Next]_vars,
         NEW f \in Flusher \ {FlushLoop}, NEW S \in SUBSET Trace, Passed(f, S),
         \A w \in Writer : CopyToBuffer(w) => temporaryBuffer \notin S
  PROVE  Passed(f, S)'
<1> SUFFICES ASSUME NEW t \in S, NEW b \in Buffer, Holds(b, t)', b \notin Remaining(f)'
             PROVE  UnderWay(t)'
  BY DEF Passed
<1>1. Holds(b, t)
  BY NewHold
<1>2. CASE UnderWay(t)
  BY <1>2, UnderWayStays
<1>3. CASE b \in Remaining(f)
  <2>1. b = Current(f) /\ (LockBuffer(f) \/ LockFails(f))
    BY <1>3, RemainingStep
  <2>2. CASE LockBuffer(f)
    <3>1. buffer'[b].locked
      BY <2>1, <2>2, BufferOperations DEF LockBuffer, Base, Typed, TypeOK, BufferTypeOK
    <3> QED
      BY <3>1 DEF UnderWay
  <2>3. CASE LockFails(f)
    <3>1. UnderWay(t)
      BY <1>1, <2>1, <2>3 DEF LockFails, UnderWay
    <3> QED
      BY <3>1, UnderWayStays
  <2> QED
    BY <2>1, <2>2, <2>3
<1> QED
  BY <1>1, <1>2, <1>3 DEF Passed

(* A flush that begins has both buffers before it.                         *)
LEMMA PassedStarts ==
  ASSUME NEW f \in Flusher, NEW S, flusher'[f].pc = "read"
  PROVE  Passed(f, S)'
<1>1. Remaining(f)' = Buffer
  BY DEF Remaining
<1> QED
  BY <1>1 DEF Passed

-----------------------------------------------------------------------------
(* FlushTracesAsync.                                                       *)

LEMMA QueueSteps ==
  ASSUME Base, [Next]_vars
  PROVE  \/ pendingTraces' = pendingTraces
         \/ /\ pendingTraces # <<>> /\ pendingTraces' = Tail(pendingTraces)
            /\ serializer = "drain" /\ writer[Serializer].pc = "idle"
         \/ \E p \in Producer :
               /\ writer[p].trace \in Trace
               /\ pendingTraces' = Append(pendingTraces, writer[p].trace)
         \/ \E d \in Caller :
               /\ FlushTraces(d) /\ EnqueueWatermark(d)
               /\ pendingTraces' = Append(pendingTraces, d)
<1>1. ASSUME NEW p \in Producer, WriteTrace(p)
      PROVE  \/ pendingTraces' = pendingTraces
             \/ /\ writer[p].trace \in Trace
                /\ pendingTraces' = Append(pendingTraces, writer[p].trace)
  BY <1>1 DEF WriteTrace, BeginWriteTrace, EnqueueTrace, CheckMutex, SetMutex, queueVars,
     Base, Typed, WriterFramesOK, Writer
<1>2. SerializeTracesLoop =>
         \/ pendingTraces' = pendingTraces
         \/ /\ pendingTraces # <<>> /\ pendingTraces' = Tail(pendingTraces)
            /\ serializer = "drain" /\ writer[Serializer].pc = "idle"
  BY DEF SerializeTracesLoop, DequeueTrace, DequeueWatermark, QueueDrained, ExitCheck,
         SleepBatch, WaitMutex, ResetMutex, queueVars, Draining
<1>3. ASSUME NEW d \in Caller, FlushTraces(d)
      PROVE  \/ pendingTraces' = pendingTraces
             \/ EnqueueWatermark(d) /\ pendingTraces' = Append(pendingTraces, d)
  BY <1>3 DEF FlushTraces, BeginFlushTraces, EnqueueWatermark, WakeSerializer,
              FlushAllBuffers, queueVars
<1>4. ASSUME \/ \E w \in Writer : SerializeTrace(w)
             \/ \E f \in Flusher : FlushBuffers(f)
             \/ FlushBuffersTaskLoop \/ FlushAndClose \/ UNCHANGED vars
      PROVE  pendingTraces' = pendingTraces
  BY <1>4 DEF SerializeTrace, FlushBuffers, FlushBuffersTaskLoop, FlushAndClose, vars,
              queueVars
<1> QED
  BY <1>1, <1>2, <1>3, <1>4 DEF Next

LEMMA CallSteps ==
  ASSUME Base, [Next]_vars, NEW c \in Caller
  PROVE  \/ FlushTraces(c) /\ BeginFlushTraces(c)
         \/ /\ call'[c].before = call[c].before /\ call'[c].done = call[c].done
            /\ \/ call'[c].pc = call[c].pc
               \/ call[c].pc = "watermark" /\ call'[c].pc = "wake"
               \/ call[c].pc = "wake" /\ call'[c].pc = "await"
               \/ /\ call[c].pc = "flush" \/ (call[c].pc = "await" /\ call[c].done)
                  /\ call'[c].pc = "flushing" /\ flusher'[c].pc = "read"
         \/ /\ call'[c].before = call[c].before /\ call'[c].pc = call[c].pc
            /\ SerializeTracesLoop /\ DequeueWatermark /\ Head(pendingTraces) = c
<1>1. call \in [Caller -> CallFrame] /\ call[c] \in CallFrame
      /\ flusher \in [Flusher -> FlusherFrame] /\ c \in Flusher /\ flusher[c] \in FlusherFrame
  BY DEF Base, Typed, TypeOK, OuterTypeOK, FlusherTypeOK, Flusher
<1>2. CASE call'[c] = call[c]
  BY <1>2
<1>3. CASE SerializeTracesLoop /\ ~(call'[c] = call[c])
  <2>1. DequeueWatermark
    BY <1>3 DEF SerializeTracesLoop, DequeueTrace, QueueDrained, ExitCheck,
       SleepBatch, WaitMutex, ResetMutex
  <2>2. PICK d \in Caller : d = Head(pendingTraces)
                            /\ call' = [call EXCEPT ![d].done = TRUE]
    BY <2>1 DEF DequeueWatermark
  <2>3. d = c
    BY <1>1, <1>3, <2>2
  <2> QED
    BY <1>1, <1>3, <2>1, <2>2, <2>3 DEF CallFrame
<1>4. ASSUME FlushTraces(c), ~BeginFlushTraces(c)
      PROVE  /\ call'[c].before = call[c].before /\ call'[c].done = call[c].done
             /\ \/ call[c].pc = "watermark" /\ call'[c].pc = "wake"
                \/ call[c].pc = "wake" /\ call'[c].pc = "await"
                \/ /\ call[c].pc = "flush" \/ (call[c].pc = "await" /\ call[c].done)
                   /\ call'[c].pc = "flushing" /\ flusher'[c].pc = "read"
  <2>1. CASE EnqueueWatermark(c) \/ WakeSerializer(c)
    BY <1>1, <2>1 DEF EnqueueWatermark, WakeSerializer, CallFrame
  <2>2. CASE FlushAllBuffers(c)
    BY <1>1, <2>2 DEF FlushAllBuffers, StartFlush, CallFrame, FlusherFrame
  <2> QED
    BY <1>4, <2>1, <2>2 DEF FlushTraces
<1>5. ASSUME NEW d \in Caller \ {c}, FlushTraces(d)
      PROVE  call'[c] = call[c]
  BY <1>1, <1>5 DEF FlushTraces, BeginFlushTraces, EnqueueWatermark, WakeSerializer,
                    FlushAllBuffers
<1>6. ASSUME \/ \E p \in Producer : WriteTrace(p)
             \/ \E w \in Writer : SerializeTrace(w)
             \/ \E f \in Flusher : FlushBuffers(f)
             \/ FlushBuffersTaskLoop \/ FlushAndClose \/ UNCHANGED vars
      PROVE  call' = call
  BY <1>6 DEF WriteTrace, SerializeTrace, FlushBuffers, FlushBuffersTaskLoop,
              FlushAndClose, vars
<1> QED
  BY <1>2, <1>3, <1>4, <1>5, <1>6 DEF Next

(* Once nobody has it in hand, a trace that was handed over is in the      *)
(* queue, or has come through it.                                          *)
LEMMA QueuedOrDelivered ==
  ASSUME Sound, NEW t \in Trace, Handed(t), writer[Serializer].pc = "idle"
  PROVE  Queued(t) \/ Delivered(t)
<1>1. PICK k, i : Lies(t, k, i)
  BY ConservedIs DEF Sound, OnlyPlace
<1>2. k # "hand"
  <2>1. writer[Serializer].trace = NoTrace /\ NoTrace \notin Trace
    BY ThreadAssumption DEF Sound, Orderly, HandsEmpty, WritingPc, Writer
  <2> QED
    BY <1>1, <2>1 DEF Lies, Writer, Handed, Buffer
<1> QED
  BY <1>1, <1>2 DEF Lies, Handed, Queued, Delivered, InBuffer, Stored, Holds, Buffer

LEMMA InitFlushInOrder == Init => FlushInOrder
<1> SUFFICES ASSUME Init, NEW c \in Caller
             PROVE  CallInOrder(c)
  BY DEF FlushInOrder
<1>1. call[c] = [pc |-> "idle", done |-> FALSE, before |-> {}] /\ pendingTraces = <<>>
  BY DEF Init
<1> QED
  BY <1>1 DEF CallInOrder, Queued

LEMMA CallInOrderStep ==
  ASSUME Sound, OnlyLoopChooses, [Next]_vars, NEW c \in Caller, CallInOrder(c),
         ~SerializationCompleted
  PROVE  CallInOrder(c)'
<1>1. PICK S \in SUBSET Trace : S = call[c].before
  BY DEF Sound, Base, Typed, TypeOK, OuterTypeOK, CallFrame
<1>2. /\ Base /\ Landed /\ c \in Flusher \ {FlushLoop} /\ c \notin Trace
      /\ pendingTraces \in Seq(Trace \cup Caller)
      /\ call \in [Caller -> CallFrame]
  BY ThreadAssumption DEF Sound, Flusher, Base, Typed, TypeOK, QueueTypeOK, OuterTypeOK
(* The watermark enters the queue only on the way from watermark to wake.  *)
<1>3. Queued(c)' => Queued(c) \/ call'[c].pc = "wake"
  <2>1. CASE pendingTraces' = pendingTraces
    BY <2>1 DEF Queued
  <2>2. CASE pendingTraces # <<>> /\ pendingTraces' = Tail(pendingTraces)
    BY <1>2, <2>2 DEF Queued
  <2>3. ASSUME NEW p \in Producer, writer[p].trace \in Trace,
               pendingTraces' = Append(pendingTraces, writer[p].trace)
        PROVE  Queued(c)' => Queued(c)
    BY <1>2, <2>3 DEF Queued
  <2>4. ASSUME NEW d \in Caller, EnqueueWatermark(d),
               pendingTraces' = Append(pendingTraces, d)
        PROVE  Queued(c)' => Queued(c) \/ call'[c].pc = "wake"
    <3>1. CASE d = c
      BY <1>2, <2>4, <3>1 DEF EnqueueWatermark, CallFrame
    <3>2. CASE d # c
      BY <1>2, <2>4, <3>2 DEF Queued
    <3> QED
      BY <3>1, <3>2
  <2> QED
    BY <1>2, <2>1, <2>2, <2>3, <2>4, QueueSteps
(* The call begins.                                                        *)
<1>4. CASE FlushTraces(c) /\ BeginFlushTraces(c)
  <2>1. call[c].pc = "idle" /\ ~call[c].done /\ ~Queued(c)
    BY <1>4 DEF BeginFlushTraces, CallInOrder
  <2>2. /\ call'[c].pc = "watermark" /\ call'[c].before = Written
        /\ call'[c].done = call[c].done
        /\ UNCHANGED <<pendingTraces, fresh, writer>>
    BY <1>2, <1>4 DEF BeginFlushTraces, FlushTraces, queueVars, CallFrame
  <2>3. ~Queued(c)'
    BY <2>1, <2>2 DEF Queued
  <2>4. \A t \in Written : Handed(t)'
    BY <2>2 DEF Written, Handed
  <2> QED
    BY <2>1, <2>2, <2>3, <2>4 DEF CallInOrder, Queued
(* It goes on.                                                             *)
<1>5. ASSUME ~(FlushTraces(c) /\ BeginFlushTraces(c)),
             call'[c].before = call[c].before
      PROVE  CallInOrder(c)'
  <2>1. \A t \in S : Handed(t) /\ Handed(t)'
    BY <1>1, <1>2, HandedStays DEF CallInOrder
  <2>2. /\ call'[c].pc \in {"idle", "watermark"} => ~Queued(c)' /\ ~call'[c].done
        /\ call'[c].pc # "flush" /\ (call'[c].pc = "flushing" => call'[c].done)
    <3>1. CASE SerializeTracesLoop /\ DequeueWatermark /\ Head(pendingTraces) = c
               /\ call'[c].pc = call[c].pc
      <4>1. Queued(c)
        <5>1. pendingTraces # <<>> /\ pendingTraces[1] = c /\ 1 \in 1..Len(pendingTraces)
          BY <1>2, <3>1 DEF DequeueWatermark
        <5> QED
          BY <5>1 DEF Queued
      <4>2. call'[c].done
        BY <1>2, <3>1 DEF DequeueWatermark, CallFrame
      <4> QED
        BY <3>1, <4>1, <4>2 DEF CallInOrder
    <3> QED
      BY <1>2, <1>3, <1>5, <3>1, CallSteps DEF CallInOrder
  <2>3. ASSUME NEW i \in 1..Len(pendingTraces'), NEW k \in 1..Len(pendingTraces'),
               pendingTraces'[k] = c, pendingTraces'[i] \in S
        PROVE  i < k
    <3>1. \A j, l \in 1..Len(pendingTraces) :
             pendingTraces[l] = c /\ pendingTraces[j] \in S => j < l
      BY <1>1 DEF CallInOrder
    <3>2. CASE pendingTraces' = pendingTraces
      BY <2>3, <3>1, <3>2
    <3>3. CASE pendingTraces # <<>> /\ pendingTraces' = Tail(pendingTraces)
      BY <1>2, <2>3, <3>1, <3>3
    <3>4. ASSUME NEW x, x \notin S, pendingTraces' = Append(pendingTraces, x)
          PROVE  i < k
      BY <1>2, <2>3, <3>1, <3>4
    <3>5. \A p \in Producer : writer[p].trace \notin S
      BY <2>1 DEF Handed
    <3>6. \A d \in Caller : d \notin S
      BY ThreadAssumption
    <3> QED
      BY <1>2, <3>2, <3>3, <3>4, <3>5, <3>6, QueueSteps
  <2>4. call'[c].done => \A t \in S : Delivered(t)'
    <3>1. CASE call[c].done
      BY <1>1, <1>2, <3>1, DeliveredStays DEF CallInOrder
    <3>2. CASE DequeueWatermark /\ Head(pendingTraces) = c
      <4>1. /\ pendingTraces # <<>> /\ pendingTraces[1] = c /\ 1 \in 1..Len(pendingTraces)
            /\ writer[Serializer].pc = "idle"
        BY <1>2, <3>2 DEF DequeueWatermark, Draining
      <4>2. \A i \in 1..Len(pendingTraces) : pendingTraces[i] \notin S
        BY <1>1, <1>2, <4>1 DEF CallInOrder
      <4>3. \A t \in S : Delivered(t)
        BY <2>1, <4>1, <4>2, QueuedOrDelivered DEF Queued
      <4> QED
        BY <1>2, <4>3, DeliveredStays
    <3> QED
      BY <1>2, <1>5, <3>1, <3>2, CallSteps
  <2>5. call'[c].pc = "flushing" => Passed(c, S)'
    <3>1. CASE flusher'[c].pc = "read"
      BY <1>2, <3>1, PassedStarts
    <3>2. CASE call[c].pc = "flushing"
      <4>1. Passed(c, S) /\ \A t \in S : Delivered(t)
        BY <1>1, <3>2 DEF CallInOrder
      <4>2. ASSUME NEW w \in Writer, CopyToBuffer(w), temporaryBuffer \in S
            PROVE  FALSE
        <5>1. PICK t \in S : t = temporaryBuffer
          BY <4>2
        <5>2. writer[w].trace = t
          BY <4>2, <5>1 DEF CopyToBuffer, Sound, CopiesOwnTrace
        <5>3. outcome[t] = "pending" /\ ~InBuffer(t)
          BY <5>2, ElsewhereMeans
        <5> QED
          BY <4>1, <5>3 DEF Delivered
      <4> QED
        BY <1>2, <4>1, <4>2, PassedStep
    <3> QED
      BY <1>2, <1>5, <3>1, <3>2, CallSteps
  <2> QED
    BY <1>1, <1>5, <2>1, <2>2, <2>3, <2>4, <2>5 DEF CallInOrder
<1> QED
  BY <1>2, <1>4, <1>5, CallSteps

(* A flush call is over when it has passed over both buffers.              *)
LEMMA ReturnedPassed ==
  ASSUME Base, NEW f \in Flusher, flusher[f].pc = "idle", NEW S \in SUBSET Trace,
         Passed(f, S), \A t \in S : Delivered(t)
  PROVE  \A t \in S : UnderWay(t)
<1>1. Remaining(f) = {}
  BY DEF Remaining
<1> QED
  BY <1>1 DEF Passed, Delivered, InBuffer, UnderWay

(* When FlushTracesAsync returns, every trace written before the call is   *)
(* settled or being sent: its watermark comes after them in the queue, and *)
(* FlushBuffers then passes over both buffers, whichever is active, locks  *)
(* each or finds another flush sending it.                                 *)
THEOREM FlushComplete == Spec => []FlushLeavesNothingBehind
<1> DEFINE Sure == Base /\ Orderly /\ OneAtATime /\ Landed
           Inv == OnlyLoopChooses /\ FlushInOrder
<1>1. Init => Inv
  BY InitChooses, InitFlushInOrder
<1>2. Sure /\ Inv /\ [Next]_vars => Inv'
  <2> SUFFICES ASSUME Sure, Inv, [Next]_vars
               PROVE  Inv'
    OBVIOUS
  <2>1. OnlyLoopChooses'
    BY ChoosesStep
  <2>2. FlushInOrder'
    <3>1. SUFFICES ASSUME ~SerializationCompleted', NEW c \in Caller
                   PROVE  CallInOrder(c)'
      BY DEF FlushInOrder
    <3>2. ~SerializationCompleted
      BY <3>1, SingleWriterBefore
    <3>3. Sound
      BY <3>2 DEF OneAtATime, Sound, SingleWriter
    <3> QED
      BY <3>2, <3>3, CallInOrderStep DEF FlushInOrder
  <2> QED
    BY <2>1, <2>2
<1>3. Sure /\ Inv => FlushLeavesNothingBehind
  <2> SUFFICES ASSUME Sure, Inv, NEW c \in Caller, Returned(c), ~SerializationCompleted
               PROVE  \A t \in call[c].before : UnderWay(t)
    BY DEF FlushLeavesNothingBehind
  <2>1. PICK S \in SUBSET Trace : S = call[c].before
    BY DEF Base, Typed, TypeOK, OuterTypeOK, CallFrame
  <2>2. /\ flusher[c].pc = "idle" /\ c \in Flusher /\ Passed(c, S)
        /\ \A t \in S : Delivered(t)
    BY <2>1 DEF FlushInOrder, CallInOrder, Returned, Flusher
  <2> QED
    BY <2>1, <2>2, ReturnedPassed
<1>4. Spec => [](Base /\ Orderly /\ OneAtATime)
  BY ConservationInvariant
<1>5. Spec => []Landed
  BY LandedInvariant
<1> QED
  BY <1>1, <1>2, <1>3, <1>4, <1>5, PTL DEF Spec

-----------------------------------------------------------------------------
(* FlushAndCloseAsync.                                                     *)

LEMMA InitCloseInOrder == Init => CloseInOrder
  BY DEF Init, CloseInOrder, TemporaryUsed, SerializationCompleted

LEMMA CloseSteps ==
  ASSUME Base, [Next]_vars
  PROVE  \/ UNCHANGED <<close, processExit>>
         \/ FlushAndClose /\ BeginClose
         \/ /\ close'.before = close.before /\ processExit' = processExit
            /\ FlushAndClose
            /\ \/ close.pc = "wake" /\ close'.pc = "awaitSerialization"
               \/ /\ close.pc = "awaitSerialization" /\ close'.pc = "awaitFlushLoop"
                  /\ SerializationCompleted
               \/ close.pc = "awaitFlushLoop" /\ close'.pc = "check"
               \/ /\ close.pc = "check" /\ close'.pc = "clean" /\ flusher' = flusher
                  /\ \A b \in Buffer : TraceCount(buffer[b]) = 0
               \/ /\ close.pc = "check" /\ close'.pc = "forcing"
                  /\ flusher'[CloseFlush].pc = "read"
               \/ /\ close.pc = "forcing" /\ close'.pc = "clean" /\ flusher' = flusher
                  /\ flusher[CloseFlush].pc = "idle"
               \/ close.pc \in {"awaitSerialization", "forcing"} /\ close'.pc = "late"
<1>1. close \in CloseFrame /\ flusher \in [Flusher -> FlusherFrame]
      /\ CloseFlush \in Flusher /\ flusher[CloseFlush] \in FlusherFrame
  BY DEF Base, Typed, TypeOK, OuterTypeOK, FlusherTypeOK, Flusher
<1>2. ASSUME FlushAndClose, ~BeginClose
      PROVE  close'.before = close.before /\ processExit' = processExit
  BY <1>1, <1>2 DEF FlushAndClose, CloseWakesSerializer, CloseAwaitsSerialization,
     CloseAwaitsFlushLoop, CloseChecksBuffers, CloseForced, CloseGoto, CloseFrame
<1>3. ASSUME NEW pc, CloseGoto(pc)
      PROVE  close'.pc = pc
  BY <1>1, <1>3 DEF CloseGoto, CloseFrame
<1>4. CASE FlushAndClose /\ CloseWakesSerializer /\ ~BeginClose
  BY <1>2, <1>3, <1>4 DEF CloseWakesSerializer
<1>5. CASE FlushAndClose /\ CloseAwaitsSerialization /\ ~BeginClose
  BY <1>2, <1>3, <1>5 DEF CloseAwaitsSerialization
<1>6. CASE FlushAndClose /\ CloseAwaitsFlushLoop /\ ~BeginClose
  BY <1>2, <1>3, <1>6 DEF CloseAwaitsFlushLoop
<1>7. CASE FlushAndClose /\ CloseChecksBuffers /\ ~BeginClose
  <2>1. StartFlush(CloseFlush) => flusher'[CloseFlush].pc = "read"
    BY <1>1 DEF StartFlush, FlusherFrame
  <2> QED
    BY <1>2, <1>3, <1>7, <2>1 DEF CloseChecksBuffers
<1>8. CASE FlushAndClose /\ CloseForced /\ ~BeginClose
  BY <1>2, <1>3, <1>8 DEF CloseForced
<1>9. ~FlushAndClose => UNCHANGED <<close, processExit>>
  BY DEF Next, WriteTrace, SerializeTrace, SerializeTracesLoop, FlushBuffers,
         FlushBuffersTaskLoop, FlushTraces, vars
<1> QED
  BY <1>4, <1>5, <1>6, <1>7, <1>8, <1>9 DEF FlushAndClose

LEMMA TemporaryStep ==
  ASSUME Base, [Next]_vars, TemporaryUsed
  PROVE  /\ TemporaryUsed'
         /\ \/ temporaryBuffer' = temporaryBuffer
            \/ temporaryBuffer' = NoTrace
            \/ \E w \in Writer : /\ SerializeTrace(w) /\ writer[w].trace \in Trace
                                 /\ temporaryBuffer' = writer[w].trace
<1>1. writer \in [Writer -> WriterFrame] /\ Serializer \in Writer /\ Producer \subseteq Writer
  BY DEF Base, Typed, TypeOK, WriterTypeOK, Writer
<1>2. ASSUME temporaryBuffer' = temporaryBuffer,
             \A w \in Writer : writer[w].pc = "copy" => writer'[w].pc = "copy"
      PROVE  TemporaryUsed'
  BY <1>2 DEF TemporaryUsed
<1>3. ASSUME NEW p \in Producer, WriteTrace(p)
      PROVE  TemporaryUsed' /\ temporaryBuffer' = temporaryBuffer
  <2>1. temporaryBuffer' = temporaryBuffer
    BY <1>3 DEF WriteTrace, bufferVars
  <2> QED
    BY <1>1, <1>2, <1>3, <2>1, WriteTraceFrame DEF Base, WritingPc
<1>4. ASSUME NEW w \in Writer, SerializeToTemporary(w), SerializeTrace(w)
      PROVE  TemporaryUsed' /\ temporaryBuffer' = writer[w].trace /\ writer[w].trace \in Trace
  <2>1. writer'[w].pc = "copy" /\ temporaryBuffer' = writer[w].trace
    BY <1>1, <1>4 DEF SerializeToTemporary, Goto, WriterFrame
  <2>2. writer[w].trace \in Trace
    BY <1>4 DEF SerializeToTemporary, Base, Typed, WriterFramesOK, WritingPc
  <2> QED
    BY <2>1, <2>2 DEF TemporaryUsed
<1>5. ASSUME NEW w \in Writer, CopyToBuffer(w), SerializeTrace(w)
      PROVE  TemporaryUsed' /\ (temporaryBuffer' = temporaryBuffer \/ temporaryBuffer' = NoTrace)
  <2>1. \A v \in Writer \ {w} : writer'[v] = writer[v]
    BY <1>5, SerializeTraceFrame DEF Base
  <2>2. temporaryBuffer' = IF \E v \in Writer \ {w} : writer[v].pc = "copy"
                              THEN temporaryBuffer ELSE NoTrace
    BY <1>5 DEF CopyToBuffer
  <2>3. CASE \E v \in Writer \ {w} : writer[v].pc = "copy"
    BY <2>1, <2>2, <2>3 DEF TemporaryUsed
  <2>4. CASE ~\E v \in Writer \ {w} : writer[v].pc = "copy"
    BY <2>2, <2>4 DEF TemporaryUsed
  <2> QED
    BY <2>3, <2>4
<1>6. ASSUME NEW w \in Writer, ~SerializeToTemporary(w), ~CopyToBuffer(w), SerializeTrace(w)
      PROVE  TemporaryUsed' /\ temporaryBuffer' = temporaryBuffer
  <2>1. temporaryBuffer' = temporaryBuffer /\ writer[w].pc # "copy"
    BY <1>6 DEF SerializeTrace, TryEnterFails, SerializeThrows, SwapBuffers,
       PublishSwap, RequestFlush, CompleteRequest, DropTrace, bufferVars
  <2> QED
    BY <1>2, <1>6, <2>1, SerializeTraceFrame DEF Base
<1>7. CASE SerializeTracesLoop
  <2>1. temporaryBuffer' = temporaryBuffer
    BY <1>7 DEF SerializeTracesLoop, bufferVars
  <2>2. writer' = writer
        \/ (writer[Serializer].pc = "idle"
            /\ writer' = [writer EXCEPT ![Serializer] = Attempt(Head(pendingTraces))])
    BY <1>7 DEF SerializeTracesLoop, DequeueTrace, DequeueWatermark, QueueDrained,
           ExitCheck, SleepBatch, WaitMutex, ResetMutex, Draining
  <2> QED
    BY <1>1, <1>2, <2>1, <2>2
<1>8. CASE FlushBuffersTaskLoop
  <2>1. temporaryBuffer' = temporaryBuffer
    BY <1>8 DEF FlushBuffersTaskLoop, bufferVars
  <2> QED
    BY <1>2, <1>8, <2>1, FlushBuffersTaskLoopFrame DEF Base
<1>9. CASE \/ \E f \in Flusher : FlushBuffers(f)
           \/ \E c \in Caller : FlushTraces(c)
           \/ FlushAndClose \/ UNCHANGED vars
  BY <1>2, <1>9, OtherStepsFrame
<1> QED
  BY <1>3, <1>4, <1>5, <1>6, <1>7, <1>8, <1>9 DEF Next

LEMMA ExitStep ==
  ASSUME Base, [Next]_vars, ~SerializationCompleted, SerializationCompleted'
  PROVE  /\ SerializeTracesLoop /\ ExitCheck /\ processExit
         /\ serializer = "exitCheck" /\ writer[Serializer].pc = "idle"
<1>1. ASSUME NEW w \in Writer, SerializeTrace(w)
      PROVE  FALSE
  BY <1>1 DEF SerializeTrace, TryEnterFails, SerializeToTemporary, SerializeThrows,
     CopyToBuffer, SwapBuffers, PublishSwap, RequestFlush, CompleteRequest, DropTrace,
     SerializationCompleted
<1>2. SerializeTracesLoop
  BY <1>1 DEF Next, WriteTrace, FlushBuffers, FlushBuffersTaskLoop, FlushTraces,
     FlushAndClose, vars, loopVars, SerializationCompleted
<1>3. ExitCheck /\ processExit /\ serializer = "exitCheck"
  BY <1>2 DEF SerializeTracesLoop, DequeueTrace, DequeueWatermark, QueueDrained,
     ExitCheck, SleepBatch, WaitMutex, ResetMutex, loopVars, SerializationCompleted
<1> QED
  BY <1>2, <1>3 DEF Base, Awake, SerializerDrains

(* The forced flush is started by FlushAndCloseAsync alone.                *)
LEMMA CloseFlushIdle ==
  ASSUME Base, [Next]_vars, flusher[CloseFlush].pc = "idle", close.pc # "check"
  PROVE  flusher'[CloseFlush].pc = "idle"
<1>1. /\ flusher \in [Flusher -> FlusherFrame] /\ CloseFlush \in Flusher
      /\ FlushLoop \in Flusher \ {CloseFlush} /\ Caller \subseteq Flusher \ {CloseFlush}
  BY ThreadAssumption DEF Base, Typed, TypeOK, FlusherTypeOK, Flusher
<1>2. ASSUME NEW g \in Flusher, FlushBuffers(g)
      PROVE  flusher'[CloseFlush].pc = "idle"
  <2>1. g # CloseFlush
    BY <1>2 DEF FlushBuffers, ReadActiveBuffer, ChooseBuffers, ReadFlushTask, LockBuffer,
       LockFails, StoreFlushTask, SendSucceeds, SendFails, ClearBuffer, NextBuffer
  <2> QED
    BY <1>1, <1>2, <2>1, FlushBuffersFrame
<1>3. ASSUME NEW g \in Flusher \ {CloseFlush}, flusher' = flusher \/ StartFlush(g)
      PROVE  flusher'[CloseFlush].pc = "idle"
  BY <1>1, <1>3 DEF StartFlush
<1>4. CASE FlushBuffersTaskLoop
  BY <1>1, <1>3, <1>4 DEF FlushBuffersTaskLoop, LoopWakes, LoopReplacesForceFlush, LoopRepeats
<1>5. ASSUME NEW c \in Caller, FlushTraces(c)
      PROVE  flusher'[CloseFlush].pc = "idle"
  BY <1>1, <1>3, <1>5 DEF FlushTraces, BeginFlushTraces, EnqueueWatermark, WakeSerializer,
                    FlushAllBuffers
<1>6. CASE FlushAndClose
  <2>1. flusher' = flusher
    BY <1>6 DEF FlushAndClose, BeginClose, CloseWakesSerializer, CloseAwaitsSerialization,
       CloseAwaitsFlushLoop, CloseChecksBuffers, CloseForced
  <2> QED
    BY <2>1
<1>7. CASE \/ \E p \in Producer : WriteTrace(p)
           \/ \E w \in Writer : SerializeTrace(w)
           \/ SerializeTracesLoop \/ UNCHANGED vars
  BY <1>7 DEF WriteTrace, SerializeTrace, SerializeTracesLoop, vars
<1> QED
  BY <1>2, <1>4, <1>5, <1>6, <1>7 DEF Next

(* The call begins before the serialization thread ends.                   *)
LEMMA BeginCloseInOrder ==
  ASSUME Base, CloseInOrder, TemporaryUsed', FlushAndClose, BeginClose
  PROVE  CloseInOrder'
<1>1. close.pc = "idle" /\ ~SerializationCompleted
  BY DEF BeginClose, CloseInOrder
<1>2. /\ processExit' /\ close' = [pc |-> "wake", before |-> Written]
      /\ UNCHANGED <<serializer, fresh, writer>>
  BY DEF BeginClose, FlushAndClose, loopVars
<1>3. \A t \in Written : Handed(t)'
  BY <1>2 DEF Written, Handed
<1> QED
  BY <1>1, <1>2, <1>3 DEF CloseInOrder, SerializationCompleted

LEMMA CloseInOrderStep ==
  ASSUME Base, Orderly, OneAtATime, Landed, OnlyLoopChooses, CloseInOrder, [Next]_vars
  PROVE  CloseInOrder'
<1>1. PICK S \in SUBSET Trace : S = close.before
  BY DEF Base, Typed, TypeOK, OuterTypeOK, CloseFrame
<1>2. /\ CloseFlush \in Flusher \ {FlushLoop} /\ NoTrace \notin Trace
      /\ Writer = Producer \cup {Serializer}
      /\ pendingTraces \in Seq(Trace \cup Caller)
  BY ThreadAssumption DEF Flusher, Writer, Base, Typed, TypeOK, QueueTypeOK
<1>3. TemporaryUsed'
  BY TemporaryStep DEF CloseInOrder
<1>4. SerializationCompleted => SerializationCompleted'
  BY SingleWriterBefore
<1>5. CASE FlushAndClose /\ BeginClose
  BY <1>3, <1>5, BeginCloseInOrder
<1>6. ASSUME ~(FlushAndClose /\ BeginClose)
      PROVE  CloseInOrder'
  <2>1. close'.before = S /\ processExit' = processExit
    BY <1>1, <1>6, CloseSteps
  <2>2. (processExit' <=> close'.pc # "idle")
    BY <1>6, CloseSteps DEF CloseInOrder
  <2>3. SerializationCompleted' => processExit'
    BY <2>1, ExitStep DEF CloseInOrder
  <2>4. \A t \in S : Handed(t) /\ Handed(t)'
    BY <1>1, HandedStays DEF CloseInOrder
  <2>5. SerializationCompleted' => temporaryBuffer' \notin S
    <3>1. CASE SerializationCompleted
      <4>1. ASSUME NEW w \in Writer, SerializeTrace(w)
            PROVE  writer[w].trace \notin S
        <5>1. w # Serializer
          BY <3>1, <4>1, SerializeTraceFrame DEF Base, Awake, SerializerDrains,
             SerializationCompleted, WritingPc
        <5> QED
          BY <1>2, <2>4, <4>1, <5>1 DEF Handed
      <4>2. temporaryBuffer \notin S
        BY <1>1, <3>1 DEF CloseInOrder
      <4>3. \/ temporaryBuffer' = temporaryBuffer \/ temporaryBuffer' = NoTrace
            \/ \E w \in Writer : SerializeTrace(w) /\ temporaryBuffer' = writer[w].trace
        BY TemporaryStep DEF CloseInOrder
      <4> QED
        BY <1>2, <4>1, <4>2, <4>3
    <3>2. CASE ~SerializationCompleted /\ SerializationCompleted'
      <4>1. SerializeTracesLoop /\ writer[Serializer].pc = "idle"
        BY <3>2, ExitStep
      <4>2. \A w \in Writer : writer[w].pc # "copy"
        BY <1>2, <3>2, <4>1 DEF Orderly, TurnsTaken, WritingPc
      <4>3. temporaryBuffer' = temporaryBuffer
        BY <4>1 DEF SerializeTracesLoop, bufferVars
      <4> QED
        BY <1>2, <4>2, <4>3 DEF CloseInOrder, TemporaryUsed
    <3> QED
      BY <3>1, <3>2
  <2>6. SerializationCompleted' => \A t \in S : Delivered(t)' \/ Queued(t)'
    <3>1. ASSUME SerializationCompleted'
          PROVE  \A t \in S : Delivered(t) \/ Queued(t)
      <4>1. CASE SerializationCompleted
        BY <1>1, <4>1 DEF CloseInOrder
      <4>2. CASE ~SerializationCompleted
        <5>1. Sound
          BY <4>2 DEF OneAtATime, Sound, SingleWriter
        <5> QED
          BY <2>4, <3>1, <4>2, <5>1, ExitStep, QueuedOrDelivered
      <4> QED
        BY <4>1, <4>2
    <3>2. ASSUME SerializationCompleted'
          PROVE  serializer # "drain"
      BY <3>2, ExitStep DEF SerializationCompleted
    <3>3. ASSUME SerializationCompleted', NEW t \in S, Queued(t)
          PROVE  Queued(t)'
      <4>1. pendingTraces' = pendingTraces
            \/ \E x \in Trace \cup Caller : pendingTraces' = Append(pendingTraces, x)
        BY <3>2, <3>3, QueueSteps
      <4> QED
        BY <1>2, <3>3, <4>1 DEF Queued
    <3> QED
      BY <3>1, <3>3, DeliveredStays
  <2>7. close'.pc \in {"awaitFlushLoop", "check", "forcing", "clean"} =>
           SerializationCompleted'
    BY <1>4, <1>6, CloseSteps DEF CloseInOrder
  <2>8. close'.pc = "clean" => flusher'[CloseFlush].pc = "idle"
    <3>1. CASE close.pc = "clean"
      BY <3>1, CloseFlushIdle DEF CloseInOrder
    <3>2. CASE close.pc = "check" /\ flusher' = flusher
      BY <3>2 DEF Base, Exclusive, FlusherFree
    <3>3. CASE flusher[CloseFlush].pc = "idle" /\ flusher' = flusher
      BY <3>3
    <3> QED
      BY <1>6, <3>1, <3>2, <3>3, CloseSteps
  <2>9. close'.pc \in {"forcing", "clean"} => Passed(CloseFlush, S)'
    <3>1. CASE close.pc \in {"forcing", "clean"}
      <4>1. Passed(CloseFlush, S) /\ temporaryBuffer \notin S
        BY <1>1, <3>1 DEF CloseInOrder
      <4> QED
        BY <1>2, <4>1, PassedStep
    <3>2. CASE flusher'[CloseFlush].pc = "read"
      BY <1>2, <3>2, PassedStarts
    <3>3. CASE FlushAndClose /\ \A b \in Buffer : TraceCount(buffer[b]) = 0
      <4>1. \A b \in Buffer, t \in S : ~Holds(b, t)'
        BY <3>3 DEF FlushAndClose, bufferVars, Holds, TraceCount
      <4> QED
        BY <4>1 DEF Passed
    <3> QED
      BY <1>6, <3>1, <3>2, <3>3, CloseSteps
  <2> QED
    BY <1>3, <2>1, <2>2, <2>3, <2>4, <2>5, <2>6, <2>7, <2>8, <2>9 DEF CloseInOrder
<1> QED
  BY <1>5, <1>6

LEMMA CloseInOrderInvariant == Spec => [](OnlyLoopChooses /\ CloseInOrder)
<1> DEFINE Sure == Base /\ Orderly /\ OneAtATime /\ Landed
           Inv == OnlyLoopChooses /\ CloseInOrder
<1>1. Init => Inv
  BY InitChooses, InitCloseInOrder
<1>2. Sure /\ Inv /\ [Next]_vars => Inv'
  BY ChoosesStep, CloseInOrderStep
<1>3. Spec => [](Base /\ Orderly /\ OneAtATime)
  BY ConservationInvariant
<1>4. Spec => []Landed
  BY LandedInvariant
<1> QED
  BY <1>1, <1>2, <1>3, <1>4, PTL DEF Spec

(* When FlushAndCloseAsync returns without a timeout, every trace written  *)
(* before the call is settled, being sent, or still queued behind an       *)
(* exception of the formatter - even if application threads go on writing, *)
(* and copying one another's bytes, after the serialization thread ended.  *)
THEOREM CloseComplete == Spec => []CloseLeavesNoBufferBehind
<1>1. OnlyLoopChooses /\ CloseInOrder => CloseLeavesNoBufferBehind
  <2> SUFFICES ASSUME CloseInOrder, close.pc = "clean", NEW t \in close.before
               PROVE  UnderWay(t) \/ Queued(t)
    BY DEF CloseLeavesNoBufferBehind, Queued
  <2>1. Remaining(CloseFlush) = {}
    BY DEF CloseInOrder, Remaining
  <2>2. Delivered(t) \/ Queued(t)
    BY DEF CloseInOrder
  <2>3. \A b \in Buffer : Holds(b, t) => UnderWay(t)
    BY <2>1 DEF CloseInOrder, Passed
  <2> QED
    BY <2>2, <2>3 DEF Delivered, InBuffer, UnderWay
<1> QED
  BY <1>1, CloseInOrderInvariant, PTL

-----------------------------------------------------------------------------
(* Before the serialization thread has ended.                              *)

(* Without FlushTracesAsync calls the loop flushes alone, and only the     *)
(* serialization thread serializes.                                        *)
LEMMA LoopAlone ==
  ASSUME Base, Orderly, CloseFlushWaits, OnlyLoopFlushes, ~SerializationCompleted
  PROVE  /\ \A f \in Flusher \ {FlushLoop} : flusher[f].pc = "idle"
         /\ \A b \in Buffer : buffer[b].locked => Owns(FlushLoop, b)
         /\ \A w \in Writer \ {Serializer} : writer[w].pc \notin WritingPc
<1>1. \A f \in Flusher \ {FlushLoop} : flusher[f].pc = "idle"
  BY DEF CloseFlushWaits, OnlyLoopFlushes, Base, Exclusive, FlusherFree, Flusher
<1>2. \A b \in Buffer : buffer[b].locked => Owns(FlushLoop, b)
  BY <1>1 DEF Base, Exclusive, LockHasOneOwner, Owns
<1> QED
  BY <1>1, <1>2 DEF Orderly, TurnsTaken, Writer

LEMMA CloseFlushWaitsStep ==
  Base /\ CloseInOrder /\ CloseFlushWaits /\ [Next]_vars => CloseFlushWaits'
<1> SUFFICES ASSUME Base, CloseInOrder, CloseFlushWaits, [Next]_vars,
                    ~SerializationCompleted'
             PROVE  flusher'[CloseFlush].pc = "idle"
  BY DEF CloseFlushWaits
<1>1. ~SerializationCompleted
  BY SingleWriterBefore
<1>2. flusher[CloseFlush].pc = "idle" /\ close.pc # "check"
  BY <1>1 DEF CloseFlushWaits, CloseInOrder
<1> QED
  BY <1>2, CloseFlushIdle

(* A call that is not in its flush has not been in it.                     *)
LEMMA OnlyLoopBefore ==
  ASSUME Base, [Next]_vars, OnlyLoopFlushes'
  PROVE  OnlyLoopFlushes
<1>1. call \in [Caller -> CallFrame]
  BY DEF Base, Typed, TypeOK, OuterTypeOK
<1>2. ASSUME NEW c \in Caller, call[c].pc = "flushing"
      PROVE  call'[c].pc = "flushing"
  <2>1. CASE call' = call
    BY <1>2, <2>1
  <2>2. ASSUME NEW d \in Caller, FlushTraces(d)
        PROVE  call'[c].pc = "flushing"
    <3>1. c # d /\ (call' = [call EXCEPT ![d] = call'[d]])
      BY <1>1, <1>2, <2>2 DEF FlushTraces, BeginFlushTraces, EnqueueWatermark,
                              WakeSerializer, FlushAllBuffers
    <3> QED
      BY <1>1, <1>2, <3>1
  <2>3. CASE SerializeTracesLoop /\ DequeueWatermark
    <3>1. PICK d \in Caller : call' = [call EXCEPT ![d].done = TRUE]
      BY <2>3 DEF DequeueWatermark
    <3>2. call[c] \in CallFrame
      BY <1>1
    <3> QED
      BY <1>1, <1>2, <3>1, <3>2 DEF CallFrame
  <2>4. CASE SerializeTracesLoop /\ ~DequeueWatermark
    BY <2>1, <2>4 DEF SerializeTracesLoop, DequeueTrace, QueueDrained, ExitCheck,
                      SleepBatch, WaitMutex, ResetMutex
  <2> QED
    BY <2>1, <2>2, <2>3, <2>4 DEF Next, WriteTrace, SerializeTrace, FlushBuffers,
       FlushBuffersTaskLoop, FlushAndClose, vars
<1> QED
  BY <1>2 DEF OnlyLoopFlushes

(* An empty buffer has nothing behind its header.                          *)
LEMMA OffsetStep == Base /\ OffsetOK /\ [Next]_vars => OffsetOK'
<1> SUFFICES ASSUME Base, OffsetOK, [Next]_vars, NEW b \in Buffer,
                    TraceCount(buffer'[b]) = 0
             PROVE  buffer'[b].offset = HeaderSize
  BY DEF OffsetOK
<1>1. buffer \in [Buffer -> SpanBufferType] /\ buffer[b] \in SpanBufferType
      /\ writer \in [Writer -> WriterFrame] /\ temporaryBuffer \in Trace \cup {NoTrace}
      /\ buffer[b].traces \in Seq(Trace)
  BY DEF Base, Typed, TypeOK, BufferTypeOK, WriterTypeOK, SpanBufferType
<1>2. CASE buffer'[b].traces = buffer[b].traces /\ buffer'[b].offset = buffer[b].offset
  BY <1>2 DEF OffsetOK, TraceCount
<1>3. ASSUME NEW w \in Writer, CopyToBuffer(w)
      PROVE  buffer'[b].offset = HeaderSize
  <2>0. PICK c \in Buffer : c = writer[w].buffer
    BY <1>1 DEF WriterFrame
  <2>1. PICK size : size = Size[writer[w].trace]
    OBVIOUS
  <2>2. \/ buffer' = [buffer EXCEPT ![c] = WithContent(buffer[c], temporaryBuffer, size)]
        \/ buffer' = [buffer EXCEPT ![c] = MarkFull(buffer[c])]
    BY <1>1, <1>3, <2>0, <2>1 DEF CopyToBuffer
  <2>3. CASE buffer'[b].traces = Append(buffer[b].traces, temporaryBuffer)
    <3>1. Len(buffer'[b].traces) = Len(buffer[b].traces) + 1
      BY <1>1, <2>3
    <3> QED
      BY <1>1, <3>1 DEF TraceCount
  <2>4. \/ buffer'[b].traces = Append(buffer[b].traces, temporaryBuffer)
        \/ buffer'[b].traces = buffer[b].traces /\ buffer'[b].offset = buffer[b].offset
    BY <1>1, <2>2, BufferOperations
  <2> QED
    BY <1>2, <2>3, <2>4
<1>4. ASSUME NEW f \in Flusher, FlushBuffers(f)
      PROVE  \/ buffer'[b].traces = buffer[b].traces /\ buffer'[b].offset = buffer[b].offset
             \/ buffer'[b].offset = HeaderSize
  BY <1>1, <1>4, FlushBuffersBuffer, BufferOperations
<1> QED
  BY <1>2, <1>3, <1>4, BufferSteps

(* What a flush has to do is listed from ChooseBuffers on.                 *)
LEMMA LoopTidyStep == Base /\ LoopTidy /\ [Next]_vars => LoopTidy'
<1> SUFFICES ASSUME Base, LoopTidy, [Next]_vars
             PROVE  LoopTidy'
  OBVIOUS
<1>1. /\ flusher \in [Flusher -> FlusherFrame] /\ FlushLoop \in Flusher
      /\ flusher[FlushLoop] \in FlusherFrame
  BY DEF Base, Typed, TypeOK, FlusherTypeOK, Flusher
<1>2. CASE /\ flusher'[FlushLoop].todo = flusher[FlushLoop].todo
           /\ \/ flusher'[FlushLoop].pc = flusher[FlushLoop].pc
              \/ flusher'[FlushLoop].pc \notin {"idle", "read", "choose"}
              \/ flusher'[FlushLoop].pc = "read" /\ flusher[FlushLoop].pc = "idle"
  BY <1>2 DEF LoopTidy
<1>3. CASE FlushBuffers(FlushLoop)
  <2>1. CASE ReadActiveBuffer(FlushLoop)
    <3>1. flusher'[FlushLoop].pc = "choose" /\ flusher'[FlushLoop].todo = <<activeBuffer>>
      BY <1>1, <2>1 DEF ReadActiveBuffer, FlusherFrame
    <3> QED
      BY <3>1 DEF LoopTidy
  <2>2. CASE ChooseBuffers(FlushLoop)
    BY <1>1, <2>2 DEF ChooseBuffers, FlusherFrame, LoopTidy
  <2>3. CASE NextBuffer(FlushLoop)
    BY <1>1, <2>3 DEF NextBuffer, IdleFlusher, LoopTidy
  <2>4. CASE ReadFlushTask(FlushLoop) \/ LockFails(FlushLoop)
    BY <1>1, <2>4 DEF ReadFlushTask, LockFails, FlusherFrame, LoopTidy
  <2>5. CASE ~(\/ ReadActiveBuffer(FlushLoop) \/ ChooseBuffers(FlushLoop)
               \/ NextBuffer(FlushLoop) \/ ReadFlushTask(FlushLoop)
               \/ LockFails(FlushLoop))
    <3>1. flusher'[FlushLoop].todo = flusher[FlushLoop].todo
      BY <1>1, <1>3, <2>5, FlushBuffersFrame
    <3>2. \/ flusher'[FlushLoop].pc = flusher[FlushLoop].pc
          \/ flusher'[FlushLoop].pc \in {"sending", "clear", "flushed"}
      BY <1>1, <1>3, <2>5, FlushBuffersFrame
    <3> QED
      BY <1>2, <3>1, <3>2
  <2> QED
    BY <2>1, <2>2, <2>3, <2>4, <2>5
<1>4. ASSUME NEW f \in Flusher \ {FlushLoop}, FlushBuffers(f)
      PROVE  LoopTidy'
  BY <1>1, <1>2, <1>4, FlushBuffersFrame
<1>5. CASE FlushBuffersTaskLoop
  <2>1. flusher' = flusher \/ (StartFlush(FlushLoop) /\ loopPc # "flushing")
    BY <1>5 DEF FlushBuffersTaskLoop, LoopWakes, LoopReplacesForceFlush, LoopRepeats
  <2>2. StartFlush(FlushLoop) => /\ flusher'[FlushLoop].pc = "read"
                                 /\ flusher'[FlushLoop].todo = flusher[FlushLoop].todo
    BY <1>1 DEF StartFlush, FlusherFrame
  <2>3. loopPc # "flushing" => flusher[FlushLoop].pc = "idle"
    BY DEF Base, Exclusive, FlusherFree
  <2> QED
    BY <1>2, <2>1, <2>2, <2>3
<1>6. CASE flusher'[FlushLoop] = flusher[FlushLoop]
  BY <1>2, <1>6
<1>7. ASSUME NEW c \in Caller, FlushTraces(c)
      PROVE  flusher'[FlushLoop] = flusher[FlushLoop]
  <2>1. c # FlushLoop
    BY ThreadAssumption
  <2> QED
    BY <1>1, <1>7, <2>1 DEF FlushTraces, BeginFlushTraces, EnqueueWatermark,
                       WakeSerializer, FlushAllBuffers, StartFlush
<1>8. CASE FlushAndClose
  <2>1. CloseFlush # FlushLoop
    BY ThreadAssumption
  <2> QED
    BY <1>1, <1>6, <1>8, <2>1 DEF FlushAndClose, BeginClose, CloseWakesSerializer,
       CloseAwaitsSerialization, CloseAwaitsFlushLoop, CloseChecksBuffers, CloseForced,
       StartFlush
<1>9. CASE \/ \E p \in Producer : WriteTrace(p)
           \/ \E w \in Writer : SerializeTrace(w)
           \/ SerializeTracesLoop \/ UNCHANGED vars
  BY <1>6, <1>9 DEF WriteTrace, SerializeTrace, SerializeTracesLoop, vars
<1> QED
  BY <1>3, <1>4, <1>5, <1>6, <1>7, <1>8, <1>9 DEF Next

-----------------------------------------------------------------------------
(* A flush request is not lost.                                            *)

LEMMA RequestedKept ==
  ASSUME RequestMade, LoopFollows, RetryFits,
         UNCHANGED <<buffer, activeBuffer, forceFlush>>,
         flusher'[FlushLoop] = flusher[FlushLoop],
         loopPc = "replace" => loopPc' = "replace",
         writer'[Serializer] = writer[Serializer]
  PROVE  RequestMade' /\ LoopFollows' /\ RetryFits'
  BY DEF RequestMade, LoopFollows, RetryFits, LoopWillFlush, Requesting, Vacant,
         TraceCount, Other

(* With both buffers full the loop comes to the active one last.           *)
LEMMA LoopSweeps ==
  ASSUME Base, Orderly, CloseFlushWaits, OnlyLoopFlushes, ~SerializationCompleted,
         LoopTidy, RequestMade, LoopFollows, writer[Serializer].pc = "swap",
         buffer[Other(activeBuffer)].full
  PROVE  forceFlush \/ LoopWillFlush(activeBuffer)
<1> DEFINE frame == flusher[FlushLoop]
           target == Other(activeBuffer)
<1>1. /\ frame \in FlusherFrame /\ frame.todo \in Seq(Buffer)
      /\ target \in Buffer /\ target # activeBuffer
  BY OtherBuffer DEF Base, Typed, TypeOK, FlusherTypeOK, SwapTypeOK, FlusherFrame, Flusher
<1>2. ~Requesting
  BY DEF Requesting
<1>3. buffer[target].locked \/ forceFlush \/ LoopWillFlush(target)
  BY <1>1, <1>2 DEF RequestMade
<1> SUFFICES ASSUME ~forceFlush, ~LoopWillFlush(activeBuffer)
             PROVE  FALSE
  OBVIOUS
<1>4. loopPc # "replace" /\ frame.pc \notin {"read", "choose"}
  BY DEF LoopWillFlush
<1>5. \E i \in 1..Len(frame.todo) : frame.todo[i] = target
  <2>1. CASE buffer[target].locked
    <3>1. frame.pc \in {"sending", "clear"} /\ Head(frame.todo) = target
      BY <1>1, <2>1, LoopAlone DEF Owns, Current
    <3>2. frame.todo # <<>>
      BY <3>1 DEF Base, Typed, FlusherFramesOK, Flusher
    <3> QED
      BY <1>1, <3>1, <3>2
  <2>2. CASE LoopWillFlush(target)
    BY <1>4, <2>2 DEF LoopWillFlush
  <2> QED
    BY <1>3, <2>1, <2>2
<1>6. frame.todo # <<>> /\ Len(frame.todo) \in Nat
  BY <1>1, <1>5
<1>7. frame.todo[Len(frame.todo)] = activeBuffer
  BY <1>2, <1>6 DEF LoopTidy, LoopFollows
<1>8. Len(frame.todo) > 1
  BY <1>1, <1>5, <1>6, <1>7
<1>9. Len(frame.todo) \in 1..Len(frame.todo)
  BY <1>6, <1>8
<1> QED
  BY <1>7, <1>8, <1>9 DEF LoopWillFlush

(* After a swap the second attempt finds room.                             *)
LEMMA RetryHasRoom ==
  ASSUME Base, Orderly, SwapInOrder, OffsetOK, RetryFits, TracesFit,
         CopyToBuffer(Serializer), writer[Serializer].retry
  PROVE  HasRoom(buffer[activeBuffer], Size[writer[Serializer].trace])
<1>1. /\ Serializer \in Writer /\ writer[Serializer].pc = "copy"
      /\ activeBuffer \in Buffer /\ writer[Serializer].trace \in Trace
  BY DEF CopyToBuffer, Base, Typed, TypeOK, SwapTypeOK, WriterFramesOK, Writer, WritingPc
<1>2. writer[Serializer].buffer = activeBuffer
  BY <1>1 DEF SwapInOrder, WritingPc
<1>3. monitor[activeBuffer] = Serializer /\ Serializer # NoThread
  BY <1>1, <1>2, ThreadAssumption DEF Base, Exclusive, MonitorExcludes
<1>4. ~buffer[activeBuffer].locked
  BY <1>1, <1>3 DEF Base, Exclusive, MonitorExcludes
<1>5. TraceCount(buffer[activeBuffer]) = 0
  BY <1>1, <1>4 DEF RetryFits, Vacant
<1>6. buffer[activeBuffer].offset = HeaderSize
  BY <1>1, <1>5 DEF OffsetOK
<1> QED
  BY <1>1, <1>6 DEF TracesFit, HasRoom

LEMMA SerializeTraceRequested ==
  ASSUME Base, Orderly, CloseFlushWaits, OnlyLoopFlushes, ~SerializationCompleted,
         TracesFit, SwapInOrder, NotStranded, OffsetOK, LoopTidy,
         RequestMade, LoopFollows, RetryFits, SerializeTrace(Serializer)
  PROVE  RequestMade' /\ LoopFollows' /\ RetryFits'
<1>1. /\ writer \in [Writer -> WriterFrame] /\ Serializer \in Writer
      /\ writer[Serializer] \in WriterFrame
      /\ buffer \in [Buffer -> SpanBufferType]
      /\ activeBuffer \in Buffer /\ writer[Serializer].buffer \in Buffer
  BY DEF Base, Typed, TypeOK, WriterTypeOK, BufferTypeOK, SwapTypeOK, WriterFrame, Writer
<1>2. flusher' = flusher /\ loopPc' = loopPc
  BY DEF SerializeTrace
<1>3. \A b \in Buffer : LoopWillFlush(b)' <=> LoopWillFlush(b)
  BY <1>2 DEF LoopWillFlush
<1>4. CASE TryEnterFails(Serializer) \/ SerializeToTemporary(Serializer)
  <2>1. UNCHANGED <<buffer, activeBuffer, forceFlush>>
    BY <1>4 DEF TryEnterFails, SerializeToTemporary, bufferVars, swapVars
  <2>2. /\ writer[Serializer].pc = "try"
        /\ writer'[Serializer].retry = writer[Serializer].retry
        /\ writer'[Serializer].pc \in {"copy", "swap", "drop"}
    BY <1>1, <1>4 DEF TryEnterFails, SerializeToTemporary, Refused, Goto, WriterFrame
  <2> QED
    BY <1>2, <1>3, <2>1, <2>2 DEF RequestMade, LoopFollows, RetryFits, Requesting, Vacant,
                                  TraceCount
<1>5. CASE SerializeThrows(Serializer) \/ DropTrace(Serializer)
  <2>1. UNCHANGED <<buffer, activeBuffer, forceFlush>>
    BY <1>5 DEF SerializeThrows, DropTrace, bufferVars, swapVars
  <2>2. writer'[Serializer].pc = "idle" /\ writer[Serializer].pc \in {"try", "drop"}
    BY <1>1, <1>5 DEF SerializeThrows, DropTrace, Finish, IdleWriter
  <2> QED
    BY <1>2, <1>3, <2>1, <2>2 DEF RequestMade, LoopFollows, RetryFits, Requesting
<1>6. CASE CopyToBuffer(Serializer)
  <2>1. writer[Serializer].pc = "copy" /\ writer[Serializer].buffer = activeBuffer
    BY <1>6 DEF CopyToBuffer, SwapInOrder, WritingPc, Writer
  <2>2. UNCHANGED <<activeBuffer, forceFlush>>
    BY <1>6 DEF CopyToBuffer, swapVars
  <2>3. CASE HasRoom(buffer[activeBuffer], Size[writer[Serializer].trace])
    <3>1. PICK size : buffer' = [buffer EXCEPT ![activeBuffer] =
                        WithContent(buffer[activeBuffer], temporaryBuffer, size)]
      BY <1>6, <2>1, <2>3 DEF CopyToBuffer
    <3>2. writer'[Serializer].pc = "idle"
      BY <1>1, <1>6, <2>1, <2>3 DEF CopyToBuffer, Finish, IdleWriter
    <3>3. \A b \in Buffer : buffer'[b].full = buffer[b].full
                            /\ buffer'[b].locked = buffer[b].locked
      BY <1>1, <3>1, BufferOperations
    <3> QED
      BY <1>2, <1>3, <2>1, <2>2, <3>2, <3>3
         DEF RequestMade, LoopFollows, RetryFits, Requesting
  <2>4. CASE ~HasRoom(buffer[activeBuffer], Size[writer[Serializer].trace])
    <3>1. ~writer[Serializer].retry
      BY <1>6, <2>4, RetryHasRoom
    <3>2. /\ buffer' = [buffer EXCEPT ![activeBuffer] = MarkFull(buffer[activeBuffer])]
          /\ Refused(Serializer)
      BY <1>6, <2>1, <2>4 DEF CopyToBuffer
    <3>3. writer'[Serializer].pc = "swap"
      BY <1>1, <3>1, <3>2 DEF Refused, Goto, WriterFrame
    <3>4. \A b \in Buffer : b # activeBuffer => buffer'[b] = buffer[b]
      BY <1>1, <3>2
    <3> QED
      BY <1>2, <1>3, <2>1, <2>2, <3>3, <3>4
         DEF RequestMade, LoopFollows, RetryFits, Requesting
  <2> QED
    BY <2>3, <2>4
<1>7. CASE SwapBuffers(Serializer)
  <2>1. UNCHANGED <<buffer, activeBuffer, forceFlush>> /\ writer[Serializer].pc = "swap"
    BY <1>7 DEF SwapBuffers, bufferVars, swapVars
  <2>2. CASE buffer[Other(activeBuffer)].full
    <3>1. writer'[Serializer].pc = "drop"
      BY <1>1, <1>7, <2>2 DEF SwapBuffers, Goto, WriterFrame
    <3>2. forceFlush \/ LoopWillFlush(activeBuffer)
      BY <2>1, <2>2, LoopSweeps
    <3> QED
      BY <1>2, <1>3, <2>1, <3>1, <3>2 DEF RequestMade, LoopFollows, RetryFits, Requesting
  <2>3. CASE ~buffer[Other(activeBuffer)].full
    <3>1. writer'[Serializer].pc = "publish"
      BY <1>1, <1>7, <2>3 DEF SwapBuffers, WriterFrame
    <3>2. Vacant(Other(activeBuffer))
      <4>1. Other(activeBuffer) \in Buffer /\ Other(activeBuffer) # activeBuffer
        BY <1>1, OtherBuffer
      <4>2. TraceCount(buffer[Other(activeBuffer)]) \in Nat
        BY <1>1, <4>1 DEF TraceCount, SpanBufferType
      <4> QED
        BY <2>3, <4>1, <4>2 DEF NotStranded, Vacant
    <3>3. Vacant(Other(activeBuffer))'
      BY <2>1, <3>2 DEF Vacant, TraceCount, Other
    <3> QED
      BY <1>2, <1>3, <2>1, <3>1, <3>3 DEF RequestMade, LoopFollows, RetryFits, Requesting
  <2> QED
    BY <2>2, <2>3
<1>8. CASE PublishSwap(Serializer)
  <2>1. /\ UNCHANGED <<buffer, forceFlush>> /\ writer[Serializer].pc = "publish"
        /\ writer[Serializer].buffer = Other(activeBuffer)
        /\ activeBuffer' = Other(activeBuffer)
    BY <1>1, <1>8 DEF PublishSwap, bufferVars, SwapInOrder
  <2>2. writer'[Serializer].pc = "request"
    BY <1>1, <1>8 DEF PublishSwap, Goto, WriterFrame
  <2>3. Vacant(activeBuffer)'
    BY <2>1 DEF RetryFits, Vacant, TraceCount
  <2> QED
    BY <2>2, <2>3 DEF RequestMade, LoopFollows, RetryFits, Requesting
<1>9. CASE RequestFlush(Serializer)
  <2>1. /\ UNCHANGED <<buffer, activeBuffer, forceFlush>>
        /\ writer[Serializer].pc = "request" /\ writer'[Serializer].pc = "complete"
    BY <1>1, <1>9 DEF RequestFlush, bufferVars, swapVars, WriterFrame
  <2> QED
    BY <2>1 DEF RequestMade, LoopFollows, RetryFits, Requesting, Vacant, TraceCount
<1>10. CASE CompleteRequest(Serializer)
  <2>1. /\ UNCHANGED <<buffer, activeBuffer>>
        /\ writer[Serializer].pc \in {"complete", "stale"}
        /\ writer'[Serializer].pc = "try"
        /\ forceFlush' = (forceFlush \/ writer[Serializer].pc = "complete")
    BY <1>1, <1>10 DEF CompleteRequest, bufferVars, WriterFrame
  <2>2. Vacant(activeBuffer)'
    BY <2>1 DEF RetryFits, Vacant, TraceCount
  <2>3. CASE writer[Serializer].pc = "complete"
    BY <2>1, <2>2, <2>3 DEF RequestMade, LoopFollows, RetryFits, Requesting
  <2>4. CASE writer[Serializer].pc = "stale"
    BY <1>2, <1>3, <2>1, <2>2, <2>4 DEF RequestMade, LoopFollows, RetryFits, Requesting
  <2> QED
    BY <2>1, <2>3, <2>4
<1> QED
  BY <1>4, <1>5, <1>6, <1>7, <1>8, <1>9, <1>10 DEF SerializeTrace

LEMMA FlushLoopRequested ==
  ASSUME Base, Orderly, CloseFlushWaits, OnlyLoopFlushes, ~SerializationCompleted,
         LoopTidy, RequestMade, LoopFollows, RetryFits, FlushBuffers(FlushLoop)
  PROVE  RequestMade' /\ LoopFollows' /\ RetryFits'
<1> DEFINE f == FlushLoop
           todo == flusher[f].todo
<1>1. /\ f \in Flusher /\ flusher \in [Flusher -> FlusherFrame]
      /\ flusher[f] \in FlusherFrame /\ todo \in Seq(Buffer) /\ Len(todo) \in Nat
      /\ buffer \in [Buffer -> SpanBufferType] /\ activeBuffer \in Buffer
  BY DEF Base, Typed, TypeOK, FlusherTypeOK, FlusherFrame, BufferTypeOK, SwapTypeOK, Flusher
<1>2. UNCHANGED <<writer, activeBuffer, forceFlush, loopPc>> /\ (Requesting' <=> Requesting)
  BY DEF FlushBuffers, swapVars, Requesting
<1>3. ASSUME NEW b \in Buffer
      PROVE  /\ Vacant(b) => Vacant(b)'
             /\ buffer'[b].full => /\ buffer[b].full
                                   /\ buffer[b].locked => buffer'[b].locked
  <2>1. buffer[b] \in SpanBufferType /\ Len(<<>>) = 0
    BY <1>1
  <2> QED
    BY <1>1, <2>1, FlushBuffersBuffer, BufferOperations DEF Vacant, TraceCount
<1>4. RetryFits'
  <2>1. activeBuffer' = activeBuffer /\ Other(activeBuffer) \in Buffer
    BY <1>1, <1>2, OtherBuffer
  <2> QED
    BY <1>1, <1>2, <1>3, <2>1 DEF RetryFits, Other
<1>5. ASSUME \A b \in Buffer : buffer'[b].full /\ LoopWillFlush(b) =>
                buffer'[b].locked \/ LoopWillFlush(b)'
      PROVE  RequestMade'
  BY <1>2, <1>3, <1>5 DEF RequestMade
<1>6. CASE /\ flusher'[f].todo = todo /\ flusher[f].pc \notin {"idle", "read", "choose"}
           /\ flusher'[f].pc \notin {"idle", "read", "choose"}
           /\ \/ flusher[f].pc \in {"previous", "lock"} => flusher'[f].pc \in {"previous", "lock"}
              \/ ~buffer'[Current(f)].full \/ buffer'[Current(f)].locked
  <2>1. LoopFollows'
    BY <1>2, <1>6 DEF LoopFollows
  <2>2. ASSUME NEW b \in Buffer, LoopWillFlush(b), buffer'[b].full, ~buffer'[b].locked
        PROVE  LoopWillFlush(b)'
    <3>1. CASE loopPc = "replace"
      BY <1>2, <3>1 DEF LoopWillFlush
    <3>2. ASSUME NEW i \in 1..Len(todo), todo[i] = b,
                 i > 1 \/ flusher[f].pc \in {"previous", "lock"}
          PROVE  LoopWillFlush(b)'
      <4>1. i = 1 => Current(f) = b
        BY <1>1, <3>2 DEF Current
      <4>2. i > 1 \/ flusher'[f].pc \in {"previous", "lock"}
        BY <1>6, <2>2, <3>2, <4>1
      <4> QED
        BY <1>6, <3>2, <4>2 DEF LoopWillFlush
    <3> QED
      BY <1>6, <2>2, <3>1, <3>2 DEF LoopWillFlush
  <2> QED
    BY <1>4, <1>5, <2>1, <2>2
<1>7. CASE ReadActiveBuffer(f)
  <2>1. flusher'[f].pc = "choose" /\ flusher'[f].todo = <<activeBuffer>>
    BY <1>1, <1>7 DEF ReadActiveBuffer, FlusherFrame
  <2>2. RequestMade'
    BY <1>5, <2>1 DEF LoopWillFlush
  <2>3. LoopFollows'
    BY <1>2, <2>1 DEF LoopFollows
  <2> QED
    BY <1>4, <2>2, <2>3
<1>8. CASE ChooseBuffers(f)
  <2>1. /\ Len(todo) = 1 /\ flusher[f].pc = "choose" /\ Current(f) = todo[1]
        /\ Current(f) \in Buffer
    BY <1>1, <1>8 DEF ChooseBuffers, LoopTidy, Current
  <2>2. /\ flusher'[f].pc = "previous"
        /\ flusher'[f].todo = IF buffer[Other(Current(f))].full
                              THEN <<Other(Current(f)), Current(f)>> ELSE todo
    BY <1>1, <1>8 DEF ChooseBuffers, FlusherFrame
  <2>3. LoopFollows'
    <3>1. flusher'[f].todo[Len(flusher'[f].todo)] = todo[Len(todo)]
      BY <2>1, <2>2
    <3> QED
      BY <1>2, <2>1, <3>1 DEF LoopFollows
  <2>4. ASSUME NEW b \in Buffer, buffer'[b].full
        PROVE  LoopWillFlush(b)'
    <3>1. buffer[b].full
      BY <1>3, <2>4
    <3>2. b = Current(f) \/ b = Other(Current(f))
      BY <2>1, OtherBuffer
    <3>3. \E i \in 1..Len(flusher'[f].todo) : flusher'[f].todo[i] = b
      BY <2>1, <2>2, <3>1, <3>2
    <3> QED
      BY <2>2, <3>3 DEF LoopWillFlush
  <2> QED
    BY <1>4, <1>5, <2>3, <2>4
<1>9. CASE LockFails(f)
  <2>1. Current(f) \in Buffer
    BY <1>1, <1>9 DEF LockFails, Base, Typed, FlusherFramesOK, Current
  <2>2. buffer[Current(f)].locked /\ flusher[f].pc = "lock"
    BY <1>9 DEF LockFails
  <2>3. Owns(f, Current(f))
    BY <2>1, <2>2, LoopAlone
  <2> QED
    BY <2>2, <2>3 DEF Owns
<1>10. CASE LockBuffer(f)
  <2>1. /\ flusher'[f].todo = todo /\ flusher[f].pc = "lock"
        /\ flusher'[f].pc \in {"sending", "clear"} /\ Current(f) \in Buffer
    BY <1>1, <1>10 DEF LockBuffer, FlusherFrame, Base, Typed, FlusherFramesOK, Current
  <2>2. buffer'[Current(f)].locked
    BY <1>1, <1>10, <2>1 DEF LockBuffer, Locked, SpanBufferType
  <2> QED
    BY <1>6, <2>1, <2>2
<1>11. CASE ReadFlushTask(f)
  <2>1. flusher'[f].todo = todo /\ flusher[f].pc = "previous" /\ flusher'[f].pc = "lock"
    BY <1>1, <1>11 DEF ReadFlushTask, FlusherFrame
  <2> QED
    BY <1>6, <2>1
<1>12. CASE StoreFlushTask(f) \/ SendSucceeds(f) \/ SendFails(f)
  <2>1. flusher[f].pc \in {"sending", "clear", "flushed"}
    BY <1>12 DEF StoreFlushTask, SendSucceeds, SendFails
  <2>2. flusher'[f].todo = todo /\ flusher'[f].pc \in {"sending", "clear", "flushed"}
    <3>1. CASE StoreFlushTask(f)
      <4>1. flusher'[f] = [flusher[f] EXCEPT !.stored = TRUE]
        BY <1>1, <3>1 DEF StoreFlushTask
      <4> QED
        BY <1>1, <2>1, <4>1 DEF FlusherFrame
    <3>2. CASE SendSucceeds(f) \/ SendFails(f)
      <4>1. flusher'[f] = [flusher[f] EXCEPT !.pc = "clear"]
        BY <1>1, <3>2 DEF SendSucceeds, SendFails
      <4> QED
        BY <1>1, <4>1 DEF FlusherFrame
    <3> QED
      BY <1>12, <3>1, <3>2
  <2> QED
    BY <1>6, <2>1, <2>2
<1>13. CASE ClearBuffer(f)
  <2>1. flusher'[f] = [flusher[f] EXCEPT !.pc = "flushed", !.payload = <<>>]
    BY <1>1, <1>13 DEF ClearBuffer
  <2>2. flusher'[f].todo = todo /\ flusher'[f].pc = "flushed" /\ flusher[f].pc = "clear"
    BY <1>1, <1>13, <2>1 DEF FlusherFrame, ClearBuffer
  <2> QED
    BY <1>6, <2>2
<1>14. CASE NextBuffer(f)
  <2>1. flusher[f].pc = "flushed" /\ todo # <<>>
    BY <1>1, <1>14 DEF NextBuffer, Base, Typed, FlusherFramesOK
  <2>2. /\ Tail(todo) \in Seq(Buffer) /\ Len(Tail(todo)) = Len(todo) - 1
        /\ \A i \in 1..Len(todo) - 1 : Tail(todo)[i] = todo[i + 1]
    BY <1>1, <2>1
  <2>3. CASE Tail(todo) = <<>>
    <3>1. flusher'[f].pc = "idle" /\ flusher'[f].todo = <<>>
      BY <1>1, <1>14, <2>3 DEF NextBuffer, IdleFlusher
    <3>2. Len(todo) = 1
      <4>1. Len(<<>>) = 0
        OBVIOUS
      <4>2. Len(Tail(todo)) = Len(<<>>)
        BY <2>3, Zenon
      <4>3. Len(todo) - 1 = 0
        BY <2>2, <4>1, <4>2
      <4> QED
        BY <1>1, <4>3
    <3>3. RequestMade'
      BY <1>2, <1>5, <2>1, <3>2 DEF LoopWillFlush
    <3> QED
      BY <1>4, <3>1, <3>3 DEF LoopFollows
  <2>4. CASE Tail(todo) # <<>>
    <3>1. flusher'[f].pc = "lock" /\ flusher'[f].todo = Tail(todo)
      BY <1>1, <1>14, <2>4 DEF NextBuffer
    <3>2. Len(todo) > 1
      BY <2>2, <2>4
    <3>3. Tail(todo)[Len(Tail(todo))] = todo[Len(todo)]
      BY <1>1, <2>2, <3>2
    <3>4. LoopFollows'
      BY <1>2, <2>1, <3>1, <3>3 DEF LoopFollows
    <3>5. ASSUME NEW b \in Buffer, LoopWillFlush(b)
          PROVE  LoopWillFlush(b)'
      <4>1. CASE loopPc = "replace"
        BY <1>2, <4>1 DEF LoopWillFlush
      <4>2. ASSUME NEW i \in 2..Len(todo), todo[i] = b
            PROVE  LoopWillFlush(b)'
        <5>1. i - 1 \in 1..Len(Tail(todo)) /\ Tail(todo)[i - 1] = b
          BY <1>1, <2>2, <4>2
        <5> QED
          BY <3>1, <5>1 DEF LoopWillFlush
      <4>3. loopPc = "replace" \/ \E i \in 2..Len(todo) : todo[i] = b
        BY <1>1, <2>1, <3>5 DEF LoopWillFlush
      <4> QED
        BY <4>1, <4>2, <4>3
    <3> QED
      BY <1>4, <1>5, <3>4, <3>5
  <2> QED
    BY <2>3, <2>4
<1> QED
  BY <1>7, <1>8, <1>9, <1>10, <1>11, <1>12, <1>13, <1>14 DEF FlushBuffers

LEMMA RequestedStep ==
  ASSUME Base, Orderly, CloseFlushWaits, LoopTidy, OffsetOK, Requested,
         SwapInOrder, NotStranded, [Next]_vars
  PROVE  Requested'
<1> SUFFICES ASSUME TracesFit, OnlyLoopFlushes', ~SerializationCompleted'
             PROVE  RequestMade' /\ LoopFollows' /\ RetryFits'
  BY DEF Requested, TracesFit
<1>1. OnlyLoopFlushes /\ ~SerializationCompleted
  BY OnlyLoopBefore, SingleWriterBefore
<1>2. RequestMade /\ LoopFollows /\ RetryFits
  BY <1>1 DEF Requested
<1>3. /\ writer \in [Writer -> WriterFrame] /\ Serializer \in Writer
      /\ flusher \in [Flusher -> FlusherFrame] /\ FlushLoop \in Flusher
      /\ flusher[FlushLoop] \in FlusherFrame
  BY DEF Base, Typed, TypeOK, WriterTypeOK, FlusherTypeOK, Writer, Flusher
<1>4. ASSUME NEW p \in Producer, WriteTrace(p)
      PROVE  RequestMade' /\ LoopFollows' /\ RetryFits'
  <2>1. writer'[Serializer] = writer[Serializer]
    BY <1>3, <1>4, WriteTraceFrame DEF Base
  <2> QED
    BY <1>2, <1>4, <2>1, RequestedKept DEF WriteTrace, bufferVars, swapVars
<1>5. ASSUME NEW w \in Writer, SerializeTrace(w)
      PROVE  RequestMade' /\ LoopFollows' /\ RetryFits'
  <2>1. w = Serializer
    BY <1>1, <1>5, LoopAlone, SerializeTraceFrame DEF Base
  <2> QED
    BY <1>1, <1>2, <1>5, <2>1, SerializeTraceRequested
<1>6. CASE SerializeTracesLoop
  <2>1. UNCHANGED <<buffer, activeBuffer, forceFlush, flusher, loopPc>>
    BY <1>6 DEF SerializeTracesLoop, bufferVars, swapVars
  <2>2. CASE writer' = writer
    BY <1>2, <2>1, <2>2, RequestedKept
  <2>3. CASE DequeueTrace
    <3>1. /\ writer[Serializer].pc = "idle" /\ writer'[Serializer].pc = "try"
          /\ ~writer'[Serializer].retry
      BY <1>3, <2>3 DEF DequeueTrace, Draining, Attempt
    <3> QED
      BY <1>2, <2>1, <3>1 DEF RequestMade, LoopFollows, RetryFits, Requesting, LoopWillFlush
  <2> QED
    BY <1>6, <2>2, <2>3 DEF SerializeTracesLoop, DequeueWatermark, QueueDrained,
       ExitCheck, SleepBatch, WaitMutex, ResetMutex
<1>7. ASSUME NEW f \in Flusher, FlushBuffers(f)
      PROVE  RequestMade' /\ LoopFollows' /\ RetryFits'
  <2>1. flusher[f].pc # "idle"
    BY <1>7 DEF FlushBuffers, ReadActiveBuffer, ChooseBuffers, ReadFlushTask, LockBuffer,
       LockFails, StoreFlushTask, SendSucceeds, SendFails, ClearBuffer, NextBuffer
  <2>2. f = FlushLoop
    BY <1>1, <2>1, LoopAlone
  <2> QED
    BY <1>1, <1>2, <1>7, <2>2, FlushLoopRequested
<1>8. CASE FlushBuffersTaskLoop
  <2>1. UNCHANGED <<buffer, activeBuffer>>
    BY <1>8 DEF FlushBuffersTaskLoop, bufferVars
  <2>2. StartFlush(FlushLoop) => flusher'[FlushLoop].pc = "read"
    BY <1>3 DEF StartFlush, FlusherFrame
  <2>3. loopPc # "flushing" => flusher[FlushLoop].pc = "idle"
    BY DEF Base, Exclusive, FlusherFree
  <2>4. CASE LoopRepeats
    BY <1>2, <2>1, <2>4, RequestedKept DEF LoopRepeats
  <2>5. CASE LoopWakes /\ forceFlush
    <3>1. UNCHANGED <<writer, flusher, forceFlush>> /\ loopPc' = "replace"
      BY <2>5 DEF LoopWakes
    <3> QED
      BY <1>2, <2>1, <2>5, <3>1, RequestedKept
  <2>6. CASE (LoopWakes /\ ~forceFlush) \/ LoopReplacesForceFlush
    <3>1. StartFlush(FlushLoop)
      BY <2>6 DEF LoopWakes, LoopReplacesForceFlush
    <3>2. /\ \/ writer'[Serializer].pc = writer[Serializer].pc
             \/ writer[Serializer].pc = "complete" /\ writer'[Serializer].pc = "stale"
          /\ writer'[Serializer].retry = writer[Serializer].retry
      <4>1. writer'[Serializer] \in {writer[Serializer], Outdated(writer[Serializer])}
        BY <1>3, <2>6 DEF LoopWakes, LoopReplacesForceFlush
      <4>2. writer[Serializer] \in WriterFrame
        BY <1>3
      <4> QED
        BY <4>1, <4>2 DEF Outdated, WriterFrame
    <3>3. RetryFits'
      BY <1>2, <2>1, <3>2 DEF RetryFits, Vacant, TraceCount, Other
    <3> QED
      BY <2>2, <3>1, <3>3 DEF RequestMade, LoopFollows, LoopWillFlush
  <2> QED
    BY <1>8, <2>4, <2>5, <2>6 DEF FlushBuffersTaskLoop
<1>9. ASSUME NEW c \in Caller, FlushTraces(c)
      PROVE  RequestMade' /\ LoopFollows' /\ RetryFits'
  <2>1. flusher'[FlushLoop] = flusher[FlushLoop]
    <3>1. c # FlushLoop
      BY ThreadAssumption
    <3> QED
      BY <1>3, <1>9, <3>1 DEF FlushTraces, BeginFlushTraces, EnqueueWatermark,
         WakeSerializer, FlushAllBuffers, StartFlush
  <2> QED
    BY <1>2, <1>9, <2>1, RequestedKept DEF FlushTraces, bufferVars, swapVars
<1>10. CASE FlushAndClose
  <2>1. flusher'[FlushLoop] = flusher[FlushLoop]
    <3>1. CloseFlush # FlushLoop
      BY ThreadAssumption
    <3> QED
      BY <1>3, <1>10, <3>1 DEF FlushAndClose, BeginClose, CloseWakesSerializer,
         CloseAwaitsSerialization, CloseAwaitsFlushLoop, CloseChecksBuffers, CloseForced,
         StartFlush
  <2> QED
    BY <1>2, <1>10, <2>1, RequestedKept DEF FlushAndClose, bufferVars, swapVars
<1>11. CASE UNCHANGED vars
  BY <1>2, <1>11, RequestedKept DEF vars, bufferVars, swapVars
<1> QED
  BY <1>4, <1>5, <1>6, <1>7, <1>8, <1>9, <1>10, <1>11 DEF Next

LEMMA InitRequested == Init => CloseFlushWaits /\ LoopTidy /\ OffsetOK /\ Requested
<1> SUFFICES ASSUME Init
             PROVE  CloseFlushWaits /\ LoopTidy /\ OffsetOK /\ Requested
  OBVIOUS
<1>1. \A f \in Flusher : flusher[f].pc = "idle" /\ flusher[f].todo = <<>>
  BY DEF Init, IdleFlusher
<1>2. \A b \in Buffer : buffer[b] = EmptyBuffer
  BY DEF Init
<1>3. writer[Serializer].pc = "idle"
  BY DEF Init, IdleWriter, Writer
<1>4. CloseFlushWaits /\ LoopTidy
  BY <1>1 DEF CloseFlushWaits, LoopTidy, Flusher
<1>5. OffsetOK /\ RequestMade
  BY <1>2 DEF OffsetOK, RequestMade, EmptyBuffer
<1>6. LoopFollows /\ RetryFits
  BY <1>1, <1>3 DEF LoopFollows, RetryFits, Flusher
<1> QED
  BY <1>4, <1>5, <1>6 DEF Requested

(* A full buffer need not wait for the one-second delay: unless a          *)
(* FlushTracesAsync call comes between, the flush it was swapped away for  *)
(* is under way, about to be, or asked for, whatever the moment at which   *)
(* the loop replaces _forceFlush.                                          *)
THEOREM RequestKept == Spec => []RequestNotLost
<1> DEFINE Sure == Base /\ Orderly /\ CloseInOrder
           Swaps == SingleWriter => SwapInOrder /\ NotStranded
           Inv == Swaps /\ CloseFlushWaits /\ LoopTidy /\ OffsetOK /\ Requested
<1>1. Init => Inv
  BY InitSwap, InitRequested
<1>2. Sure /\ Inv /\ [Next]_vars => Inv'
  <2> SUFFICES ASSUME Sure, Inv, [Next]_vars
               PROVE  Inv'
    OBVIOUS
  <2>1. Swaps'
    BY SingleWriterBefore, SwapStep
  <2>2. CloseFlushWaits' /\ LoopTidy' /\ OffsetOK'
    BY CloseFlushWaitsStep, LoopTidyStep, OffsetStep
  <2>3. Requested'
    <3>1. CASE SingleWriter
      BY <3>1, RequestedStep
    <3>2. CASE ~SingleWriter
      <4>1. SerializationCompleted'
        BY <3>2, SingleWriterBefore DEF SingleWriter
      <4> QED
        BY <4>1 DEF Requested
    <3> QED
      BY <3>1, <3>2
  <2> QED
    BY <2>1, <2>2, <2>3
<1>3. Inv => RequestNotLost
  BY DEF RequestNotLost, Requested, RequestMade, Requesting
<1>4. Spec => [](Base /\ Orderly /\ OneAtATime)
  BY ConservationInvariant
<1>5. Spec => []CloseInOrder
  BY CloseInOrderInvariant
<1> QED
  BY <1>1, <1>2, <1>3, <1>4, <1>5, PTL DEF Spec
=============================================================================
