----------------------------- MODULE SpanBuffer -----------------------------
(***************************************************************************)
(* One of the two buffers of AgentWriter (Agent/SpanBuffer.cs): the        *)
(* serialized traces appended to it, the write offset, and the two flags   *)
(* that make it refuse a write.  The operations are pure; the monitor that *)
(* serializes them (_syncRoot) belongs to the module that has threads.     *)
(* How the byte array grows is abstracted to "the payload fits".           *)
(***************************************************************************)
EXTENDS Integers, Sequences

CONSTANTS
    Trace,       \* traces; one is written as a whole or not at all
    Size,        \* Size[t]: the serialized size of t
    HeaderSize,  \* room kept in front of the payload for the array header
    MaxSize      \* _maxBufferSize

(* The constructor refuses a maxBufferSize below HeaderSize.               *)
ASSUME SizeAssumption ==
    /\ Size \in [Trace -> Nat]
    /\ HeaderSize \in Nat
    /\ MaxSize \in Nat
    /\ HeaderSize <= MaxSize

(* traces stands for the bytes behind the header, one entry per copied     *)
(* trace, and its length is TraceCount.                                    *)
SpanBufferType ==
    [traces : Seq(Trace), offset : HeaderSize..MaxSize,
     full : BOOLEAN, locked : BOOLEAN]

EmptyBuffer ==
    [traces |-> <<>>, offset |-> HeaderSize, full |-> FALSE, locked |-> FALSE]

TraceCount(buffer) == Len(buffer.traces)

(* Variant: EnsureCapacity(size).                                          *)
HasRoomForSize(buffer, size) == size <= MaxSize

(* EnsureCapacity(size + _offset)                                          *)
HasRoom(buffer, size) == buffer.offset + size <= MaxSize

(* TryWrite after a successful EnsureCapacity: copy size bytes, which hold *)
(* whatever the temporary buffer holds now.                                *)
WithContent(buffer, content, size) ==
    [buffer EXCEPT !.traces = Append(@, content), !.offset = @ + size]

(* Variant: IsFull is not set.                                             *)
NotMarked(buffer) == buffer

(* TryWrite after a failed EnsureCapacity.                                 *)
MarkFull(buffer) == [buffer EXCEPT !.full = TRUE]

(* Lock, when it returns true.                                             *)
Locked(buffer) == [buffer EXCEPT !.locked = TRUE]

(* Variant: Clear leaves IsFull alone.                                     *)
ClearedStillFull(buffer) ==
    [buffer EXCEPT !.traces = <<>>, !.offset = HeaderSize, !.locked = FALSE]

(* Clear: empties, marks not full and unlocks.                             *)
Cleared(buffer) ==
    [buffer EXCEPT !.traces = <<>>, !.offset = HeaderSize,
                   !.full = FALSE, !.locked = FALSE]
=============================================================================
