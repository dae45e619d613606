---------------------------- MODULE TraceDelivery ---------------------------
(***************************************************************************)
(* What the agent writer promises about a trace, without queue, buffers or *)
(* threads: an accepted trace is buffered or given up, buffered traces     *)
(* leave in batches, at most two batches travel at a time, a batch lands   *)
(* as a whole, and what became of a trace never changes.  In particular no *)
(* trace travels twice.                                                    *)
(***************************************************************************)
EXTENDS Integers, FiniteSets

CONSTANT Trace

VARIABLES
    status,   \* status[t]: where trace t is
    batches   \* the sets of traces travelling to the agent

Status == {"new", "accepted", "buffered", "travelling",
           "sent", "rejected", "dropped", "thrown"}

Init ==
    /\ status = [t \in Trace |-> "new"]
    /\ batches = {}

Accept(t) ==
    /\ status[t] = "new"
    /\ status' = [status EXCEPT ![t] = "accepted"]
    /\ UNCHANGED batches

Store(t) ==
    /\ status[t] = "accepted"
    /\ status' = [status EXCEPT ![t] = "buffered"]
    /\ UNCHANGED batches

GiveUp(t, why) ==
    /\ status[t] = "accepted"
    /\ status' = [status EXCEPT ![t] = why]
    /\ UNCHANGED batches

Move(batch, to) ==
    status' = [t \in Trace |-> IF t \in batch THEN to ELSE status[t]]

Dispatch(batch) ==
    /\ batch # {} /\ Cardinality(batches) < 2
    /\ \A t \in batch : status[t] = "buffered"
    /\ Move(batch, "travelling")
    /\ batches' = batches \cup {batch}

Land(batch, result) ==
    /\ Move(batch, result)
    /\ batches' = batches \ {batch}

Next ==
    \/ \E t \in Trace : Accept(t) \/ Store(t)
    \/ \E t \in Trace, why \in {"dropped", "thrown"} : GiveUp(t, why)
    \/ \E batch \in SUBSET Trace : Dispatch(batch)
    \/ \E batch \in batches, result \in {"sent", "rejected"} : Land(batch, result)

Spec == Init /\ [][Next]_<<status, batches>>
=============================================================================
