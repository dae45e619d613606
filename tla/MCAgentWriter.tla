---------------------------- MODULE MCAgentWriter ---------------------------
(***************************************************************************)
(* Values for the model checking of AgentWriter.  Every trace takes one    *)
(* unit of a buffer, except big, which fits in no buffer.  With HeaderSize *)
(* one, a buffer takes MaxSize - 1 traces.                                 *)
(***************************************************************************)
EXTENDS AgentWriterInvariants, TLC

CONSTANT big

MCSize == [t \in Trace |-> IF t = big THEN MaxSize ELSE 1]

(* Threads are interchangeable, and so are traces of the same size.        *)
Symmetry ==
    Permutations(Producer) \cup Permutations(Caller)
        \cup Permutations(Trace \ ({big} \cup Unserializable))

(* Liveness: a FlushTracesAsync call or a close, but not both, since a call *)
(* may hang beside a close (the run flush_hangs).                           *)
NextApart == Next /\ (processExit' => \A c \in Caller : call'[c].pc = "idle")

FairSpecApart == Init /\ [][NextApart]_vars /\ Fairness
=============================================================================
