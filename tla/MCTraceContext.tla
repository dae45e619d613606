--------------------------- MODULE MCTraceContext ---------------------------
(***************************************************************************)
(* Values for the model checking of TraceContext.                          *)
(***************************************************************************)
EXTENDS TraceContext, TLC

Symmetry == Permutations(Thread) \cup Permutations(Span) \cup Permutations(Priority)
=============================================================================
