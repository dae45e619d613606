-------------------------- MODULE MCRewrittenMethod --------------------------
(***************************************************************************)
(* Values for the model checking of one instrumented method.               *)
(***************************************************************************)
EXTENDS RewrittenMethod, MethodBodies
=============================================================================
