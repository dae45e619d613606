---------------------------- MODULE MCCallTarget ----------------------------
(***************************************************************************)
(* Values for the model checking of CallTarget.                            *)
(***************************************************************************)
EXTENDS CallTargetProperties, TLC

MCScope == Call \cup Block

Symmetry == Permutations(Flow) \cup Permutations(Call)
=============================================================================
