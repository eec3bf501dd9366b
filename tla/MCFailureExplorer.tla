-------------------------- MODULE MCFailureExplorer --------------------------
(***************************************************************************)
(* FailureExplorer for TLC: two supervisors.                               *)
(***************************************************************************)
EXTENDS FailureExplorer
==============================================================================
