-------------------------------- MODULE MCLab --------------------------------
(***************************************************************************)
(* OvernightLab for TLC.                                                   *)
(***************************************************************************)
EXTENDS OvernightLab
==============================================================================
