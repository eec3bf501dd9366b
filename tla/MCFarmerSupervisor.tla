------------------------- MODULE MCFarmerSupervisor -------------------------
(***************************************************************************)
(* FarmerSupervisor for TLC.  Branches b1 and b2 belong to job j1, b3 to   *)
(* j2; b3 repeats the operation of b1.                                     *)
(***************************************************************************)
EXTENDS FarmerSupervisor

CONSTANTS j1, j2, b1, b2, b3, op1, op2, scope1

mcJobOf == [b \in Branches |-> IF b = b3 THEN j2 ELSE j1]
mcOpOf == [b \in Branches |-> IF b = b2 THEN op2 ELSE op1]
mcScopeOf == [b \in Branches |-> IF b = b2 THEN NULL ELSE scope1]
mcMaxAttempts == [b \in Branches |-> IF b = b1 THEN 2 ELSE 1]
mcScore == [b \in Branches |-> IF b = b2 THEN 5 ELSE 9]
mcPriority == [j \in Jobs |-> 50]
mcDedupeKey == [j \in Jobs |-> NULL]
=============================================================================
