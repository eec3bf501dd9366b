------------------------------- MODULE MCGerm -------------------------------
(***************************************************************************)
(* GermGuardian for TLC: two runtimes to grow, and two signed requests,    *)
(* one for a pinned runtime and one for the LKG; the console gives every   *)
(* command.                                                                *)
(***************************************************************************)
EXTENDS GermGuardian

CONSTANTS r1, r2, g1, g2

mcTarget ==
    [r \in Requests |-> IF r = r1 THEN "specific" ELSE "last-known-good"]
mcPin == [r \in Requests |-> g1]

FairGerm == GermSpec /\ GermFairness
=============================================================================
