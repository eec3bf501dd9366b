--------------------------- MODULE MCFarmerLedger ---------------------------
(***************************************************************************)
(* FarmerLedger for TLC.  Two workloads: jobs j1 and j2, which submit the  *)
(* same operation with one branch each (b1, b2), or job j3 alone with a    *)
(* branch b3 and another one, b4, to fall back on.                         *)
(***************************************************************************)
EXTENDS LedgerLifecycle, TLC

CONSTANTS j1, j2, j3, b1, b2, b3, b4, op1, op2, scope1,
    Workloads   \* the sets of jobs that are submitted together

VARIABLE workload   \* the jobs of this behaviour

mcJobOf == [b \in Branches |-> IF b = b1 THEN j1 ELSE IF b = b2 THEN j2 ELSE j3]
mcOpOf == [b \in Branches |-> IF b = b4 THEN op2 ELSE op1]
mcScopeOf == [b \in Branches |-> IF b = b4 THEN NULL ELSE scope1]
mcMaxAttempts == [b \in Branches |-> IF b \in {b1, b3} THEN 2 ELSE 1]
mcScore == [b \in Branches |-> IF b = b4 THEN 5 ELSE 9]
mcPriority == [j \in Jobs |-> 50]
mcDedupeKey == [j \in Jobs |-> NULL]

\* Owners are compared for equality only.
OwnerSymmetry == Permutations(Owners)

Submitted(j) == job'[j].state # "ABSENT"

WorkloadInit == LedgerInit /\ workload \in Workloads

WorkloadSpec ==
    /\ WorkloadInit
    /\ [][/\ LedgerNext
          /\ \A j \in Jobs \ workload : ~Submitted(j)
          /\ UNCHANGED workload]_<<ledgerVars, workload>>
=============================================================================
