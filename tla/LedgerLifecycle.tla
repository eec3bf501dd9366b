-------------------------- MODULE LedgerLifecycle --------------------------
(***************************************************************************)
(* The tables of FarmerLedger implement JobLifecycle.  RETRYING, WAITING   *)
(* and RECOVERING are one state to the client: queued.                     *)
(***************************************************************************)
EXTENDS FarmerLedger

\* The status a client sees in the row of a job.
ClientStatus(state) ==
    CASE state = "ABSENT" -> "none"
      [] state = "RUNNING" -> "running"
      [] state = "BLOCKED_HUMAN" -> "blocked"
      [] state = "SUCCEEDED" -> "succeeded"
      [] state = "FAILED_FINAL" -> "failed"
      [] OTHER -> "queued"

Lifecycle == INSTANCE JobLifecycle WITH
    Budget <- [j \in Jobs |->
                 Cardinality({a \in AttemptsOf(j) : a[2] <= MaxAttempts[a[1]]})],
    status <- [j \in Jobs |-> ClientStatus(job[j].state)],
    spent  <- [j \in Jobs |->
                 Cardinality({a \in AttemptsOf(j) : attempt[a].state # "ABSENT"})]

\* Claims, split heartbeats, late finishes, recovery and resumes together look
\* to every client like the life of a job: it ends once, only out of a run, and
\* each run spends one attempt of the budget.
ImplementsLifecycle == Lifecycle!LifecycleSpec
=============================================================================
