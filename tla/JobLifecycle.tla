---------------------------- MODULE JobLifecycle ----------------------------
(***************************************************************************)
(* What Aurum Farmer promises the client of a job (aurum_farmer/models.py, *)
(* JobState, and README.md): a submitted job is worked on by one runner at *)
(* a time, each run spends one attempt of a budget fixed at submission,    *)
(* and the job ends once, from a run, as succeeded or failed.  Between     *)
(* runs it is queued or blocked on a human.                                *)
(*                                                                         *)
(* One transaction of the ledger may move several jobs: claiming one job   *)
(* sets others aside, and recovery takes every job whose lease ran out.    *)
(* It never starts two jobs, and never ends one and starts another.        *)
(***************************************************************************)
EXTENDS Naturals

CONSTANTS
    Jobs,       \* job ids
    Budget      \* the attempts all branches of a job have together

VARIABLES
    status,     \* of each job
    spent       \* attempts started for each job

lifecycleVars == <<status, spent>>

Status == {"none", "queued", "running", "blocked", "succeeded", "failed"}

LifecycleInit ==
    /\ status = [j \in Jobs |-> "none"]
    /\ spent = [j \in Jobs |-> 0]

\* How a job may move without an attempt being started.
Moves ==
    {<<"none", "queued">>, <<"queued", "blocked">>, <<"blocked", "queued">>,
     <<"running", "queued">>, <<"running", "blocked">>,
     <<"running", "succeeded">>, <<"running", "failed">>}

Moved(j) == status'[j] = status[j] \/ <<status[j], status'[j]>> \in Moves

Started(j) ==
    /\ status[j] = "queued" /\ status'[j] = "running"
    /\ spent[j] < Budget[j]
    /\ spent' = [spent EXCEPT ![j] = spent[j] + 1]

\* One job starts; the others can only be set aside or be queued again.
Start ==
    /\ status' \in [Jobs -> Status]
    /\ \E j \in Jobs :
          /\ Started(j)
          /\ \A k \in Jobs \ {j} :
                Moved(k) /\ (status[k] = "running") = (status'[k] = "running")

\* Jobs are submitted, set aside, resumed or come out of a run; at most one of
\* them succeeds.
Advance ==
    /\ status' \in [Jobs -> Status]
    /\ \A j \in Jobs : Moved(j)
    /\ \A j, k \in Jobs :
          j # k /\ status[j] # "succeeded" /\ status'[j] = "succeeded" =>
             status'[k] = status[k]
    /\ UNCHANGED spent

LifecycleNext == Start \/ Advance

LifecycleSpec == LifecycleInit /\ [][LifecycleNext]_lifecycleVars
=============================================================================
