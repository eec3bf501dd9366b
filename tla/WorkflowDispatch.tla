-------------------------- MODULE WorkflowDispatch --------------------------
(***************************************************************************)
(* The GitHub workflow executor of the Farmer: an attempt dispatches a     *)
(* workflow unless an earlier attempt of the job left evidence that it     *)
(* did, then looks for the run.  GitHub answers a dispatch without naming  *)
(* the run, so the attempt adopts the first run of that workflow that is   *)
(* young enough.  The evidence is stored by the ledger when the attempt    *)
(* ends; an attempt that dies, or whose observation fails, stores none.    *)
(***************************************************************************)
EXTENDS Naturals, FiniteSets, Sequences

CONSTANTS
  Jobs,         \* jobs with the same repository, workflow and ref
  Slack,        \* 5 seconds, in ticks: how much older than its dispatch a run may be
  MaxClock, MaxRuns  \* bounds of the exploration

ASSUME DispatchAssumption ==
  /\ "somebody" \notin Jobs   \* who dispatches by hand
  /\ Slack \in Nat /\ MaxRuns \in Nat /\ MaxClock \in Nat \ {0}

VARIABLES
  clock,
  runs,       \* GitHub: the runs, with the job whose dispatch created each
  attempt,    \* where the attempt of each job is
  dispatched, \* dispatched_at of the attempt, 0 for none
  evidence,   \* the dispatched_at the ledger has for the job, 0 for none
  outcome,    \* the run that settled the job, 0 for none
  losses      \* dispatches whose evidence was not stored

dispatchVars == <<clock, runs, attempt, dispatched, evidence, outcome, losses>>

Statuses == {"pending", "success", "failure"}

DispatchInit ==
  /\ clock = 1 /\ runs = <<>>
  /\ attempt = [j \in Jobs |-> "none"]
  /\ dispatched = [j \in Jobs |-> 0] /\ evidence = [j \in Jobs |-> 0]
  /\ outcome = [j \in Jobs |-> 0] /\ losses = [j \in Jobs |-> 0]

(* GitHub creates a run; "somebody" stands for a dispatch by hand.         *)
Creates(j) == runs' = Append(runs, [job |-> j, created |-> clock, status |-> "pending"])
MayCreate == Len(runs) < MaxRuns

(* No evidence of the job counts.                                          *)
PriorNever(j) == 0

(* _prior_dispatch.                                                        *)
Prior(j) == evidence[j]

(* The attempt leaves the executor; what it dispatched is stored, or lost  *)
(* when it was not known to the ledger before.                             *)
Leaves(j, stored) ==
  /\ attempt' = [attempt EXCEPT ![j] = "none"]
  /\ dispatched' = [dispatched EXCEPT ![j] = 0]
  /\ evidence' = [evidence EXCEPT ![j] = IF stored THEN dispatched[j] ELSE @]
  /\ losses' = [losses EXCEPT ![j] =
                  IF stored \/ dispatched[j] \in {0, evidence[j]} THEN @ ELSE @ + 1]

Starts(j) ==
  /\ attempt[j] = "none" /\ outcome[j] = 0
  /\ dispatched' = [dispatched EXCEPT ![j] = Prior(j)]
  /\ attempt' = [attempt EXCEPT ![j] = IF Prior(j) = 0 THEN "dispatch" ELSE "observe"]
  /\ UNCHANGED <<clock, runs, evidence, outcome, losses>>

Dispatches(j) ==
  /\ attempt[j] = "dispatch" /\ MayCreate
  /\ Creates(j)
  /\ dispatched' = [dispatched EXCEPT ![j] = clock]
  /\ attempt' = [attempt EXCEPT ![j] = "observe"]
  /\ UNCHANGED <<clock, evidence, outcome, losses>>

(* gh fails, which is retryable; timed out, it may have dispatched.        *)
DispatchFails(j) ==
  /\ attempt[j] = "dispatch"
  /\ attempt' = [attempt EXCEPT ![j] = "none"]
  /\ \/ UNCHANGED <<runs, losses>>
     \/ /\ MayCreate /\ Creates(j)
        /\ losses' = [losses EXCEPT ![j] = @ + 1]
  /\ UNCHANGED <<clock, dispatched, evidence, outcome>>

YoungEnough(j) == {i \in DOMAIN runs : runs[i].created + Slack >= dispatched[j]}

(* The first run of the candidates, in order of creation.                  *)
Selected(j) == CHOOSE i \in YoungEnough(j) : \A k \in YoungEnough(j) : i <= k

(* The selected run is complete: the attempt ends with its conclusion.  A  *)
(* failed one may be retried, and is found again by the next attempt.      *)
ReadsBack(j) ==
  /\ attempt[j] = "observe"
  /\ YoungEnough(j) # {}
  /\ runs[Selected(j)].status # "pending"
  /\ outcome' = [outcome EXCEPT ![j] =
                   IF runs[Selected(j)].status = "success" THEN Selected(j) ELSE @]
  /\ Leaves(j, TRUE)
  /\ UNCHANGED <<clock, runs>>

(* observe_seconds are over: the attempt ends as waiting.                  *)
KeepsWaiting(j) ==
  /\ attempt[j] = "observe"
  /\ Leaves(j, TRUE)
  /\ UNCHANGED <<clock, runs, outcome>>

(* gh run list fails or times out, which drops the evidence of this        *)
(* attempt's dispatch; a process that dies drops it as well.               *)
ObservationFails(j) ==
  /\ attempt[j] = "observe"
  /\ Leaves(j, FALSE)
  /\ UNCHANGED <<clock, runs, outcome>>

(* External: time, other people's dispatches, and the runs themselves.     *)
Ticks ==
  /\ clock < MaxClock /\ clock' = clock + 1
  /\ UNCHANGED <<runs, attempt, dispatched, evidence, outcome, losses>>

SomebodyDispatches ==
  /\ MayCreate /\ Creates("somebody")
  /\ UNCHANGED <<clock, attempt, dispatched, evidence, outcome, losses>>

RunCompletes(i, status) ==
  /\ runs[i].status = "pending"
  /\ runs' = [runs EXCEPT ![i].status = status]
  /\ UNCHANGED <<clock, attempt, dispatched, evidence, outcome, losses>>

DispatchNext ==
  \/ \E j \in Jobs :
       \/ Starts(j) \/ Dispatches(j) \/ DispatchFails(j)
       \/ ReadsBack(j) \/ KeepsWaiting(j) \/ ObservationFails(j)
  \/ Ticks \/ SomebodyDispatches
  \/ \E i \in DOMAIN runs, status \in {"success", "failure"} : RunCompletes(i, status)

DispatchSpec == DispatchInit /\ [][DispatchNext]_dispatchVars

-----------------------------------------------------------------------------
Own(j) == {i \in DOMAIN runs : runs[i].job = j}

DispatchTypeOK ==
  /\ clock \in 1..MaxClock
  /\ \A i \in DOMAIN runs : runs[i].status \in Statuses /\ runs[i].created <= clock
  /\ attempt \in [Jobs -> {"none", "dispatch", "observe"}]
  /\ dispatched \in [Jobs -> 0..MaxClock] /\ evidence \in [Jobs -> 0..MaxClock]
  /\ outcome \in [Jobs -> 0..MaxRuns] /\ losses \in [Jobs -> Nat]

(* Retries, waits and failed runs dispatch nothing again: each further run *)
(* of a job was paid for by a dispatch whose evidence got lost.            *)
RedispatchNeedsLoss == \A j \in Jobs : Cardinality(Own(j)) <= 1 + losses[j]

(* A job settled by a run of somebody else had a run of its own, which was *)
(* not the first of the young ones: nothing settles a job that dispatched  *)
(* nothing.                                                                *)
SettledJobDispatched == \A j \in Jobs : outcome[j] # 0 => Own(j) # {}

DispatchHolds == DispatchTypeOK /\ RedispatchNeedsLoss /\ SettledJobDispatched
=============================================================================
