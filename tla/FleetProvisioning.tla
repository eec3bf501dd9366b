-------------------------- MODULE FleetProvisioning --------------------------
(***************************************************************************)
(* The fleet of the controller: machines, their import from the registry   *)
(* of remote targets, and the provisioning runs that lead a machine from   *)
(* detected to ready.  FleetService holds its lock for one database access *)
(* at a time: what a request read is used in a later transaction, with     *)
(* other requests in between.  Rows are never deleted.                     *)
(***************************************************************************)
EXTENDS Naturals, Sequences

CONSTANTS
  FleetThreads,   \* threads that serve requests
  Names,          \* machine names, unique
  TargetList,     \* the registry's targets, in its order
  TargetName,     \* [Targets -> Names]: the name a target is imported under
  TargetKind,     \* [Targets -> MachineKinds]: what kind of machine it is
  MachineKinds,
  StepCount,      \* steps of a provisioning run
  AutomaticSteps, \* completed by the start itself
  LinkStep,       \* as well, where the machine has a remote target
  MaxStarts       \* bound of the exploration: runs

Targets == {TargetList[i] : i \in DOMAIN TargetList}
ProvisioningSteps == 1..StepCount
RunIds == 1..MaxStarts

ASSUME FleetAssumption ==
  /\ StepCount \in Nat /\ MaxStarts \in Nat
  /\ TargetList \in Seq(Targets)
  /\ AutomaticSteps \subseteq ProvisioningSteps /\ LinkStep \in ProvisioningSteps
  /\ StepCount \notin AutomaticSteps \union {LinkStep}
  /\ TargetName \in [Targets -> Names] /\ TargetKind \in [Targets -> MachineKinds]

VARIABLES
  machine,     \* fleet_machines, by name
  run,         \* provisioning_runs with their steps; a larger id was created later
  startedRuns,     \* how many ids were given
  fleetThread, \* per thread: where it is and what it has read
  imported     \* history: whether an import of the whole registry has succeeded
fleetVars == <<machine, run, startedRuns, fleetThread, imported>>

Absent == [status |-> "absent"]
IdleThread == [at |-> "idle"]
Machines == {n \in Names : machine[n] # Absent}
Runs == {x \in RunIds : run[x] # Absent}
LinkedTo(t) == {n \in Machines : machine[n].targets = {t}}

FleetInit ==
  /\ machine = [n \in Names |-> Absent] /\ run = [x \in RunIds |-> Absent]
  /\ startedRuns = 0 /\ imported = FALSE
  /\ fleetThread = [t \in FleetThreads |-> IdleThread]

Goes(t, from, to) ==
  /\ fleetThread[t].at = from
  /\ fleetThread' = [fleetThread EXCEPT ![t] = to]

(* The INSERT of create; name and target are UNIQUE.                       *)
Free(n, targets) == machine[n] = Absent /\ \A x \in targets : LinkedTo(x) = {}
Inserted(n, kind, targets) ==
  [machine EXCEPT ![n] = [status |-> "detected", kind |-> kind, targets |-> targets]]

(* POST /fleet/machines, with or without a target.                         *)
Register(t, n, kind, targets) ==
  /\ fleetThread[t] = IdleThread /\ Free(n, targets)
  /\ machine' = Inserted(n, kind, targets)
  /\ UNCHANGED <<run, startedRuns, fleetThread, imported>>

-----------------------------------------------------------------------------
(* import_remote_targets: target by target, a lookup and then an INSERT or *)
(* an UPDATE.  A name that is taken ends it, and later targets stay out.   *)
ImportTakes(i) ==
  IF i \in DOMAIN TargetList THEN [at |-> "lookup", i |-> i] ELSE IdleThread

ImportBegins(t) ==
  /\ Goes(t, "idle", ImportTakes(1))
  /\ UNCHANGED <<machine, run, startedRuns, imported>>

(* The import goes on after its i-th target.                               *)
Advances(t, from, i) ==
  /\ Goes(t, from, ImportTakes(i + 1))
  /\ imported' = (imported \/ i = Len(TargetList))

ImportLooksUp(t) ==
  /\ fleetThread[t].at = "lookup"
  /\ LET i == fleetThread[t].i
         found == LinkedTo(TargetList[i])
     IN \/ /\ \E n \in found : machine[n].kind = TargetKind[TargetList[i]]
           /\ Advances(t, "lookup", i)
        \/ /\ \E n \in found :
                /\ machine[n].kind # TargetKind[TargetList[i]]
                /\ Goes(t, "lookup", [at |-> "sync", i |-> i, name |-> n])
           /\ UNCHANGED imported
        \/ /\ found = {}
           /\ Goes(t, "lookup", [at |-> "create", i |-> i])
           /\ UNCHANGED imported
  /\ UNCHANGED <<machine, run, startedRuns>>

(* _sync_imported_target: kind, and with it the identity's prefix.         *)
ImportSyncs(t) ==
  /\ fleetThread[t].at = "sync"
  /\ LET i == fleetThread[t].i IN
       /\ machine' = [machine EXCEPT ![fleetThread[t].name].kind = TargetKind[TargetList[i]]]
       /\ Advances(t, "sync", i)
  /\ UNCHANGED <<run, startedRuns>>

ImportCreates(t) ==
  /\ fleetThread[t].at = "create"
  /\ LET i == fleetThread[t].i
         x == TargetList[i]
     IN IF Free(TargetName[x], {x})
        THEN /\ machine' = Inserted(TargetName[x], TargetKind[x], {x})
             /\ Advances(t, "create", i)
        ELSE Goes(t, "create", IdleThread) /\ UNCHANGED <<machine, imported>>
  /\ UNCHANGED <<run, startedRuns>>

-----------------------------------------------------------------------------
(* start_provisioning: the machine and the id of its newest run.           *)
Newest(n) ==
  LET own == {x \in Runs : run[x].machine = n}
  IN {x \in own : \A y \in own : y <= x}

StartReadsNewest(t, n) ==
  /\ n \in Machines
  /\ Goes(t, "idle", [at |-> "newest", name |-> n, newest |-> Newest(n)])
  /\ UNCHANGED <<machine, run, startedRuns, imported>>

(* get_run: a run in progress is the answer, otherwise a new one is dated. *)
StartAnswers(t) ==
  /\ fleetThread[t].at = "newest"
  /\ \E x \in fleetThread[t].newest : run[x].status = "in_progress"
  /\ Goes(t, "newest", IdleThread)
  /\ UNCHANGED <<machine, run, startedRuns, imported>>

StartDecides(t) ==
  /\ fleetThread[t].at = "newest" /\ startedRuns < MaxStarts
  /\ \A x \in fleetThread[t].newest : run[x].status = "completed"
  /\ startedRuns' = startedRuns + 1
  /\ Goes(t, "newest", [at |-> "insert", name |-> fleetThread[t].name, id |-> startedRuns'])
  /\ UNCHANGED <<machine, run, imported>>

AutomaticFor(n) == AutomaticSteps \union (IF machine[n].targets = {} THEN {} ELSE {LinkStep})

StartInserts(t) ==
  /\ Goes(t, "insert", IdleThread)
  /\ LET n == fleetThread[t].name IN
       /\ run' = [run EXCEPT ![fleetThread[t].id] =
                    [status |-> "in_progress", machine |-> n,
                     pending |-> ProvisioningSteps \ AutomaticFor(n)]]
       /\ machine' = [machine EXCEPT ![n].status = "provisioning"]
  /\ UNCHANGED <<startedRuns, imported>>

CurrentStep(x) == CHOOSE s \in run[x].pending : \A u \in run[x].pending : s <= u

(* Mutation: the step is not compared with the current one.                *)
CompleteReadsAny(t, x, s) ==
  /\ x \in Runs /\ run[x].status = "in_progress" /\ s \in run[x].pending
  /\ Goes(t, "idle", [at |-> "complete", id |-> x, step |-> s])
  /\ UNCHANGED <<machine, run, startedRuns, imported>>

(* complete_step: only the first pending step is accepted ...              *)
CompleteReads(t, x, s) ==
  /\ x \in Runs /\ run[x].status = "in_progress" /\ s = CurrentStep(x)
  /\ Goes(t, "idle", [at |-> "complete", id |-> x, step |-> s])
  /\ UNCHANGED <<machine, run, startedRuns, imported>>

(* ... and completed in a transaction of its own, which counts what is     *)
(* still pending; another request may have completed the step meanwhile.   *)
CompleteWrites(t) ==
  /\ Goes(t, "complete", IdleThread)
  /\ LET x == fleetThread[t].id
         left == run[x].pending \ {fleetThread[t].step}
     IN /\ run' = [run EXCEPT ![x].pending = left,
                              ![x].status = IF left = {} THEN "completed" ELSE @]
        /\ machine' = [machine EXCEPT ![run[x].machine].status =
                         IF left = {} THEN "ready" ELSE @]
  /\ UNCHANGED <<startedRuns, imported>>

-----------------------------------------------------------------------------
FleetNext ==
  \E t \in FleetThreads :
    \/ \E n \in Names, kind \in MachineKinds, targets \in {{}} \union {{x} : x \in Targets} :
         Register(t, n, kind, targets)
    \/ ImportBegins(t) \/ ImportLooksUp(t) \/ ImportSyncs(t) \/ ImportCreates(t)
    \/ \E n \in Names : StartReadsNewest(t, n)
    \/ StartAnswers(t) \/ StartDecides(t) \/ StartInserts(t)
    \/ \E x \in RunIds, s \in ProvisioningSteps : CompleteReads(t, x, s)
    \/ CompleteWrites(t)

FleetSpec == FleetInit /\ [][FleetNext]_fleetVars

-----------------------------------------------------------------------------
FleetTypeOK ==
  /\ \A n \in Machines :
       /\ machine[n].status \in {"detected", "provisioning", "ready"}
       /\ machine[n].kind \in MachineKinds /\ machine[n].targets \subseteq Targets
  /\ \A x \in Runs :
       /\ run[x].status \in {"in_progress", "completed"} /\ run[x].machine \in Machines
       /\ run[x].pending \subseteq ProvisioningSteps
  /\ startedRuns \in 0..MaxStarts /\ imported \in BOOLEAN

(* However completions overlap, the operator's steps of a run are done in  *)
(* their order, and the run is completed exactly when none is left.        *)
StepsInOrder ==
  \A x \in Runs :
    /\ run[x].status = "completed" <=> run[x].pending = {}
    /\ \A s \in ProvisioningSteps \ (run[x].pending \union AutomaticFor(run[x].machine)) :
         \A u \in run[x].pending : s < u

(* The status of a machine has a run behind it: one in progress while it   *)
(* is provisioned, a completed one when it is ready, none before.          *)
StatusBacked ==
  \A n \in Machines :
    LET statuses == {run[x].status : x \in {y \in Runs : run[y].machine = n}}
    IN CASE machine[n].status = "detected"     -> statuses = {}
         [] machine[n].status = "provisioning" -> "in_progress" \in statuses
         [] machine[n].status = "ready"        -> "completed" \in statuses

(* Two imports and registrations never give a target two machines, and     *)
(* once an import has succeeded every target has one, of its kind.         *)
TargetsInFleet ==
  \A x \in Targets :
    /\ \A m, n \in LinkedTo(x) : m = n
    /\ imported => \E n \in LinkedTo(x) : machine[n].kind = TargetKind[x]

FleetHolds == FleetTypeOK /\ StepsInOrder /\ StatusBacked /\ TargetsInFleet
=============================================================================
