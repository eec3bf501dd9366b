---------------------------- MODULE OvernightLab ----------------------------
(***************************************************************************)
(* The overnight laboratory of the Pi 3 (Pi3OvernightLab): its stages      *)
(* change something of the running kernel, measure, and change it back.    *)
(* Before each change a systemd timer is armed that undoes it when the     *)
(* laboratory dies.  A command may be refused, may time out (an exception, *)
(* with or without its effect), and the process may be killed anywhere;    *)
(* MaxFaults bounds how often.                                             *)
(*                                                                         *)
(* What is changed is abstracted to a resource that has its original value *)
(* or another one: the two dirty-page sysctls, the dummy module, the probe *)
(* module, and one offload feature of the Ethernet driver.                 *)
(***************************************************************************)
EXTENDS Naturals, FiniteSets

CONSTANTS
  Trials,        \* the candidates of the userspace stage: 1..Trials, 3 in the code
  MaxLabFaults   \* bound of the exploration

ASSUME LabAssumption == Trials \in Nat \ {0} /\ MaxLabFaults \in Nat

VARIABLES
  stage,     \* the risk level the clock has reached, 1..6
  results,   \* self.stages; "held" and "passed" are both "ended"
  ceiling,   \* --risk-ceiling with --allow-mutation, 1 without it
  pc,        \* where the process is
  trial,     \* the candidate of the userspace stage
  original,  \* the value the stage read before its change
  believed,  \* loaded: the stage believes that it changed something
  doubt,     \* an exception, or a gate that failed, in this stage
  value,     \* kernel: the value of each resource
  timers,    \* systemd: for each armed unit, the value it will restore
  excused,   \* resources with a refused restore, or a module load cut off
  labFaults

labVars == <<stage, results, ceiling, pc, trial, original, believed, doubt, value,
             timers, excused, labFaults>>
kernel == <<value, timers, excused>>

Resources == {"sysctl", "dummy", "probe", "feature"}
Modules == {"dummy", "probe"}
Values == {"original", "changed"}

(* RISK_LEVELS; the first one changes nothing.                             *)
Touches == <<"nothing", "sysctl", "dummy", "probe", "feature", "sysctl">>
Userspace == 2
Policy == 6
resource == Touches[stage]
unit == <<stage, trial>>
Units == (2..6) \X (1..Trials)

LabInit ==
  /\ stage = 1 /\ trial = 1 /\ ceiling \in 1..6
  /\ results = [s \in 1..6 |-> "none"]
  /\ pc = "idle" /\ original = "original" /\ believed = FALSE /\ doubt = FALSE
  /\ value = [r \in Resources |-> "original"]
  /\ timers = [u \in Units |-> "none"]
  /\ excused = {} /\ labFaults = 0

Goto(from, to) == pc = from /\ pc' = to
LabFault == labFaults < MaxLabFaults /\ labFaults' = labFaults + 1

(* The end of a stage; a quarantined one ends the laboratory.              *)
Ends(result) ==
  /\ results' = [results EXCEPT ![stage] = result]
  /\ pc' = IF result = "quarantined" THEN "done" ELSE "idle"
  /\ doubt' = FALSE /\ believed' = FALSE

-----------------------------------------------------------------------------
(* run: the clock only moves forward, and may skip a stage that was too    *)
(* short.  Each stage runs once.                                           *)
ReachesStage ==
  /\ pc = "idle" /\ stage < 6
  /\ stage' \in (stage + 1)..6
  /\ UNCHANGED <<results, ceiling, pc, trial, original, believed, doubt, kernel,
                 labFaults>>

(* The time is over, a signal came, or a sample was unsafe.                *)
LabStops ==
  /\ Goto("idle", "done")
  /\ UNCHANGED <<stage, results, ceiling, trial, original, believed, doubt, kernel,
                 labFaults>>

(* A stage above the ceiling, one that changes nothing, or one whose tools *)
(* or evidence are missing.                                                *)
StageHeld ==
  /\ pc = "idle" /\ results[stage] = "none"
  /\ Ends("ended")
  /\ UNCHANGED <<stage, ceiling, trial, original, kernel, labFaults>>

(* A stage reads what it will restore; a dummy module that is there        *)
(* already holds its stage.                                                *)
StageBegins ==
  /\ results[stage] = "none" /\ stage \in 2..ceiling
  /\ stage = 3 => value["dummy"] = "original"
  /\ Goto("idle", "arm")
  /\ original' = IF resource \in Modules THEN "original" ELSE value[resource]
  /\ trial' = 1
  /\ UNCHANGED <<stage, results, ceiling, believed, doubt, kernel, labFaults>>

ArmsNothing ==
  /\ Goto("arm", "change")
  /\ UNCHANGED <<stage, results, ceiling, trial, original, believed, doubt, kernel,
                 labFaults>>

(* timed_rollback.                                                         *)
Arms ==
  /\ Goto("arm", "change")
  /\ timers' = [timers EXCEPT ![unit] = original]
  /\ UNCHANGED <<stage, results, ceiling, trial, original, believed, doubt, value,
                 excused, labFaults>>

(* systemd-run refuses: held; the policy stage is quarantined, after a     *)
(* restore it need not have done.  Timed out, it may have armed the timer. *)
ArmFails ==
  /\ pc = "arm" /\ LabFault
  /\ \/ Ends(IF stage = Policy THEN "quarantined" ELSE "ended") /\ UNCHANGED timers
     \/ /\ Ends("quarantined")
        /\ timers' \in {timers, [timers EXCEPT ![unit] = original]}
  /\ UNCHANGED <<stage, ceiling, trial, original, value, excused>>

Changes ==
  /\ Goto("change", "measure")
  /\ value' = [value EXCEPT ![resource] = "changed"]
  /\ believed' = TRUE
  /\ UNCHANGED <<stage, results, ceiling, trial, original, doubt, timers, excused,
                 labFaults>>

(* Refused: the finally clause runs all the same.                          *)
ChangeRefused ==
  /\ Goto("change", "restore") /\ LabFault
  /\ doubt' = (stage = Policy)
  /\ UNCHANGED <<stage, results, ceiling, trial, original, believed, kernel>>

(* Timed out: the effect may be there, and "believed" does not say so.     *)
ChangeTimesOut ==
  /\ Goto("change", "restore") /\ LabFault
  /\ value' \in {value, [value EXCEPT ![resource] = "changed"]}
  /\ doubt' = TRUE
  /\ excused' = IF resource \in Modules THEN excused \cup {resource} ELSE excused
  /\ UNCHANGED <<stage, results, ceiling, trial, original, believed, timers>>

(* The benchmark, or the dwell of the policy; either may fail.             *)
Measures ==
  /\ Goto("measure", "restore")
  /\ doubt' \in BOOLEAN
  /\ UNCHANGED <<stage, results, ceiling, trial, original, believed, kernel, labFaults>>

(* The finally clause: a module is removed only when it is believed to be  *)
(* loaded; a sysctl or a feature is written in any case.                   *)
Skips == resource \in Modules /\ ~believed

Restores ==
  /\ Goto("restore", "cancel")
  /\ value' = IF Skips THEN value ELSE [value EXCEPT ![resource] = original]
  /\ UNCHANGED <<stage, results, ceiling, trial, original, believed, doubt, timers,
                 excused, labFaults>>

(* The exit code is looked at by the policy stage only.                    *)
RestoreRefused ==
  /\ ~Skips
  /\ Goto("restore", "cancel") /\ LabFault
  /\ doubt' = (doubt \/ stage = Policy)
  /\ excused' = excused \cup {resource}
  /\ UNCHANGED <<stage, results, ceiling, trial, original, believed, value, timers>>

(* A finally clause that stops the timer even then.                        *)
RestoreTimesOutAndCancels ==
  /\ pc = "restore" /\ ~Skips /\ LabFault
  /\ value' \in {value, [value EXCEPT ![resource] = original]}
  /\ timers' = [timers EXCEPT ![unit] = "none"]
  /\ Ends("quarantined")
  /\ UNCHANGED <<stage, ceiling, trial, original, excused>>

(* The exception leaves the finally clause before the timer is stopped.    *)
RestoreTimesOut ==
  /\ pc = "restore" /\ ~Skips /\ LabFault
  /\ value' \in {value, [value EXCEPT ![resource] = original]}
  /\ Ends("quarantined")
  /\ UNCHANGED <<stage, ceiling, trial, original, timers, excused>>

(* The unit is stopped, or stays when systemctl fails or times out.        *)
Cancels ==
  /\ Goto("cancel", "verify")
  /\ \/ timers' = [timers EXCEPT ![unit] = "none"] /\ UNCHANGED <<doubt, labFaults>>
     \/ LabFault /\ doubt' \in {doubt, TRUE} /\ UNCHANGED timers
  /\ UNCHANGED <<stage, results, ceiling, trial, original, believed, value, excused>>

(* The next candidate, or the end.  Only the policy stage reads back what  *)
(* it restored.                                                            *)
Verifies ==
  /\ pc = "verify"
  /\ IF stage = Userspace /\ ~doubt /\ trial < Trials
     THEN /\ trial' = trial + 1
          /\ pc' = "arm" /\ believed' = FALSE
          /\ UNCHANGED <<results, doubt>>
     ELSE /\ Ends(IF doubt \/ (stage = Policy /\ value[resource] # original)
                  THEN "quarantined" ELSE "ended")
          /\ UNCHANGED trial
  /\ UNCHANGED <<stage, ceiling, original, kernel, labFaults>>

(* SIGKILL, or the runner is lost.                                         *)
Killed ==
  /\ pc # "done" /\ LabFault
  /\ pc' = "done"
  /\ UNCHANGED <<stage, results, ceiling, trial, original, believed, doubt, kernel>>

(* External: a timer runs out.  Its 90 or 120 seconds outlast the part of  *)
(* the stage it guards, so it never runs out inside of it.                 *)
Guards(u) == pc \in {"change", "measure", "restore", "cancel"} /\ u = unit

TimerFires(u) ==
  /\ timers[u] # "none" /\ ~Guards(u)
  /\ value' = [value EXCEPT ![Touches[u[1]]] = timers[u]]
  /\ timers' = [timers EXCEPT ![u] = "none"]
  /\ UNCHANGED <<stage, results, ceiling, pc, trial, original, believed, doubt,
                 excused, labFaults>>

LabSteps ==
  \/ ReachesStage \/ LabStops \/ StageHeld \/ StageBegins
  \/ Arms \/ ArmFails \/ Changes \/ ChangeRefused \/ ChangeTimesOut \/ Measures
  \/ Restores \/ RestoreRefused \/ RestoreTimesOut \/ Cancels \/ Verifies

LabNext == LabSteps \/ Killed \/ (\E u \in Units : TimerFires(u))

LabSpec ==
  /\ LabInit /\ [][LabNext]_labVars
  /\ WF_labVars(LabSteps) /\ \A u \in Units : WF_labVars(TimerFires(u))

-----------------------------------------------------------------------------
LabTypeOK ==
  /\ stage \in 1..6 /\ ceiling \in 1..6 /\ trial \in 1..Trials
  /\ results \in [1..6 -> {"none", "ended", "quarantined"}]
  /\ pc \in {"idle", "arm", "change", "measure", "restore", "cancel", "verify", "done"}
  /\ original \in Values /\ value \in [Resources -> Values]
  /\ timers \in [Units -> Values \cup {"none"}]
  /\ excused \subseteq Resources /\ labFaults \in 0..MaxLabFaults

(* Whenever a resource has another value, a timer is armed that gives it   *)
(* its original one, wherever the process is killed; the exceptions are    *)
(* the resources whose restore was refused or whose module load was cut    *)
(* off, because the timer is stopped in any case.                          *)
ChangeIsGuarded ==
  \A r \in Resources \ excused :
    value[r] = "changed" =>
      \E u \in Units : Touches[u[1]] = r /\ timers[u] = "original"

(* Nothing is changed before the risk ceiling allows its stage.            *)
CeilingHolds ==
  \A r \in Resources :
    value[r] = "changed" => \E s \in 2..ceiling : Touches[s] = r /\ s <= stage

LabHolds == LabTypeOK /\ ChangeIsGuarded /\ CeilingHolds

(* In the end everything is restored, but for those exceptions.            *)
LabRestores == <>[](\A r \in Resources : r \in excused \/ value[r] = "original")

(* OVERNIGHT_PI3_LAB.md: each kernel-tunable candidate is protected by a   *)
(* rollback timer and restored after measurement.                          *)
CandidatesRestored == <>[](value["sysctl"] = "original")
=============================================================================
