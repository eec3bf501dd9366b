-------------------------------- MODULE MCPi --------------------------------
(***************************************************************************)
(* The programs of the Raspberry Pis that keep state of their own, for     *)
(* TLC.  They share none, so a behaviour follows one and the others rest.  *)
(***************************************************************************)
EXTENDS RescueBoot, HidKvm, EdgeSync, AdaptiveDrivers, OvernightLab

VARIABLE focus
piVars == <<rescueVars, kvmVars, syncVars, driverVars, labVars, focus>>

PiInit ==
  /\ RescueInit /\ HidKvmInit /\ SyncInit /\ DriversInit /\ LabInit
  /\ focus \in {"rescue", "keyboard", "sync", "drivers", "lab"}
  /\ focus # "lab" => ceiling = 1
  /\ focus # "drivers" => hardware = CHOOSE h \in Hardware : TRUE

Only(program, resting) == focus = program /\ UNCHANGED <<resting, focus>>
OnlyRescue   == Only("rescue",   <<kvmVars, syncVars, driverVars, labVars>>)
OnlyKeyboard == Only("keyboard", <<rescueVars, syncVars, driverVars, labVars>>)
OnlySync     == Only("sync",     <<rescueVars, kvmVars, driverVars, labVars>>)
OnlyDrivers  == Only("drivers",  <<rescueVars, kvmVars, syncVars, labVars>>)
OnlyLab      == Only("lab",      <<rescueVars, kvmVars, syncVars, driverVars>>)

PiNext ==
  \/ RescueNext /\ OnlyRescue
  \/ HidKvmNext /\ OnlyKeyboard
  \/ SyncNext /\ OnlySync
  \/ DriversNext /\ OnlyDrivers
  \/ LabNext /\ OnlyLab

PiSpec ==
  /\ PiInit /\ [][PiNext]_piVars
  /\ WF_piVars(WatchdogReleases /\ OnlyKeyboard)
  /\ WF_piVars(TimePasses /\ OnlyKeyboard)
  /\ WF_piVars(ProcessSteps /\ OnlySync)
  /\ WF_piVars(LabSteps /\ OnlyLab)
  /\ \A u \in Units : WF_piVars(TimerFires(u) /\ OnlyLab)

(* The two experiments on the system itself leave it as they may: a driver *)
(* profile that was proven and can be rolled back, and a kernel whose      *)
(* changes are all under a timer (AdaptiveDrivers, OvernightLab).          *)
AdaptiveHolds == DriversHold /\ LabHolds
=============================================================================
