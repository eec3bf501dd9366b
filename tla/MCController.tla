---------------------------- MODULE MCController ----------------------------
(***************************************************************************)
(* The controller for TLC: the services behind its handlers (MCServices)   *)
(* and the records that it and other programs read, change and write back  *)
(* (MCRecords).  A behaviour is of the ones or of the others.              *)
(***************************************************************************)
EXTENDS MCServices, MCRecords

VARIABLE side
controllerVars == <<servicesVars, recordsVars, side>>

ControllerInit ==
  /\ ServicesInit /\ RecordsInit
  /\ \/ side = "services" /\ part = "fleet"
     \/ side = "records" /\ focus = "scripts"

OnlyServices == side = "services" /\ UNCHANGED <<recordsVars, side>>
OnlyRecords  == side = "records" /\ UNCHANGED <<servicesVars, side>>

ControllerNext ==
  \/ OnlyServices /\ ServicesNext
  \/ OnlyRecords /\ RecordsNext

(* FairSpec of the handlers; the others owe nothing.                       *)
ControllerSpec ==
  /\ ControllerInit /\ [][ControllerNext]_controllerVars
  /\ \A r \in Requests :
       WF_controllerVars(OnlyServices /\ OnlyActions /\ Handle(r))
=============================================================================
