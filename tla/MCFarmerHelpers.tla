--------------------------- MODULE MCFarmerHelpers ---------------------------
(***************************************************************************)
(* What works beside the Farmer's supervisors, for TLC: two explorers over *)
(* one frontier, the resource governor, and the workflow executor.  They   *)
(* share no state, so a behaviour follows one and the others rest.         *)
(***************************************************************************)
EXTENDS FailureExplorer, ResourceGovernor, WorkflowDispatch

VARIABLE focus
helperVars == <<vars, governorVars, dispatchVars, focus>>

HelpersInit ==
  /\ Init /\ GovernorInit /\ DispatchInit
  /\ focus \in {"explorer", "governor", "dispatch"}

Only(helper, resting) == focus = helper /\ UNCHANGED <<resting, focus>>
OnlyExplorer == Only("explorer", <<governorVars, dispatchVars>>)

HelpersNext ==
  \/ Next /\ OnlyExplorer
  \/ GovernorNext /\ Only("governor", <<vars, dispatchVars>>)
  \/ DispatchNext /\ Only("dispatch", <<vars, governorVars>>)

(* FairSpec of the explorer; the others owe nothing.                       *)
HelpersSpec ==
  /\ HelpersInit /\ [][HelpersNext]_helperVars
  /\ \A s \in Supervisors :
       /\ WF_helperVars(Worker(s) /\ OnlyExplorer)
       /\ WF_helperVars((Hold(s) \/ Replace(s)) /\ OnlyExplorer)
       /\ WF_helperVars(WorkerAges(s) /\ (fresh \/ ~Live(s)) /\ OnlyExplorer)
  /\ WF_helperVars(LeaseExpires /\ ~Busy /\ OnlyExplorer)
  /\ WF_helperVars(StatusAges /\ ~Busy /\ OnlyExplorer)

(* The full budget has been earned, and a workflow is dispatched again     *)
(* only when its dispatch was lost (ResourceGovernor, WorkflowDispatch).   *)
HelpersHold == GovernorHolds /\ DispatchHolds
=============================================================================
