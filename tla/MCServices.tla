----------------------------- MODULE MCServices -----------------------------
(***************************************************************************)
(* The services of the controller for TLC.  They share no state, so a      *)
(* behaviour follows one of them and the others rest.                      *)
(*   actions     two approvals of one proposal, a listing, a launch, two   *)
(*               stop requests and a reset                                 *)
(*   scripts     one idempotency key, used by a request, its repetition,   *)
(*               and its repetition after a source file was edited         *)
(*   copilot     the same three dispatches of one packet                   *)
(*   processing  two model requests with one input and a local request     *)
(*               whose plan names a task of theirs                         *)
(***************************************************************************)
EXTENDS ControllerActions, ScriptFirst, CopilotWork, ProcessingRuns

CONSTANTS e1, e2, z1, d1, d2, l1, w1, p1, first, again, edited, note, goal

mcKindOf ==
  [r \in Requests |-> CASE r \in {e1, e2} -> "engage"
                        [] r = z1 -> "reset"
                        [] r \in {d1, d2} -> "diagnose"
                        [] r = l1 -> "list"
                        [] r = w1 -> "launch"]
mcProposalOf == [r \in Requests |-> p1]

mcKeyOf == [r \in ScriptRequests |-> "key"]
mcScriptPrintOf == [r \in ScriptRequests |-> IF r = edited THEN 2 ELSE 1]
mcPacketOf == [d \in Dispatches |-> "packet"]
mcDispatchPrintOf == [d \in Dispatches |-> IF d = edited THEN 2 ELSE 1]
mcInputOf == [r \in RunRequests |-> IF r = edited THEN note ELSE goal]
mcTitlesOf == [i \in Inputs |-> IF i = goal THEN {"t1"} ELSE {"t1", "t2"}]

VARIABLE focus
servicesVars == <<vars, scriptVars, copilotVars, processingVars, focus>>

ServicesInit ==
  /\ Init /\ ScriptInit /\ CopilotInit /\ ProcessingInit
  /\ focus \in {"actions", "scripts", "copilot", "processing"}

Only(service, resting) == focus = service /\ UNCHANGED <<resting, focus>>
OnlyActions == Only("actions", <<scriptVars, copilotVars, processingVars>>)

ServicesNext ==
  \/ OnlyActions /\ Next
  \/ Only("scripts", <<vars, copilotVars, processingVars>>) /\ ScriptNext
  \/ Only("copilot", <<vars, scriptVars, processingVars>>) /\ CopilotNext
  \/ Only("processing", <<vars, scriptVars, copilotVars>>) /\ ProcessingNext

ServicesSpec ==
  /\ ServicesInit /\ [][ServicesNext]_servicesVars
  /\ \A r \in Requests : WF_servicesVars(Handle(r) /\ OnlyActions)

(* Every request to a handler is answered (api.py): no path keeps          *)
(* control_lock.                                                           *)
HandlersEnd == focus = "actions" => RequestsEnd

(* Neither a script nor a packet is answered for work that was not done,   *)
(* and their logs tell what happened (ScriptFirst, CopilotWork).           *)
OffloadHolds == ScriptHolds /\ CopilotHolds
=============================================================================
