---------------------------- MODULE MCGateClients ----------------------------
(***************************************************************************)
(* The two programs that admit operations through an operation journal,    *)
(* for TLC: the controller's middleware and the Aurum worker.  Each has a  *)
(* journal of its own, so a behaviour follows one and the other rests.     *)
(*   middleware  requests r1 to r3 repeat one effectful operation, q1 and  *)
(*               q2 one read, e1 engages the stop; operations with         *)
(*               different fingerprints share nothing but a crash, so the  *)
(*               workloads keep them apart                                 *)
(*   worker      a direct directive d1, and a plan d2 with a dependency    *)
(*               for d1's operation, and a fallback without a tool         *)
(***************************************************************************)
EXTENDS OperationGate, FarmerWorker

CONSTANTS r1, r2, r3, q1, q2, e1, op, look, halt,
          Workloads,  \* the sets of requests that come together
          d1, d2, i1, i2, i3, plan, check, watch, nosuch

mcFingerprintOf ==
  [r \in Requests |-> CASE r \in {r1, r2, r3} -> op [] r \in {q1, q2} -> look [] r = e1 -> halt]

mcPlanOf == [d \in Directives |-> IF d = d2 THEN Items ELSE {}]
mcGoal == [d \in Directives |-> IF d = d2 THEN {i3} ELSE {}]
mcDependsOn == [i \in Items |-> IF i = i3 THEN {i1} ELSE {}]
mcFallbackFor == [i \in Items |-> IF i = i3 THEN {i2} ELSE {}]
mcOperationOf ==
  [c \in Calls |-> CASE c = d2 -> plan [] c = i2 -> nosuch [] c = i3 -> watch
                     [] OTHER -> check]

VARIABLES focus,
          workload   \* the requests of this behaviour
clientVars == <<vars, workerVars, focus, workload>>

(* Init of the middleware, but for the requests that never come.           *)
WorkloadInit ==
  /\ row = [f \in Fingerprints |-> [state |-> "absent", token |-> NULL]]
  /\ pc = [r \in Requests |-> IF r \in workload THEN "new" ELSE "gone"]
  /\ handler = [r \in Requests |-> "idle"]
  /\ calls = {} /\ finished = {}
  /\ recorded = [r \in Requests |-> NULL]
  /\ crashes = 0

ClientsInit ==
  /\ focus \in {"middleware", "worker"}
  /\ workload \in (IF focus = "worker" THEN {{}} ELSE Workloads)
  /\ WorkloadInit /\ WorkerInit

Only(program, resting) == focus = program /\ UNCHANGED <<resting, focus, workload>>
OnlyMiddleware == Only("middleware", workerVars)
OnlyWorker == Only("worker", vars)

ClientsNext == (Next /\ OnlyMiddleware) \/ (WorkerNext /\ OnlyWorker)

(* FairSpec of the middleware and WorkerFairness.                          *)
ClientsSpec ==
  /\ ClientsInit /\ [][ClientsNext]_clientVars
  /\ \A r \in Requests : WF_clientVars(Advance(r) /\ OnlyMiddleware)
  /\ WF_clientVars(Work /\ OnlyWorker)
  /\ \A c \in Calls : WF_clientVars(Dispatch(c) /\ OnlyWorker)
=============================================================================
