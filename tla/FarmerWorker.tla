---------------------------- MODULE FarmerWorker ----------------------------
(***************************************************************************)
(* The event-driven worker of Aurum (Projects/Aurum/Core/Farmer-v3):       *)
(* aurum_worker.py drains the durable directives of Slush and Hive, runs   *)
(* each through the operation gate and files a receipt; aurum_hive.py      *)
(* commits directives and then wakes the worker through a Unix socket.     *)
(*                                                                         *)
(* A directive names one bounded tool, or it is a plan: work items that    *)
(* farmer_plan dispatches in rounds, those of a round in parallel threads. *)
(* A call is one _dispatch, of a directive or of an item.  The gate is     *)
(* operation_gate.py, in the worker's own database: begin and finish are   *)
(* one transaction each, and finish may fail.                              *)
(*                                                                         *)
(* The workspace does not change, so that an operation has one fingerprint *)
(* throughout.                                                             *)
(***************************************************************************)
EXTENDS Naturals, Sequences, FiniteSets

CONSTANTS
    Directives,     \* directives that may be published
    InHive,         \* those in hive_events; the others are Slush objects
    Items,          \* work items of plans
    PlanOf,         \* the items of a directive; {} for a direct tool
    Goal,           \* items whose success completes the plan
    DependsOn,      \* depends_on of an item
    FallbackFor,    \* fallback_for of an item: at most one item
    Operations,     \* operation fingerprints
    OperationOf,    \* the operation of a call
    Observations,   \* operations that may always be repeated
    Unsupported,    \* operations for which the worker has no tool
    Backlog,        \* listen(16)
    MaxDeaths       \* how often the worker may die

Calls == Directives \cup Items

ASSUME WorkerAssumption ==
    /\ InHive \subseteq Directives /\ Directives \cap Items = {}
    /\ PlanOf \in [Directives -> SUBSET Items]
    /\ Goal \in [Directives -> SUBSET Items]
    /\ DependsOn \in [Items -> SUBSET Items]
    /\ FallbackFor \in [Items -> SUBSET Items]
    /\ OperationOf \in [Calls -> Operations]
    /\ Observations \subseteq Operations /\ Unsupported \subseteq Operations
    /\ Backlog \in Nat /\ MaxDeaths \in Nat

VARIABLES
    published,      \* directives in the database, in order of commit
    receipt,        \* farmer_receipts and farmer_hive_receipts
    operation,       \* future_operations: state and owner of each operation
    stage,          \* of the worker process
    batch,          \* directives read and not processed
    at,             \* how far each call has come
    result,         \* the result of each call
    status,         \* status_by_id of the current plan
    waking,         \* publishers between their commit and their wake
    wakes,          \* connections in the backlog of the socket
    woken,          \* history: directives whose wake was delivered
    effect,         \* history: what is known of the last run of an operation
    deaths

workerVars == <<published, receipt, operation, stage, batch, at, result, status,
                waking, wakes, woken, effect, deaths>>

-----------------------------------------------------------------------------
Stage == {"down", "startup", "binding", "listening", "draining"}

CallState == {"idle", "asked", "running", "ended", "answered"}

\* "succeeded" stands for both SUCCESS_STATES, "human" for
\* proven_human_only_blocker, "raised" for an exception.
ToolResult == {"succeeded", "failed", "machine_blocked", "human", "raised"}

\* "waiting" and "quarantined" are the refusals of the gate.
CallResult == ToolResult \cup {"none", "waiting", "quarantined"}

\* Results that start a fallback.
Failure == {"failed", "machine_blocked", "quarantined"}

JournalState == {"absent", "running", "observed", "waiting", "failed",
                 "uncertain"}

WorkerInit ==
    /\ published = <<>> /\ batch = {}
    /\ receipt = [d \in Directives |-> "none"]
    /\ operation = [f \in Operations |-> [state |-> "absent", owner |-> {}]]
    /\ stage = "down"
    /\ at = [c \in Calls |-> "idle"]
    /\ result = [c \in Calls |-> "none"]
    /\ status = [i \in Items |-> "none"]
    /\ waking = {} /\ wakes = 0 /\ woken = {}
    /\ effect = [f \in Operations |-> "none"]
    /\ deaths = 0

-----------------------------------------------------------------------------
(* Publishing                                                              *)

\* publish_delta commits the directive ...
Publish(d) ==
    /\ \A n \in DOMAIN published : published[n] # d
    /\ published' = Append(published, d)
    /\ waking' = waking \cup {d}
    /\ UNCHANGED <<receipt, operation, stage, batch, at, result, status, wakes,
                   woken, effect, deaths>>

\* ... and connects to the socket, where nobody may listen.
Wake(d) ==
    /\ d \in waking
    /\ waking' = waking \ {d}
    /\ IF stage \in {"listening", "draining"} /\ wakes < Backlog
       THEN wakes' = wakes + 1 /\ woken' = woken \cup {d}
       ELSE UNCHANGED <<wakes, woken>>
    /\ UNCHANGED <<published, receipt, operation, stage, batch, at, result,
                   status, effect, deaths>>

-----------------------------------------------------------------------------
(* The loop of the worker                                                  *)

OnlyStage ==
    UNCHANGED <<published, receipt, operation, at, result, status, waking, woken,
                effect, deaths>>

StartWorker ==
    /\ stage = "down"
    /\ stage' = "startup"
    /\ UNCHANGED <<batch, wakes>> /\ OnlyStage

Listen ==
    /\ stage = "binding"
    /\ stage' = "listening"
    /\ UNCHANGED <<batch, wakes>> /\ OnlyStage

\* accept, and a new drain.
Accept ==
    /\ stage = "listening" /\ wakes > 0
    /\ stage' = "draining"
    /\ wakes' = wakes - 1
    /\ UNCHANGED batch /\ OnlyStage

\* _pending_slush and _pending_hive: what is published and has no receipt.
Pending ==
    {d \in Directives : receipt[d] = "none"
                         /\ \E n \in DOMAIN published : published[n] = d}

\* drain, for another round or the last time.
ReadPending ==
    /\ stage \in {"startup", "draining"} /\ batch = {}
    /\ batch' = Pending
    /\ stage' = IF Pending # {} THEN stage
                ELSE IF stage = "startup" THEN "binding" ELSE "listening"
    /\ UNCHANGED wakes /\ OnlyStage

\* Slush comes before Hive, and either in the order of commit.
Before(d, o) ==
    IF d \in InHive <=> o \in InHive
    THEN \E m, n \in DOMAIN published :
            m < n /\ published[m] = d /\ published[n] = o
    ELSE o \in InHive

Current(d) == d \in batch /\ \A o \in batch \ {d} : Before(d, o)

OnlyCalls ==
    UNCHANGED <<published, receipt, stage, batch, status, waking, wakes, woken,
                deaths>>

Execute(d) ==
    /\ Current(d) /\ at[d] = "idle"
    /\ at' = [at EXCEPT ![d] = "asked"]
    /\ UNCHANGED <<operation, result, effect>> /\ OnlyCalls

-----------------------------------------------------------------------------
(* _dispatch                                                               *)

\* Mutation: an unresolved attempt does not block.
RefusedOnlyFailed(f) ==
    f \notin Observations /\ operation[f].state \in {"failed", "uncertain"}

\* No tool, or the gate refuses: in flight or unresolved, or failed before.
Refused(f) ==
    \/ f \in Unsupported
    \/ /\ f \notin Observations
       /\ operation[f].state \in {"running", "failed", "uncertain"}

Refuse(c) ==
    LET f == OperationOf[c] IN
    /\ at[c] = "asked"
    /\ Refused(f)
    /\ at' = [at EXCEPT ![c] = "answered"]
    /\ result' = [result EXCEPT ![c] =
                    IF f \in Unsupported THEN "machine_blocked"
                    ELSE IF operation[f].state = "running" THEN "waiting"
                    ELSE "quarantined"]
    /\ UNCHANGED <<operation, effect>> /\ OnlyCalls

Admit(c) ==
    LET f == OperationOf[c] IN
    /\ at[c] = "asked"
    /\ ~Refused(f)
    /\ at' = [at EXCEPT ![c] = "running"]
    /\ operation' = [operation EXCEPT ![f] = [state |-> "running", owner |-> {c}]]
    /\ effect' = [effect EXCEPT ![f] = "open"]
    /\ UNCHANGED result /\ OnlyCalls

\* begin raises, or _emit_event does once begin has admitted the call, which
\* leaves the row unresolved.  The tool does not run, and the caller makes
\* machine_blocked of the exception.
AdmissionRaises(c) ==
    LET f == OperationOf[c] IN
    /\ at[c] = "asked" /\ f \notin Unsupported
    /\ \/ UNCHANGED operation
       \/ /\ ~Refused(f)
          /\ operation' = [operation EXCEPT ![f] = [state |-> "running", owner |-> {c}]]
    /\ at' = [at EXCEPT ![c] = "answered"]
    /\ result' = [result EXCEPT ![c] = "machine_blocked"]
    /\ UNCHANGED effect /\ OnlyCalls

\* The tool of a call that is not a plan returns or raises.
ToolEnds(c, r) ==
    /\ at[c] = "running"
    /\ c \in Directives => PlanOf[c] = {}
    /\ at' = [at EXCEPT ![c] = "ended"]
    /\ result' = [result EXCEPT ![c] = r]
    /\ UNCHANGED <<operation, effect>> /\ OnlyCalls

\* What finish is told of a result.
FinishOutcome(r) ==
    CASE r = "failed" -> "failed"
      [] r = "raised" -> "uncertain"
      [] r \in {"machine_blocked", "human"} -> "waiting"
      [] OTHER -> "observed"

\* An exception of the tool has become machine_blocked in the caller.
Answer(c) ==
    /\ at' = [at EXCEPT ![c] = "answered"]
    /\ result' = [result EXCEPT ![c] = IF @ = "raised" THEN "machine_blocked"
                                       ELSE @]

FinishCall(c) ==
    LET f == OperationOf[c]  outcome == FinishOutcome(result[c]) IN
    /\ at[c] = "ended"
    /\ Answer(c)
    /\ IF operation[f] = [state |-> "running", owner |-> {c}]
       THEN /\ operation' = [operation EXCEPT ![f].state = outcome]
            /\ effect' = [effect EXCEPT ![f] =
                            IF outcome \in {"observed", "waiting"} THEN "known"
                            ELSE "bad"]
       ELSE UNCHANGED <<operation, effect>>
    /\ OnlyCalls

\* future_operationerror: the result stands.
FinishCallFails(c) ==
    /\ at[c] = "ended"
    /\ Answer(c)
    /\ UNCHANGED <<operation, effect>> /\ OnlyCalls

-----------------------------------------------------------------------------
(* farmer_plan                                                             *)

Planning(d) == Current(d) /\ at[d] = "running" /\ PlanOf[d] # {}

\* Between two rounds.
RoundOver(d) == \A i \in PlanOf[d] : at[i] = "idle"

Ready(d) ==
    {i \in PlanOf[d] :
        /\ status[i] = "none"
        /\ \A j \in DependsOn[i] : status[j] = "succeeded"
        /\ \A j \in FallbackFor[i] : status[j] \in Failure}

Complete(d) == Goal[d] # {} /\ \A i \in Goal[d] : status[i] = "succeeded"

\* An item that needs a human ends the plan at once.
Stuck(d) == \E i \in PlanOf[d] : status[i] = "human"

\* Everything that is ready starts together.
StartRound(d) ==
    /\ Planning(d) /\ RoundOver(d)
    /\ ~Stuck(d) /\ ~Complete(d) /\ Ready(d) # {}
    /\ at' = [c \in Calls |-> IF c \in Ready(d) THEN "asked" ELSE at[c]]
    /\ UNCHANGED <<operation, result, effect>> /\ OnlyCalls

\* The results of a round are taken over when all its threads have ended.
EndRound(d) ==
    LET round == {i \in PlanOf[d] : at[i] # "idle"} IN
    /\ Planning(d) /\ round # {}
    /\ \A i \in round : at[i] = "answered"
    /\ status' = [i \in Items |-> IF i \in round THEN result[i] ELSE status[i]]
    /\ at' = [c \in Calls |-> IF c \in round THEN "idle" ELSE at[c]]
    /\ UNCHANGED <<published, receipt, operation, stage, batch, result, waking,
                   wakes, woken, effect, deaths>>

\* Mutation: a plan waits until it is complete.
PlanEndsComplete(d) ==
    /\ Planning(d) /\ RoundOver(d)
    /\ Complete(d)
    /\ at' = [at EXCEPT ![d] = "ended"]
    /\ result' = [result EXCEPT ![d] = "succeeded"]
    /\ UNCHANGED <<operation, effect>> /\ OnlyCalls

PlanEnds(d) ==
    /\ Planning(d) /\ RoundOver(d)
    /\ Stuck(d) \/ Complete(d) \/ Ready(d) = {}
    /\ at' = [at EXCEPT ![d] = "ended"]
    /\ result' = [result EXCEPT ![d] =
                    IF Stuck(d) THEN "human"
                    ELSE IF Complete(d) THEN "succeeded" ELSE "machine_blocked"]
    /\ UNCHANGED <<operation, effect>> /\ OnlyCalls

-----------------------------------------------------------------------------
(* Receipts, and the death of the worker                                   *)

FileReceipt(d) ==
    /\ Current(d) /\ at[d] = "answered"
    /\ receipt' = [receipt EXCEPT ![d] = result[d]]
    /\ batch' = batch \ {d}
    /\ at' = [at EXCEPT ![d] = "idle"]
    /\ result' = [c \in Calls |-> "none"]
    /\ status' = [i \in Items |-> "none"]
    /\ UNCHANGED <<published, operation, stage, waking, wakes, woken, effect,
                   deaths>>

\* Everything but the database is gone.
Die ==
    /\ stage # "down" /\ deaths < MaxDeaths
    /\ deaths' = deaths + 1
    /\ stage' = "down" /\ batch' = {} /\ wakes' = 0
    /\ at' = [c \in Calls |-> "idle"]
    /\ result' = [c \in Calls |-> "none"]
    /\ status' = [i \in Items |-> "none"]
    /\ UNCHANGED <<published, receipt, operation, waking, woken, effect>>

Dispatch(c) ==
    \/ Refuse(c) \/ Admit(c) \/ AdmissionRaises(c)
    \/ \E r \in ToolResult : ToolEnds(c, r)
    \/ FinishCall(c) \/ FinishCallFails(c)

Work ==
    \/ StartWorker \/ Listen \/ Accept \/ ReadPending
    \/ \E d \in Directives : Execute(d) \/ FileReceipt(d)
    \/ \E d \in Directives : StartRound(d) \/ EndRound(d) \/ PlanEnds(d)

WorkerNext ==
    \/ \E d \in Directives : Publish(d) \/ Wake(d)
    \/ Work
    \/ \E c \in Calls : Dispatch(c)
    \/ Die

WorkerSpec == WorkerInit /\ [][WorkerNext]_workerVars

\* systemd restarts the service, its threads run and its tools end (they have
\* timeouts).  Nobody owes a publication, a wake or a death.
WorkerFairness ==
    WF_workerVars(Work) /\ \A c \in Calls : WF_workerVars(Dispatch(c))

-----------------------------------------------------------------------------
(* Properties                                                              *)

WorkerTypeOK ==
    /\ published \in Seq(Directives) /\ batch \subseteq Directives
    /\ receipt \in [Directives -> CallResult]
    /\ operation \in [Operations -> [state : JournalState, owner : SUBSET Calls]]
    /\ stage \in Stage
    /\ at \in [Calls -> CallState] /\ result \in [Calls -> CallResult]
    /\ status \in [Items -> CallResult]
    /\ waking \subseteq Directives /\ woken \subseteq Directives
    /\ wakes \in 0..Backlog
    /\ effect \in [Operations -> {"none", "open", "known", "bad"}]
    /\ deaths \in 0..MaxDeaths

\* The tool of an operation that changes something starts only when what its
\* last run did is known and was no failure: not beside another item or
\* directive with the same operation, not after a death or a failed finish in
\* the middle of it, not under another directive after a restart.
NoBlindRerun ==
    [][\A c \in Calls :
         at[c] # "running" /\ at'[c] = "running" =>
            OperationOf[c] \in Observations
               \/ effect[OperationOf[c]] \in {"none", "known"}]_workerVars

\* What the worker never does, with its types.
WorkerSafe == []WorkerTypeOK /\ NoBlindRerun

\* "drained to quiescence at startup and after every wake event"
\* (aurum_worker.py): a directive whose wake was delivered gets its receipt,
\* although the worker may be busy with an earlier drain, plans wait for each
\* other's operations, and the worker dies.
WakeDrains == \A d \in Directives : d \in woken ~> receipt[d] # "none"
=============================================================================
