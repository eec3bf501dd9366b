------------------------------ MODULE EdgeSync ------------------------------
(***************************************************************************)
(* The outbound synchronisation of the Kali Pi (SyncStore and              *)
(* BoxBrainSyncClient): one process posts its queued events to the server, *)
(* takes confirmed actions from the answer, runs them and posts their      *)
(* results.  The queue and the inbox are SQLite tables; a step is what one *)
(* of their transactions, one request or one effect does.  The server is   *)
(* external: it takes an event or a result once it has answered, and hands *)
(* out a confirmed action as often as it likes.                            *)
(***************************************************************************)
EXTENDS Naturals, FiniteSets

CONSTANTS
  Actions,
  BatchLimit,   \* 200, the events a snapshot carries
  MaxFaults     \* bound of the exploration: lost requests, lost answers, crashes

ASSUME SyncAssumption == BatchLimit \in Nat \ {0} /\ MaxFaults \in Nat

VARIABLES
  queue,        \* sync_events: the numbers of the events, in order of creation
  inbox,        \* inbound_actions
  step,         \* where the process is
  answer,       \* the server's answer to the snapshot
  announce,     \* received_action_ids, not yet announced
  todo,         \* pending_actions, as execute_pending_actions read them
  result,       \* the status of the action being reported
  taken,        \* server: the events it took
  asked,        \* server: the actions and their last reported status
  created,      \* the events created so far
  runs,         \* how often each action was executed
  faults

durable == <<queue, inbox, created>>
local == <<step, answer, announce, todo, result>>
server == <<taken, asked>>
syncVars == <<durable, local, server, runs, faults>>

Final == {"succeeded", "failed"}
NoAnswer == [events |-> {}, actions |-> {}]
NoResult == [action |-> "none", status |-> "none"]

SyncInit ==
  /\ queue = {} /\ created = 0
  /\ inbox = [a \in Actions |-> "absent"]
  /\ step = "start" /\ answer = NoAnswer /\ result = NoResult
  /\ announce = {} /\ todo = {}
  /\ taken = {} /\ asked = [a \in Actions |-> "none"]
  /\ runs = [a \in Actions |-> 0] /\ faults = 0

Fault == faults < MaxFaults /\ faults' = faults + 1

(* pending_events: the oldest BatchLimit events of the queue.              *)
Oldest == {e \in queue : Cardinality({d \in queue : d < e}) < BatchLimit}

(* External: what the server hands out, the finished ones perhaps again.   *)
HandedOut(actions) ==
  /\ actions \subseteq {a \in Actions : asked[a] # "none"}
  /\ {a \in Actions : asked[a] = "confirmed"} \subseteq actions

ServerConfirms(a) ==
  /\ asked[a] = "none"
  /\ asked' = [asked EXCEPT ![a] = "confirmed"]
  /\ UNCHANGED <<durable, local, taken, runs, faults>>

Enqueue == created' = created + 1 /\ queue' = queue \cup {created'}

(* main enqueues node.sync_started before the first round.                 *)
Starts ==
  /\ step = "start"
  /\ Enqueue
  /\ step' = "snapshot"
  /\ UNCHANGED <<inbox, answer, announce, todo, result, server, runs, faults>>

-----------------------------------------------------------------------------
(* run_once.                                                               *)

PostSnapshot ==
  /\ step = "snapshot"
  /\ taken' = taken \cup Oldest
  /\ \E actions \in SUBSET Actions :
       /\ HandedOut(actions)
       /\ answer' = [events |-> Oldest, actions |-> actions]
  /\ step' = "acknowledge"
  /\ UNCHANGED <<durable, announce, todo, result, asked, runs, faults>>

(* The server takes and names a part of the events only.                   *)
PostPartlyTaken ==
  /\ step = "snapshot" /\ Fault
  /\ \E events \in SUBSET Oldest \ {Oldest} :
       /\ taken' = taken \cup events
       /\ answer' = [events |-> events, actions |-> {}]
  /\ step' = "acknowledge"
  /\ UNCHANGED <<durable, announce, todo, result, asked, runs>>

(* SyncTransportError: the request or its answer is lost.  The events stay *)
(* queued, and no action is run in this round.                             *)
PostLost ==
  /\ step = "snapshot" /\ Fault
  /\ taken' \in {taken, taken \cup Oldest}
  /\ UNCHANGED <<durable, local, asked, runs>>

(* Every event of the snapshot is acknowledged, taken or not.              *)
AcknowledgeSent ==
  /\ step = "acknowledge"
  /\ queue' = queue \ Oldest
  /\ step' = "record"
  /\ UNCHANGED <<inbox, created, answer, announce, todo, result, server, runs,
                 faults>>

Acknowledge ==
  /\ step = "acknowledge"
  /\ queue' = queue \ answer.events
  /\ step' = "record"
  /\ UNCHANGED <<inbox, created, answer, announce, todo, result, server, runs,
                 faults>>

(* INSERT OR REPLACE.                                                      *)
RecordReplaces ==
  /\ step = "record"
  /\ announce' = answer.actions
  /\ inbox' = [a \in Actions |-> IF a \in announce' THEN "pending" ELSE inbox[a]]
  /\ step' = "announce"
  /\ UNCHANGED <<queue, created, answer, todo, result, server, runs, faults>>

(* record_actions: one transaction, INSERT OR IGNORE.                      *)
Record ==
  /\ step = "record"
  /\ announce' = {a \in answer.actions : inbox[a] = "absent"}
  /\ inbox' = [a \in Actions |-> IF a \in announce' THEN "pending" ELSE inbox[a]]
  /\ step' = "announce"
  /\ UNCHANGED <<queue, created, answer, todo, result, server, runs, faults>>

(* One action.received event and one transaction for each of them.         *)
Announce ==
  /\ step = "announce"
  /\ \E a \in announce : announce' = announce \ {a}
  /\ Enqueue
  /\ UNCHANGED <<inbox, step, answer, todo, result, server, runs, faults>>

-----------------------------------------------------------------------------
(* execute_pending_actions.                                                *)

PendingActions ==
  /\ step = "announce" /\ announce = {}
  /\ todo' = {a \in Actions : inbox[a] = "pending"}
  /\ step' = "execute"
  /\ UNCHANGED <<durable, answer, announce, result, server, runs, faults>>

(* The effect; an exception of it is the status "failed".                  *)
Execute(a, status) ==
  /\ step = "execute" /\ a \in todo
  /\ runs' = [runs EXCEPT ![a] = @ + 1]
  /\ result' = [action |-> a, status |-> status]
  /\ step' = "report"
  /\ UNCHANGED <<durable, answer, announce, todo, server, faults>>

Told(a, status) == [asked EXCEPT ![a] = status]

PostResult ==
  /\ step = "report"
  /\ asked' = Told(result.action, result.status)
  /\ step' = "complete"
  /\ UNCHANGED <<durable, answer, announce, todo, result, taken, runs, faults>>

(* The exception leaves the loop: the actions behind it wait as well.      *)
PostResultLost ==
  /\ step = "report" /\ Fault
  /\ asked' \in {asked, Told(result.action, result.status)}
  /\ step' = "snapshot"
  /\ todo' = {}
  /\ UNCHANGED <<durable, answer, announce, result, taken, runs>>

Complete ==
  /\ step = "complete"
  /\ inbox' = [inbox EXCEPT ![result.action] = result.status]
  /\ todo' = todo \ {result.action}
  /\ step' = "execute"
  /\ UNCHANGED <<queue, created, answer, announce, result, server, runs, faults>>

RoundEnds ==
  /\ step = "execute" /\ todo = {}
  /\ step' = "snapshot"
  /\ UNCHANGED <<durable, answer, announce, todo, result, server, runs, faults>>

(* The process dies anywhere and systemd starts it again.                  *)
SyncRestarts ==
  /\ Fault
  /\ step' = "start" /\ answer' = NoAnswer /\ result' = NoResult
  /\ announce' = {} /\ todo' = {}
  /\ UNCHANGED <<durable, server, runs>>

ProcessSteps ==
  \/ Starts \/ PostSnapshot \/ Acknowledge \/ Record \/ Announce \/ PendingActions
  \/ \E a \in Actions, status \in Final : Execute(a, status)
  \/ PostResult \/ Complete \/ RoundEnds

SyncNext ==
  \/ ProcessSteps
  \/ PostPartlyTaken \/ PostLost \/ PostResultLost \/ SyncRestarts
  \/ \E a \in Actions : ServerConfirms(a)

(* The loop of main never ends; faults stop at their bound.                *)
SyncSpec == SyncInit /\ [][SyncNext]_syncVars /\ WF_syncVars(ProcessSteps)

-----------------------------------------------------------------------------
SyncTypeOK ==
  /\ queue \subseteq 1..created /\ created \in Nat /\ taken \subseteq 1..created
  /\ inbox \in [Actions -> {"absent", "pending"} \cup Final]
  /\ asked \in [Actions -> {"none", "confirmed"} \cup Final]
  /\ step \in {"start", "snapshot", "acknowledge", "record", "announce", "execute",
               "report", "complete"}
  /\ announce \subseteq Actions /\ todo \subseteq Actions
  /\ runs \in [Actions -> Nat] /\ faults \in 0..MaxFaults

(* An event leaves the queue only after the server took it.                *)
NoEventLost == \A e \in 1..created : e \in queue \/ e \in taken

(* An action that is finished here is finished at the server, with the     *)
(* same status: whatever answer was lost, the last report is the one kept. *)
ReportedFirst == \A a \in Actions : inbox[a] \in Final => asked[a] = inbox[a]

(* Only a lost report or a crash runs an action again; being handed out    *)
(* twice does not.                                                         *)
RerunNeedsFault == \A a \in Actions : runs[a] <= 1 + faults

SyncHolds == SyncTypeOK /\ NoEventLost /\ ReportedFirst /\ RerunNeedsFault

(* When the faults end, every event reaches the server and every confirmed *)
(* action is run and reported, in whatever order they queued up.           *)
SyncDelivers ==
  /\ \A a \in Actions : asked[a] = "confirmed" ~> inbox[a] \in Final
  /\ \A e \in 1..(1 + MaxFaults + Cardinality(Actions)) : e \in queue ~> e \in taken
=============================================================================
