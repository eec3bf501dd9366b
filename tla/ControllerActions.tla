-------------------------- MODULE ControllerActions --------------------------
(***************************************************************************)
(* The requests of the BoxBrain controller                                 *)
(* (controller/src/boxbrain_controller) that obey the emergency stop: the  *)
(* persistent stop itself (task_store.py), the approval-gated diagnostic   *)
(* executor (diagnostic_executor.py), the launch of a remote session, and  *)
(* the handlers that put them together under one control_lock (api.py).    *)
(* Scripts, Copilot dispatches and model runs neither take control_lock    *)
(* nor look at the stop; they are in ScriptFirst, CopilotWork and          *)
(* ProcessingRuns.                                                         *)
(*                                                                         *)
(* FastAPI runs each of these handlers in a thread of its own, so requests *)
(* interleave at every lock, database access and process launch.  Listing  *)
(* proposals does not take control_lock.  The controller may die at any    *)
(* point; the database survives it.  Target lookup is an external service  *)
(* that may refuse.  The audit event of a new proposal is left out.        *)
(***************************************************************************)
EXTENDS Naturals, Sequences

CONSTANTS
    Requests,       \* HTTP requests, each handled once
    Proposals,      \* diagnostic proposals the planner may make
    KindOf,         \* which handler a request is for
    ProposalOf,     \* the proposal a diagnostic or listing request is about
    MaxCrashes,     \* how often the controller may die
    FREE            \* the value of control_lock when nobody holds it

Kinds == {"engage", "reset", "diagnose", "launch", "list"}

ASSUME ActionsAssumption ==
    /\ KindOf \in [Requests -> Kinds]
    /\ ProposalOf \in [Requests -> Proposals]
    /\ MaxCrashes \in Nat
    /\ FREE \notin Requests

VARIABLES
    control_lock,   \* the request that holds it, or FREE
    stop,           \* controller_state: [engaged, generation]
    event,          \* audit_events, in sequence order
    proposal,       \* status column of diagnostic_proposals
    due,            \* proposals whose expires_at has passed
    pc,             \* where each request is
    seen,           \* the status a request read from its proposal's row
    started,        \* how often a proposal's command was started
    crashes

vars == <<control_lock, stop, event, proposal, due, pc, seen, started, crashes>>

Status == {"absent", "pending", "running", "succeeded", "failed", "expired"}

Result == {"engaged", "already_engaged", "reset", "already_clear", "blocked",
           "succeeded", "failed", "launched"}

PC == {"new", "locked", "open", "read", "ready", "effect", "succeeded",
       "failed", "done"}

TypeOK ==
    /\ control_lock \in Requests \cup {FREE}
    /\ stop \in [engaged : BOOLEAN, generation : Nat]
    /\ event \in Seq([result : Result, generation : Nat])
    /\ proposal \in [Proposals -> Status]
    /\ due \subseteq Proposals
    /\ pc \in [Requests -> PC]
    /\ seen \in [Requests -> Status]
    /\ started \in [Proposals -> Nat]
    /\ crashes \in 0..MaxCrashes

Init ==
    /\ control_lock = FREE
    /\ stop = [engaged |-> FALSE, generation |-> 0]
    /\ event = <<>>
    /\ proposal = [p \in Proposals |-> "absent"]
    /\ due = {}
    /\ pc = [r \in Requests |-> "new"]
    /\ seen = [r \in Requests |-> "absent"]
    /\ started = [p \in Proposals |-> 0]
    /\ crashes = 0

\* _insert_event.  Only the events about the stop carry its generation; an
\* outcome is recorded with the one in force.
Log(result, generation) ==
    event' = Append(event, [result |-> result, generation |-> generation])

Goto(r, label) == pc' = [pc EXCEPT ![r] = label]

\* The handler returns or raises, and its with-block gives the lock back.
Release(r) ==
    /\ Goto(r, "done")
    /\ control_lock' = FREE

-----------------------------------------------------------------------------
(* The emergency stop                                                      *)

\* Mutation: the stop is flipped without waiting for control_lock.
EngageUnlocked(r) ==
    LET now == [engaged |-> TRUE, generation |-> stop.generation + 1] IN
    /\ KindOf[r] = "engage" /\ pc[r] = "new"
    /\ stop' = IF stop.engaged THEN stop ELSE now
    /\ Log(IF stop.engaged THEN "already_engaged" ELSE "engaged",
           stop'.generation)
    /\ Goto(r, "done")
    /\ UNCHANGED <<control_lock, proposal, due, seen, started, crashes>>

\* engage_emergency_stop: state and audit event in one transaction.
Engage(r) ==
    LET now == [engaged |-> TRUE, generation |-> stop.generation + 1] IN
    /\ KindOf[r] = "engage" /\ pc[r] = "new"
    /\ control_lock = FREE
    /\ stop' = IF stop.engaged THEN stop ELSE now
    /\ Log(IF stop.engaged THEN "already_engaged" ELSE "engaged",
           stop'.generation)
    /\ Goto(r, "done")
    /\ UNCHANGED <<control_lock, proposal, due, seen, started, crashes>>

\* reset_emergency_stop.
Reset(r) ==
    LET now == [engaged |-> FALSE, generation |-> stop.generation + 1] IN
    /\ KindOf[r] = "reset" /\ pc[r] = "new"
    /\ control_lock = FREE
    /\ stop' = IF stop.engaged THEN now ELSE stop
    /\ Log(IF stop.engaged THEN "reset" ELSE "already_clear",
           stop'.generation)
    /\ Goto(r, "done")
    /\ UNCHANGED <<control_lock, proposal, due, seen, started, crashes>>

\* The handlers that run a diagnosis or a launch enter through control_lock ...
Enter(r) ==
    /\ KindOf[r] \in {"diagnose", "launch"} /\ pc[r] = "new"
    /\ control_lock = FREE
    /\ control_lock' = r
    /\ Goto(r, "locked")
    /\ UNCHANGED <<stop, event, proposal, due, seen, started, crashes>>

\* ... and looks at the stop first: 423 and an audit event when engaged.
Blocked(r) ==
    /\ pc[r] = "locked" /\ stop.engaged
    /\ Log("blocked", stop.generation)
    /\ Release(r)
    /\ UNCHANGED <<stop, proposal, due, seen, started, crashes>>

Open(r) ==
    /\ pc[r] = "locked" /\ ~stop.engaged
    /\ Goto(r, "open")
    /\ UNCHANGED <<control_lock, stop, event, proposal, due, seen, started,
                   crashes>>

-----------------------------------------------------------------------------
(* Proposals                                                               *)

\* propose inserts a pending row that expires proposal_ttl_seconds later.
Propose(p) ==
    /\ proposal[p] = "absent"
    /\ proposal' = [proposal EXCEPT ![p] = "pending"]
    /\ UNCHANGED <<control_lock, stop, event, due, pc, seen, started, crashes>>

\* The clock passes expires_at.
Lapse(p) ==
    /\ proposal[p] # "absent" /\ p \notin due
    /\ due' = due \cup {p}
    /\ UNCHANGED <<control_lock, stop, event, proposal, pc, seen, started,
                   crashes>>

\* get and list read the row under the service's lock and give the lock back
\* before they look at the clock.
ReadRow(r) ==
    /\ \/ KindOf[r] = "diagnose" /\ pc[r] = "open"
       \/ KindOf[r] = "list" /\ pc[r] = "new"
    /\ seen' = [seen EXCEPT ![r] = proposal[ProposalOf[r]]]
    /\ Goto(r, "read")
    /\ UNCHANGED <<control_lock, stop, event, proposal, due, started, crashes>>

\* Mutation: an early return that keeps the lock.
LeaveLocked(r) ==
    /\ Goto(r, "done")
    /\ UNCHANGED control_lock

\* A handler that ends without an effect; listing holds no lock.
Leave(r) ==
    /\ Goto(r, "done")
    /\ control_lock' = IF control_lock = r THEN FREE ELSE control_lock

\* 404 or 409: there is no such row, or it is not pending.
NotPending(r) ==
    /\ pc[r] = "read" /\ seen[r] # "pending"
    /\ Leave(r)
    /\ UNCHANGED <<stop, event, proposal, due, seen, started, crashes>>

\* _expire_if_needed: the row read was pending and is past its time, so the
\* row is set to expired, whatever it holds by now.
Expire(r) ==
    /\ pc[r] = "read" /\ seen[r] = "pending" /\ ProposalOf[r] \in due
    /\ proposal' = [proposal EXCEPT ![ProposalOf[r]] = "expired"]
    /\ Leave(r)
    /\ UNCHANGED <<stop, event, due, seen, started, crashes>>

StillPending(r) ==
    /\ pc[r] = "read" /\ seen[r] = "pending" /\ ProposalOf[r] \notin due
    /\ IF KindOf[r] = "list"
       THEN Leave(r)
       ELSE Goto(r, "ready") /\ UNCHANGED control_lock
    /\ UNCHANGED <<stop, event, proposal, due, seen, started, crashes>>

\* _require_supported_target or _build_command refuses the target.
TargetRefused(r) ==
    /\ pc[r] = "ready"
    /\ Leave(r)
    /\ UNCHANGED <<stop, event, proposal, due, seen, started, crashes>>

\* UPDATE ... SET status = 'running' WHERE id = ? AND status = 'pending',
\* then the SSH command starts.
StartCommand(r) ==
    /\ pc[r] = "ready" /\ proposal[ProposalOf[r]] = "pending"
    /\ proposal' = [proposal EXCEPT ![ProposalOf[r]] = "running"]
    /\ started' = [started EXCEPT ![ProposalOf[r]] = @ + 1]
    /\ Goto(r, "effect")
    /\ UNCHANGED <<control_lock, stop, event, due, seen, crashes>>

\* The row was expired under the request's feet: rowcount is 0, 409.
AlreadyHandled(r) ==
    /\ pc[r] = "ready" /\ proposal[ProposalOf[r]] # "pending"
    /\ Leave(r)
    /\ UNCHANGED <<stop, event, proposal, due, seen, started, crashes>>

\* The command ends or is cut off at its deadline, and the row says how ...
EndCommand(r, result) ==
    /\ KindOf[r] = "diagnose" /\ pc[r] = "effect"
    /\ proposal' = [proposal EXCEPT ![ProposalOf[r]] = result]
    /\ Goto(r, result)
    /\ UNCHANGED <<control_lock, stop, event, due, seen, started, crashes>>

\* ... then the audit stream does.
Report(r) ==
    /\ pc[r] \in {"succeeded", "failed"}
    /\ Log(pc[r], stop.generation)
    /\ Release(r)
    /\ UNCHANGED <<stop, proposal, due, seen, started, crashes>>

\* The SSH process could not start: the row fails and the handler raises 503
\* without an audit event.
CommandUnavailable(r) ==
    /\ KindOf[r] = "diagnose" /\ pc[r] = "effect"
    /\ proposal' = [proposal EXCEPT ![ProposalOf[r]] = "failed"]
    /\ Leave(r)
    /\ UNCHANGED <<stop, event, due, seen, started, crashes>>

-----------------------------------------------------------------------------
(* Sandbox and remote sessions                                             *)

Launch(r) ==
    /\ KindOf[r] = "launch" /\ pc[r] = "open"
    /\ Goto(r, "effect")
    /\ UNCHANGED <<control_lock, stop, event, proposal, due, seen, started,
                   crashes>>

\* A failed Sandbox launch is audited, a failed session is not.
Launched(r) ==
    /\ KindOf[r] = "launch" /\ pc[r] = "effect"
    /\ \/ \E result \in {"launched", "failed"} : Log(result, stop.generation)
       \/ UNCHANGED event
    /\ Release(r)
    /\ UNCHANGED <<stop, proposal, due, seen, started, crashes>>

-----------------------------------------------------------------------------

\* The controller dies: handlers and locks are gone, the database is not.
Crash ==
    /\ crashes < MaxCrashes
    /\ crashes' = crashes + 1
    /\ control_lock' = FREE
    /\ pc' = [r \in Requests |-> IF pc[r] = "new" THEN "new" ELSE "done"]
    /\ UNCHANGED <<stop, event, proposal, due, seen, started>>

\* What the thread that handles request r does next.
Handle(r) ==
    \/ Engage(r) \/ Reset(r)
    \/ Enter(r) \/ Blocked(r) \/ Open(r)
    \/ ReadRow(r) \/ NotPending(r) \/ Expire(r) \/ StillPending(r)
    \/ TargetRefused(r) \/ StartCommand(r) \/ AlreadyHandled(r)
    \/ \E result \in {"succeeded", "failed"} : EndCommand(r, result)
    \/ Report(r) \/ CommandUnavailable(r)
    \/ Launch(r) \/ Launched(r)

Next ==
    \/ \E r \in Requests : Handle(r)
    \/ \E p \in Proposals : Propose(p) \/ Lapse(p)
    \/ Crash

Spec == Init /\ [][Next]_vars

\* A thread keeps running; commands have a hard deadline, so "effect" ends.
\* Clients, the planner and the clock owe nothing.
FairSpec == Spec /\ \A r \in Requests : WF_vars(Handle(r))

-----------------------------------------------------------------------------
(* Properties                                                              *)

\* "transition atomically out of pending, and cannot be executed twice"
\* (docs/SECURITY.md), second half: an approval is used up by one start of the
\* command, whatever fails, expires or crashes in between.
RunOnce == \A p \in Proposals : started[p] <= 1

\* While the stop is engaged no diagnostic command and no launch is in progress,
\* which are the effects that look at it: a stop
\* request waits for the one under way and lets no other begin, although the
\* handler looked at the stop several steps before.
StopHolds == stop.engaged => \A r \in Requests : pc[r] # "effect"

\* The audit stream replays to the stop: generations never go back, they are
\* odd exactly while engaged, and the last event about the stop says what it
\* is.  A blocked request is blocked by the generation it names.
AuditReplays ==
    LET changes == {i \in DOMAIN event :
                      event[i].result \in {"engaged", "already_engaged",
                                           "reset", "already_clear"}}
        says(e) == e.result \in {"engaged", "already_engaged", "blocked"}
    IN
    /\ \A i, k \in DOMAIN event :
          i < k => event[i].generation <= event[k].generation
    /\ \A i \in DOMAIN event :
          says(event[i]) <=> event[i].generation % 2 = 1
    /\ \A i \in changes :
          (\A k \in changes : k <= i) =>
             /\ says(event[i]) = stop.engaged
             /\ event[i].generation = stop.generation

\* Every request is answered: no path through a handler keeps control_lock,
\* and a stop request in particular gets it.
RequestsEnd == <>(\A r \in Requests : pc[r] = "done")

\* What must be true of the handlers in every state.
ActionsHold == TypeOK /\ RunOnce /\ StopHolds /\ AuditReplays

\* "Proposals [...] transition atomically out of pending" (docs/SECURITY.md):
\* only a pending proposal expires.
ExpiresFromPending ==
    [][\A p \in Proposals :
         proposal[p] # "expired" /\ proposal'[p] = "expired" =>
            proposal[p] = "pending"]_vars

==============================================================================
