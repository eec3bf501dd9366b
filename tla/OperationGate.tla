---------------------------- MODULE OperationGate ----------------------------
(***************************************************************************)
(* Admission of controller requests: the operation journal                 *)
(* (Projects/AurumFarmer/aurum_farmer/operation_gate.py) and the           *)
(* middleware that wraps every /api/ handler in one of its tickets         *)
(* (controller/src/boxbrain_controller/future_branch.py).                  *)
(*                                                                         *)
(* A fingerprint stands for the digest of operation, input, observed       *)
(* workspace and implementation; changing any of them is another           *)
(* fingerprint.  Each call of the gate runs in a worker thread that        *)
(* outlives the request: a request may be cancelled at any await (the      *)
(* client is gone, the server shuts down) while its begin or finish is     *)
(* still on its way to the database, and while its handler still runs.     *)
(* Both gate calls may also fail (sqlite locked or unavailable).           *)
(***************************************************************************)
EXTENDS Naturals

CONSTANTS
    Requests,       \* HTTP requests; their names are their tickets' tokens
    Fingerprints,   \* operation fingerprints
    FingerprintOf,  \* the fingerprint of a request
    Recovery,       \* fingerprints of GET, HEAD and emergency-stop engage
    EngageStop,     \* the fingerprint of emergency-stop engage
    MaxCrashes,     \* how often the controller may die
    NULL

ASSUME GateAssumption ==
    /\ FingerprintOf \in [Requests -> Fingerprints]
    /\ Recovery \subseteq Fingerprints
    /\ EngageStop \in Recovery
    /\ MaxCrashes \in Nat
    /\ NULL \notin Requests

VARIABLES
    row,            \* future_operations: state and token of a fingerprint
    pc,             \* where the middleware is with a request
    handler,        \* the wrapped application, for a request
    calls,          \* gate.finish calls that worker threads still carry
    finished,       \* the middleware's local flag
    recorded,       \* the outcome that was stored for a request, or NULL
    crashes

vars == <<row, pc, handler, calls, finished, recorded, crashes>>

Outcome == {"failed", "uncertain", "observed", "waiting", "refused"}

ASSUME OutcomeAssumption == NULL \notin Outcome

PC == {"new", "admitted", "handling", "bypass", "recording", "sending",
       "failing", "rejected", "unavailable", "answered", "gone"}

Ended == {"rejected", "unavailable", "answered", "gone"}

TypeOK ==
    /\ row \in [Fingerprints -> [state : Outcome \cup {"absent", "running"},
                                 token : Requests \cup {NULL}]]
    /\ pc \in [Requests -> PC]
    /\ handler \in [Requests -> {"idle", "running", "ended"}]
    /\ calls \subseteq [request : Requests, outcome : Outcome]
    /\ finished \subseteq Requests
    /\ recorded \in [Requests -> Outcome \cup {NULL}]
    /\ crashes \in 0..MaxCrashes

Init ==
    /\ row = [f \in Fingerprints |-> [state |-> "absent", token |-> NULL]]
    /\ pc = [r \in Requests |-> "new"]
    /\ handler = [r \in Requests |-> "idle"]
    /\ calls = {}
    /\ finished = {}
    /\ recorded = [r \in Requests |-> NULL]
    /\ crashes = 0

Goto(r, label) == pc' = [pc EXCEPT ![r] = label]

-----------------------------------------------------------------------------
(* Admission                                                               *)

\* Mutation: a failed attempt does not block.
DeniedOnlyRunning(f) == f \notin Recovery /\ row[f].state = "running"

\* in_flight_or_unresolved_attempt, unchanged_failed_operation.
Denied(f) ==
    f \notin Recovery /\ row[f].state \in {"running", "failed", "uncertain"}

\* begin: admitted with a fresh token, which for a recovery observation may
\* displace the token of a request that is still running ...
Begin(r) ==
    /\ pc[r] = "new"
    /\ ~Denied(FingerprintOf[r])
    /\ row' = [row EXCEPT ![FingerprintOf[r]] =
                 [state |-> "running", token |-> r]]
    /\ Goto(r, "admitted")
    /\ UNCHANGED <<handler, calls, finished, recorded, crashes>>

\* ... or answered 409.
Reject(r) ==
    /\ pc[r] = "new"
    /\ Denied(FingerprintOf[r])
    /\ Goto(r, "rejected")
    /\ UNCHANGED <<row, handler, calls, finished, recorded, crashes>>

\* begin raises: 503, except that the emergency stop goes on without a ticket.
BeginFails(r) ==
    /\ pc[r] = "new"
    /\ IF FingerprintOf[r] = EngageStop
       THEN Goto(r, "bypass") /\ handler' = [handler EXCEPT ![r] = "running"]
       ELSE Goto(r, "unavailable") /\ UNCHANGED handler
    /\ UNCHANGED <<row, calls, finished, recorded, crashes>>

\* The ticket arrives and the wrapped application starts.
Enter(r) ==
    /\ pc[r] = "admitted"
    /\ Goto(r, "handling")
    /\ handler' = [handler EXCEPT ![r] = "running"]
    /\ UNCHANGED <<row, calls, finished, recorded, crashes>>

-----------------------------------------------------------------------------
(* Handling                                                                *)

\* The handler returns or raises; a synchronous one runs in a thread and gets
\* here whether or not its request still exists.
HandlerEnds(r) ==
    /\ handler[r] = "running"
    /\ handler' = [handler EXCEPT ![r] = "ended"]
    /\ IF pc[r] = "bypass" THEN Goto(r, "answered") ELSE UNCHANGED pc
    /\ UNCHANGED <<row, calls, finished, recorded, crashes>>

\* observe sees the last part of the response and classifies it.
Observe(r, outcome) ==
    /\ pc[r] = "handling" /\ handler[r] = "ended"
    /\ calls' = calls \cup {[request |-> r, outcome |-> outcome]}
    /\ Goto(r, "recording")
    /\ UNCHANGED <<row, handler, finished, recorded, crashes>>

\* Mutation: an interrupted request is filed as waiting, so it may be repeated.
UncertainAsWaiting(r) ==
    IF r \in finished
    THEN Goto(r, "gone") /\ UNCHANGED calls
    ELSE /\ Goto(r, "failing")
         /\ calls' = calls \cup {[request |-> r, outcome |-> "waiting"]}

\* except BaseException: unless the outcome is known to be stored, the
\* operation becomes uncertain.
Uncertain(r) ==
    IF r \in finished
    THEN Goto(r, "gone") /\ UNCHANGED calls
    ELSE /\ Goto(r, "failing")
         /\ calls' = calls \cup {[request |-> r, outcome |-> "uncertain"]}

\* The application raises before it has answered.
Raise(r) ==
    /\ pc[r] = "handling" /\ handler[r] = "ended"
    /\ Uncertain(r)
    /\ UNCHANGED <<row, handler, finished, recorded, crashes>>

\* The request is cancelled while it waits for its handler, for finish or for
\* the client; a ticket on its way is lost.
Cancel(r) ==
    /\ \/ pc[r] \in {"handling", "recording", "sending"} /\ Uncertain(r)
       \/ pc[r] \in {"admitted", "bypass", "failing"} /\ Goto(r, "gone")
          /\ UNCHANGED calls
    /\ UNCHANGED <<row, handler, finished, recorded, crashes>>

\* The last part of the response goes out, or sending it raises.
Send(r) ==
    /\ pc[r] = "sending"
    /\ Goto(r, "answered")
    /\ UNCHANGED <<row, handler, calls, finished, recorded, crashes>>

SendRaises(r) ==
    /\ pc[r] = "sending"
    /\ Uncertain(r)
    /\ UNCHANGED <<row, handler, finished, recorded, crashes>>

-----------------------------------------------------------------------------
(* Recording                                                               *)

\* The coroutine resumes after the finish call it waits for.
Resumed(c) ==
    pc' = IF pc[c.request] = "recording"
          THEN [pc EXCEPT ![c.request] = "sending"]
          ELSE IF pc[c.request] = "failing" /\ c.outcome = "uncertain"
          THEN [pc EXCEPT ![c.request] = "gone"]
          ELSE pc

\* WHERE fingerprint = ? AND token = ? AND state = 'running'.
Owns(c) ==
    row[FingerprintOf[c.request]] =
        [state |-> "running", token |-> c.request]

\* finish commits; a call that no longer owns the row changes nothing.
Finish(c) ==
    /\ c \in calls
    /\ calls' = calls \ {c}
    /\ IF Owns(c)
       THEN /\ row' = [row EXCEPT ![FingerprintOf[c.request]].state = c.outcome]
            /\ recorded' = [recorded EXCEPT ![c.request] = c.outcome]
       ELSE UNCHANGED <<row, recorded>>
    /\ finished' = IF pc[c.request] = "recording"
                   THEN finished \cup {c.request} ELSE finished
    /\ Resumed(c)
    /\ UNCHANGED <<handler, crashes>>

\* Mutation: an error of finish swallows the response.
FinishFailsUnanswered(c) ==
    /\ c \in calls
    /\ calls' = calls \ {c}
    /\ UNCHANGED <<row, pc, handler, finished, recorded, crashes>>

\* finish raises; the middleware goes on.
FinishFails(c) ==
    /\ c \in calls
    /\ calls' = calls \ {c}
    /\ Resumed(c)
    /\ UNCHANGED <<row, handler, finished, recorded, crashes>>

-----------------------------------------------------------------------------

\* The controller dies, with everything that is not in the journal.
Crash ==
    /\ crashes < MaxCrashes
    /\ crashes' = crashes + 1
    /\ pc' = [r \in Requests |-> IF pc[r] \in Ended \cup {"new"}
                                 THEN pc[r] ELSE "gone"]
    /\ handler' = [r \in Requests |-> IF handler[r] = "running"
                                      THEN "ended" ELSE handler[r]]
    /\ calls' = {}
    /\ UNCHANGED <<row, finished, recorded>>

\* What goes on by itself once a request has arrived.
Advance(r) ==
    \/ Begin(r) \/ Reject(r) \/ BeginFails(r)
    \/ Enter(r) \/ HandlerEnds(r) \/ Raise(r) \/ Send(r) \/ SendRaises(r)
    \/ \E outcome \in Outcome \ {"uncertain"} : Observe(r, outcome)
    \/ \E c \in calls : c.request = r /\ (Finish(c) \/ FinishFails(c))

Next ==
    \/ \E r \in Requests : Advance(r) \/ Cancel(r)
    \/ Crash

Spec == Init /\ [][Next]_vars

\* The event loop and its threads keep running; handlers and sqlite calls
\* (30 second timeout) end.  Nobody owes a cancellation or a crash.
FairSpec == Spec /\ \A r \in Requests : WF_vars(Advance(r))

-----------------------------------------------------------------------------
(* Properties                                                              *)

\* "blocks concurrent duplicate effects" (Projects/AurumFarmer/README.md): two
\* handlers of one effectful operation never run at the same time, even when
\* the first one's request was cancelled and its thread runs on.
OneHandler ==
    \A r, q \in Requests :
        /\ r # q /\ FingerprintOf[r] = FingerprintOf[q]
        /\ FingerprintOf[r] \notin Recovery
        => ~(handler[r] = "running" /\ handler[q] = "running")

\* "A bookkeeping error cannot turn an executed effect into a retryable 500"
\* (future_branch.py): as long as no outcome is stored for a handler that was
\* started, its operation stays blocked, across failed and late finish calls,
\* cancellations and restarts.
UnresolvedBlocks ==
    \A r \in Requests :
        /\ FingerprintOf[r] \notin Recovery
        /\ handler[r] # "idle" /\ recorded[r] = NULL
        => row[FingerprintOf[r]] = [state |-> "running", token |-> r]

\* A journal row reports what happened to the request whose token it holds,
\* although recovery observations displace each other's tokens and a cancelled
\* request may have two finish calls under way.
RowTellsOwner ==
    \A f \in Fingerprints :
        row[f].state \in Outcome => recorded[row[f].token] = row[f].state

\* "unchanged failed operations [...] across restarts" (README.md): a failed or
\* uncertain operation is never run again under the same fingerprint.
FailedIsFinal ==
    [][\A f \in Fingerprints \ Recovery :
         row[f].state \in {"failed", "uncertain"} => row'[f] = row[f]]_vars

\* "emergency-stop engagement remains available even if the journal is
\* unavailable" (controller/README.md).
StopReachable ==
    \A r \in Requests :
        FingerprintOf[r] = EngageStop => pc[r] \notin {"rejected", "unavailable"}

\* Every request ends and no finish call is left behind.
RequestsSettle ==
    <>[](calls = {} /\ \A r \in Requests : pc[r] \in Ended)

\* What must be true of the journal and the requests in every state.
GateHolds == TypeOK /\ OneHandler /\ UnresolvedBlocks /\ RowTellsOwner /\ StopReachable
==============================================================================
