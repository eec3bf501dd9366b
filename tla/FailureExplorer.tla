--------------------------- MODULE FailureExplorer ---------------------------
(***************************************************************************)
(* The failure-path explorer of Aurum Farmer                               *)
(* (Projects/AurumFarmer/aurum_farmer/failure_explorer.py): every          *)
(* supervisor process runs a watchdog thread, the watchdog owns a worker   *)
(* process, and the workers advance one signed SQLite frontier under a     *)
(* lease of ten seconds.                                                   *)
(*                                                                         *)
(* A frontier row is its cursor; the counters and receipts in its body     *)
(* follow from it.  The order of shapes in a batch and the point where a   *)
(* budget ends it are free.  Clocks are abstracted to what the code asks   *)
(* of them: whether the lease is live, the status fresh (ten seconds) and  *)
(* the worker old (twenty).  They may run out under a worker that makes    *)
(* progress, a bounded number of times.  A replaced worker has a new owner *)
(* id, so a lease of an earlier one belongs to nobody (GONE).              *)
(***************************************************************************)
EXTENDS Naturals

CONSTANTS
    Supervisors,    \* supervisor processes
    Shapes,         \* observed policy shapes, the rows of the frontier
    Total,          \* cases of a shape
    MaxFaults,      \* deaths, hangs and broken rows
    MaxSlow,        \* how often a clock outruns a worker that makes progress
    GONE,
    NULL

ASSUME ExplorerAssumption ==
    /\ Total \in Nat \ {0} /\ MaxFaults \in Nat /\ MaxSlow \in Nat
    /\ GONE \notin Supervisors
    /\ NULL \notin Shapes /\ NULL \notin Nat

VARIABLES
    cursor,     \* frontier rows: cursor, NULL when absent
    corrupt,    \* rows whose seal does not match
    lease,      \* the lease row
    fresh,      \* the runtime row is younger than ten seconds
    up,         \* supervisors that live
    pc,         \* where the batch of a worker stands
    local,      \* the rows a worker read
    todo,       \* shapes its batch has not visited
    item,       \* the shape of the slice it is in, or NULL
    hung,       \* workers that stopped making progress
    old,        \* workers started more than twenty seconds ago
    blocked,    \* blocked_checkpoint of a watchdog, against the file's digest
    renewed,    \* rows changed since the supervisor's worker rejected them
    faults, slow

frontierVars == <<cursor, corrupt, renewed>>
workerVars == <<pc, local, todo, item>>
clockVars == <<fresh, old, slow>>
vars == <<frontierVars, lease, clockVars, up, workerVars, hung, blocked, faults>>

\* rejected: exit status 78; dead: any other end.
Running == {"idle", "capture", "read", "work", "publish"}

Row == 0..Total \cup {NULL}

TypeOK ==
    /\ cursor \in [Shapes -> Row]
    /\ corrupt \subseteq Shapes
    /\ lease \in [owner : Supervisors \cup {GONE}, live : BOOLEAN]
    /\ fresh \in BOOLEAN
    /\ up \subseteq Supervisors
    /\ pc \in [Supervisors -> Running \cup {"none", "dead", "rejected"}]
    /\ local \in [Supervisors -> [Shapes -> Row]]
    /\ todo \in [Supervisors -> SUBSET Shapes]
    /\ item \in [Supervisors -> Shapes \cup {NULL}]
    /\ hung \subseteq Supervisors
    /\ old \subseteq Supervisors
    /\ blocked \in [Supervisors -> {"none", "same", "changed"}]
    /\ renewed \in [Supervisors -> BOOLEAN]
    /\ faults \in 0..MaxFaults /\ slow \in 0..MaxSlow

NoRows == [c \in Shapes |-> NULL]

Init ==
    /\ cursor = NoRows /\ corrupt = {}
    /\ lease = [owner |-> GONE, live |-> FALSE]
    /\ fresh = FALSE
    /\ up = Supervisors
    /\ pc = [s \in Supervisors |-> "none"]
    /\ local = [s \in Supervisors |-> NoRows]
    /\ todo = [s \in Supervisors |-> {}]
    /\ item = [s \in Supervisors |-> NULL]
    /\ hung = {} /\ old = {}
    /\ blocked = [s \in Supervisors |-> "none"]
    /\ renewed = [s \in Supervisors |-> TRUE]
    /\ faults = 0 /\ slow = 0

Live(s) == pc[s] \in Running /\ s \notin hung

Goto(s, label) == pc' = [pc EXCEPT ![s] = label]

\* A batch returns: its local variables are gone.
BatchOver(s) ==
    /\ local' = [local EXCEPT ![s] = NoRows]
    /\ todo' = [todo EXCEPT ![s] = {}]
    /\ item' = [item EXCEPT ![s] = NULL]

\* The process ends, with everything it knew; how: what is there instead.
WorkerEnds(s, how) ==
    /\ Goto(s, how)
    /\ BatchOver(s)
    /\ hung' = hung \ {s}
    /\ old' = old \ {s}

\* The database file changes, and with it the digest a watchdog compares.
Touch ==
    blocked' = [s \in Supervisors |->
                  IF blocked[s] = "same" THEN "changed" ELSE blocked[s]]

\* A row of the frontier changes.
Renew == renewed' = [s \in Supervisors |-> TRUE]

-----------------------------------------------------------------------------
(* The worker: main and Frontier.batch                                     *)

\* Mutation: the worker does not look at the lifetime pipe.
TakeLeaseOrphan(s) ==
    /\ Live(s) /\ pc[s] = "idle"
    /\ lease.owner = s \/ ~lease.live
    /\ lease' = [owner |-> s, live |-> TRUE]
    /\ Goto(s, "capture")
    /\ Touch
    /\ UNCHANGED <<frontierVars, clockVars, up, local, todo, item, hung, faults>>

\* Mutation: the expiry of a lease is not looked at.
TakeLeaseUnexpired(s) ==
    /\ Live(s) /\ pc[s] = "idle" /\ s \in up
    /\ lease.owner \in {s, GONE}
    /\ lease' = [owner |-> s, live |-> TRUE]
    /\ Goto(s, "capture")
    /\ Touch
    /\ UNCHANGED <<frontierVars, clockVars, up, local, todo, item, hung, faults>>

\* A batch begins: the lease is this worker's, or has run out.  Refused, the
\* worker stays on standby.
TakeLease(s) ==
    /\ Live(s) /\ pc[s] = "idle" /\ s \in up
    /\ lease.owner = s \/ ~lease.live
    /\ lease' = [owner |-> s, live |-> TRUE]
    /\ Goto(s, "capture")
    /\ Touch
    /\ UNCHANGED <<frontierVars, clockVars, up, local, todo, item, hung, faults>>

\* Mutation: INSERT OR REPLACE.
CaptureReplaces(s, seen) ==
    /\ Live(s) /\ pc[s] = "capture"
    /\ cursor' = [c \in Shapes |-> IF c \in seen THEN 0 ELSE cursor[c]]
    /\ Goto(s, "read")
    /\ Touch /\ Renew
    /\ UNCHANGED <<corrupt, lease, clockVars, up, local, todo, item, hung,
                   faults>>

\* capture inserts the shapes seen in the ledger, ignoring those it has; it
\* does not look at the lease.  seen is empty when no capture is due.
Capture(s, seen) ==
    LET new == {c \in seen : cursor[c] = NULL} IN
    /\ Live(s) /\ pc[s] = "capture"
    /\ cursor' = [c \in Shapes |-> IF c \in new THEN 0 ELSE cursor[c]]
    /\ Goto(s, "read")
    /\ IF new # {} THEN Touch /\ Renew ELSE UNCHANGED <<blocked, renewed>>
    /\ UNCHANGED <<corrupt, lease, clockVars, up, local, todo, item, hung,
                   faults>>

\* The rows are read and unpacked, outside any transaction that writes.
ReadFrontier(s) ==
    LET current == {c \in Shapes : cursor[c] \in 0..(Total - 1)} IN
    /\ Live(s) /\ pc[s] = "read" /\ corrupt = {}
    /\ local' = [local EXCEPT ![s] = cursor]
    /\ todo' = [todo EXCEPT ![s] = current]
    /\ Goto(s, IF current = {} THEN "publish" ELSE "work")
    /\ UNCHANGED <<frontierVars, lease, clockVars, up, item, hung, blocked,
                   faults>>

\* unpack finds a broken seal: the worker exits with status 78.
Reject(s) ==
    /\ Live(s) /\ corrupt # {}
    /\ pc[s] = "read" \/ (pc[s] = "publish" /\ lease.owner = s)
    /\ WorkerEnds(s, "rejected")
    /\ renewed' = [renewed EXCEPT ![s] = FALSE]
    /\ UNCHANGED <<cursor, corrupt, lease, fresh, slow, up, blocked, faults>>

\* The row of shape c is replaced by this worker's copy of it, newly sealed.
Store(c, value) ==
    /\ cursor' = [cursor EXCEPT ![c] = value]
    /\ corrupt' = corrupt \ {c}
    /\ Touch
    /\ IF cursor' # cursor \/ corrupt' # corrupt THEN Renew ELSE UNCHANGED renewed

\* Mutation: the lease is not looked at again before the write.
CommitUnfenced(s, c) ==
    /\ Live(s) /\ pc[s] = "work"
    /\ c = item[s] \/ (item[s] = NULL /\ c \in todo[s])
    /\ local[s][c] < Total
    /\ Store(c, local[s][c] + 1)
    /\ local' = [local EXCEPT ![s][c] = @ + 1]
    /\ item' = [item EXCEPT ![s] = c]
    /\ todo' = [todo EXCEPT ![s] = @ \ {c}]
    /\ UNCHANGED <<lease, clockVars, up, pc, hung, faults>>

\* One case is evaluated and committed under the lease; the first one of a
\* shape starts its slice.
Commit(s, c) ==
    /\ Live(s) /\ pc[s] = "work" /\ lease.owner = s
    /\ c = item[s] \/ (item[s] = NULL /\ c \in todo[s])
    /\ local[s][c] < Total
    /\ Store(c, local[s][c] + 1)
    /\ local' = [local EXCEPT ![s][c] = @ + 1]
    /\ item' = [item EXCEPT ![s] = c]
    /\ todo' = [todo EXCEPT ![s] = @ \ {c}]
    /\ UNCHANGED <<lease, clockVars, up, pc, hung, faults>>

\* The slice ends (cases or CPU time used, or shape complete) with one more
\* write of the row; the batch goes on to another shape or ends.
EndSlice(s) ==
    /\ Live(s) /\ pc[s] = "work" /\ lease.owner = s /\ item[s] # NULL
    /\ Store(item[s], local[s][item[s]])
    /\ item' = [item EXCEPT ![s] = NULL]
    /\ \/ todo[s] # {} /\ UNCHANGED pc
       \/ Goto(s, "publish")
    /\ UNCHANGED <<lease, clockVars, up, local, todo, hung, faults>>

\* A write finds that another worker took the lease: back to standby.
Standby(s) ==
    /\ Live(s) /\ pc[s] \in {"work", "publish"} /\ lease.owner # s
    /\ Goto(s, "idle")
    /\ BatchOver(s)
    /\ UNCHANGED <<frontierVars, lease, clockVars, up, hung, blocked, faults>>

\* The status is published and the lease renewed.
Publish(s) ==
    /\ Live(s) /\ pc[s] = "publish" /\ lease.owner = s /\ corrupt = {}
    /\ fresh' = TRUE
    /\ lease' = [lease EXCEPT !.live = TRUE]
    /\ Goto(s, "idle")
    /\ BatchOver(s)
    /\ Touch
    /\ UNCHANGED <<frontierVars, old, slow, up, hung, faults>>

\* The pipe to the supervisor is closed: the worker ends after its batch.
OrphanExit(s) ==
    /\ Live(s) /\ pc[s] = "idle" /\ s \notin up
    /\ WorkerEnds(s, "dead")
    /\ UNCHANGED <<frontierVars, lease, fresh, slow, up, blocked, faults>>

Worker(s) ==
    \/ TakeLease(s)
    \/ \E seen \in SUBSET Shapes : Capture(s, seen)
    \/ ReadFrontier(s) \/ Reject(s)
    \/ \E c \in Shapes : Commit(s, c)
    \/ EndSlice(s) \/ Standby(s) \/ Publish(s) \/ OrphanExit(s)

-----------------------------------------------------------------------------
(* The watchdog: ExplorerWatchdog._watch                                   *)

\* The worker found a corrupt checkpoint: its digest is remembered.
Hold(s) ==
    /\ s \in up /\ pc[s] = "rejected" /\ blocked[s] = "none"
    /\ blocked' = [blocked EXCEPT ![s] = "same"]
    /\ UNCHANGED <<frontierVars, lease, clockVars, up, workerVars, hung, faults>>

\* No worker, or it ended; or the checkpoint it rejected has changed; or it is
\* old and the published status is not fresh.
Replaceable(s) ==
    \/ pc[s] \in {"none", "dead"}
    \/ pc[s] = "rejected" /\ blocked[s] = "changed"
    \/ pc[s] \in Running /\ s \in old /\ ~fresh

\* The worker is killed if it runs, and another started with a new owner id.
Replace(s) ==
    /\ s \in up /\ Replaceable(s)
    /\ WorkerEnds(s, "idle")
    /\ lease' = [lease EXCEPT !.owner = IF @ = s THEN GONE ELSE @]
    /\ blocked' = [blocked EXCEPT ![s] = "none"]
    /\ renewed' = [renewed EXCEPT ![s] = TRUE]
    /\ UNCHANGED <<cursor, corrupt, fresh, slow, up, faults>>

-----------------------------------------------------------------------------
(* Clocks and faults                                                       *)

\* Some worker holds the lease and makes progress.
Busy == \E s \in Supervisors : Live(s) /\ lease.owner = s

\* Time that passes although somebody makes progress is bounded.
TimeRuns(progress) ==
    IF progress THEN slow < MaxSlow /\ slow' = slow + 1 ELSE UNCHANGED slow

LeaseExpires ==
    /\ lease.live
    /\ lease' = [lease EXCEPT !.live = FALSE]
    /\ TimeRuns(Busy)
    /\ UNCHANGED <<frontierVars, fresh, old, up, workerVars, hung, blocked,
                   faults>>

StatusAges ==
    /\ fresh
    /\ fresh' = FALSE
    /\ TimeRuns(Busy)
    /\ UNCHANGED <<frontierVars, lease, old, up, workerVars, hung, blocked,
                   faults>>

\* Twenty seconds are time for another worker's lease to run out and a batch
\* to be published.
WorkerAges(s) ==
    /\ pc[s] \in Running /\ s \notin old
    /\ old' = old \cup {s}
    /\ TimeRuns(Live(s) /\ ~fresh)
    /\ UNCHANGED <<frontierVars, lease, fresh, up, workerVars, hung, blocked,
                   faults>>

Fault == faults < MaxFaults /\ faults' = faults + 1

\* The worker dies, for instance of a database error.
WorkerDies(s) ==
    /\ pc[s] \in Running
    /\ WorkerEnds(s, "dead")
    /\ Fault
    /\ UNCHANGED <<frontierVars, lease, fresh, slow, up, blocked>>

WorkerHangs(s) ==
    /\ Live(s)
    /\ hung' = hung \cup {s}
    /\ Fault
    /\ UNCHANGED <<frontierVars, lease, clockVars, up, workerVars, blocked>>

SupervisorDies(s) ==
    /\ s \in up
    /\ up' = up \ {s}
    /\ Fault
    /\ UNCHANGED <<frontierVars, lease, clockVars, workerVars, hung, blocked>>

\* A row is damaged, or restored, from outside.
Damage(c) ==
    /\ cursor[c] # NULL /\ c \notin corrupt
    /\ corrupt' = corrupt \cup {c}
    /\ Touch /\ Renew
    /\ Fault
    /\ UNCHANGED <<cursor, lease, clockVars, up, workerVars, hung>>

Restore ==
    /\ corrupt # {}
    /\ corrupt' = {}
    /\ Touch /\ Renew
    /\ UNCHANGED <<cursor, lease, clockVars, up, workerVars, hung, faults>>

Next ==
    \/ \E s \in Supervisors :
          \/ Worker(s) \/ Hold(s) \/ Replace(s)
          \/ WorkerAges(s) \/ WorkerDies(s) \/ WorkerHangs(s)
          \/ SupervisorDies(s)
    \/ \E c \in Shapes : Damage(c)
    \/ Restore \/ LeaseExpires \/ StatusAges

Spec == Init /\ [][Next]_vars

\* Workers and watchdogs run; time passes where nobody makes progress.
FairSpec ==
    /\ Spec
    /\ \A s \in Supervisors :
          /\ WF_vars(Worker(s))
          /\ WF_vars(Hold(s) \/ Replace(s))
          /\ WF_vars(WorkerAges(s) /\ (fresh \/ ~Live(s)))
    /\ WF_vars(LeaseExpires /\ ~Busy)
    /\ WF_vars(StatusAges /\ ~Busy)

-----------------------------------------------------------------------------
(* Properties                                                              *)

\* "An exclusive lease prevents competing workers from advancing the same
\* frontier" (README.md): the worker that holds the lease works on the rows as
\* they are stored, although it read them several transactions before and the
\* lease may have been lost and taken back in between.
HolderCurrent ==
    \A s \in Supervisors :
        Live(s) /\ pc[s] = "work" /\ lease.owner = s =>
            \A c \in Shapes : local[s][c] # NULL => local[s][c] = cursor[c]

\* "the case cursor advances instead of replaying failures" (README.md): no
\* worker, capture, takeover or restart moves a cursor back.
CursorForward ==
    [][\A c \in Shapes :
         cursor[c] # NULL => cursor'[c] # NULL /\ cursor'[c] >= cursor[c]]_vars

\* "An inherited lifetime pipe prevents orphan workers after the supervisor
\* exits" (README.md), unless the worker hangs.
OrphansEnd ==
    up # Supervisors ~>
        \A s \in Supervisors \ up : pc[s] \notin Running \/ s \in hung

\* "a crash/hang cannot silently disable exploration" (ExplorerWatchdog): the
\* known shapes are explored to their end, unless the checkpoint is damaged or
\* every supervisor is gone or holds a worker that rejected the checkpoint.
ShapesComplete ==
    cursor # NoRows ~>
        \/ \A c \in Shapes : cursor[c] \in {NULL, Total}
        \/ corrupt # {}
        \/ \A s \in up : pc[s] = "rejected"

\* "A corrupt signed checkpoint is held until its contents change, rather than
\* retried unchanged" (README.md): a worker that rejected the checkpoint is
\* replaced only after a row of the frontier changed.
CorruptNotRetried ==
    [][\A s \in Supervisors :
         pc[s] = "rejected" /\ pc'[s] = "idle" => renewed[s]]_vars

==============================================================================
