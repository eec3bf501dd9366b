---------------------------- MODULE FarmerLedger ----------------------------
(***************************************************************************)
(* The durable execution ledger of Aurum Farmer                            *)
(* (Projects/AurumFarmer/aurum_farmer/ledger.py): jobs, their Future       *)
(* Branches, the attempts made on them, the quarantine of failed           *)
(* operations and the last-known-good (LKG) table, all rows of one SQLite  *)
(* file.  Every method of Ledger that writes is one BEGIN IMMEDIATE        *)
(* transaction and so one action here, except heartbeat_attempt, which     *)
(* runs in autocommit mode and is two.                                     *)
(*                                                                         *)
(* The callers are arbitrary: any owner may call any method at any time.   *)
(* FarmerSupervisor restricts them to what the supervisor process does.    *)
(*                                                                         *)
(* Timestamps are kept relative to the present, because the code only ever *)
(* compares them with time.time(): a timer t > 0 lies in the future, t = 0 *)
(* is now or earlier.  A lease is stale when it lies strictly in the past, *)
(* so leases go down to -1.  Tick is the clock.                            *)
(*                                                                         *)
(* The states RECEIVED, PLANNED and VERIFYING are entered and left inside  *)
(* one transaction and are never visible; no method enters CANCELLED.      *)
(***************************************************************************)
EXTENDS Integers, FiniteSets

CONSTANTS
    Jobs,           \* job ids that clients may submit
    Branches,       \* branch ids, each of one job
    Owners,         \* supervisor process identities
    Ops,            \* operation fingerprints (_operation_fingerprint)
    Scopes,         \* LKG scopes
    Failures,       \* stable failure fingerprints an executor reports
    NULL,           \* the SQL NULL
    JobOf,          \* the job of a branch
    OpOf,           \* the operation fingerprint of a branch
    ScopeOf,        \* the lkg_scope of a branch, or NULL
    MaxAttempts,    \* max_attempts of a branch
    AttemptBound,   \* no max_attempts is larger
    Admissible,     \* branches every time-independent engine check passes
    Score,          \* the engine's score of a branch, in hundredths
    Priority,       \* priority of a job
    DedupeKey,      \* dedupe_key of a job, or NULL
    AuthorityReady, DependenciesSatisfied, HumanBoundary,
                    \* branches submitted with these columns set
    JobLease,       \* lease_seconds of a claim
    MaxLag,         \* how long BEGIN IMMEDIATE may wait for the write lock
    ParkDelay,      \* the 30 seconds of a parked job
    Delays          \* retry and wait delays finish_attempt may compute

ASSUME LedgerAssumption ==
    /\ IsFiniteSet(Jobs) /\ IsFiniteSet(Branches)
    /\ JobOf \in [Branches -> Jobs]
    /\ OpOf \in [Branches -> Ops]
    /\ ScopeOf \in [Branches -> Scopes \cup {NULL}]
    /\ AttemptBound \in Nat
    /\ MaxAttempts \in [Branches -> 1..AttemptBound]
    /\ Admissible \subseteq Branches
    /\ Score \in [Branches -> Int]
    /\ Priority \in [Jobs -> Int]
    /\ JobLease \in Nat /\ MaxLag \in Nat
    /\ ParkDelay \in Nat /\ Delays \subseteq Nat

ASSUME NullAssumption ==
    /\ NULL \notin Branches /\ NULL \notin Owners /\ NULL \notin Scopes
    /\ NULL \notin Failures /\ NULL \notin Int
    /\ NULL \notin Branches \X (1..AttemptBound)

VARIABLES
    job,            \* the jobs table
    branch,         \* the branches table
    attempt,        \* the attempts table, keyed by (branch, attempt_number)
    quarantine,     \* the future_quarantines table: a set of fingerprints
    lkg,            \* the last_known_good table: scope to verified attempt
    beat            \* heartbeat_attempt calls between their read and write

ledgerVars == <<job, branch, attempt, quarantine, lkg, beat>>

-----------------------------------------------------------------------------
(* Rows                                                                    *)

AttemptIds == Branches \X (1..AttemptBound)

Lease == {t \in Int : t >= -1}

JobState == {"ABSENT", "READY", "RUNNING", "RETRYING", "RECOVERING",
             "WAITING", "BLOCKED_HUMAN", "SUCCEEDED", "FAILED_FINAL"}

TerminalState == {"SUCCEEDED", "FAILED_FINAL"}

BranchState == {"ABSENT", "CANDIDATE", "RUNNING", "RETRYABLE", "WAITING",
                "BLOCKED_HUMAN", "SUCCEEDED", "QUARANTINED"}

\* BranchState values from which claim_next may start an attempt.
OpenState == {"CANDIDATE", "RETRYABLE", "WAITING"}

AttemptState == {"ABSENT", "RUNNING", "VERIFIED", "REJECTED", "FAILED",
                 "WAITING", "BLOCKED_HUMAN", "ABANDONED"}

\* state, lease_owner, lease_expires_at, current_branch_id, retry_not_before,
\* "human_boundary_json is not NULL",
\* "next_action is inspect_quarantined_operation", rank of created_at.
JobRow == [state    : JobState,
           owner    : Owners \cup {NULL},
           lease    : Lease \cup {NULL},
           current  : Branches \cup {NULL},
           retry    : Nat,
           boundary : BOOLEAN,
           inspect  : BOOLEAN,
           created  : Nat]

\* state, attempt_count, eligible_after, authority_ready,
\* dependencies_satisfied, "human_boundary_json is not NULL",
\* failure_fingerprint.
BranchRow == [state    : BranchState,
              count    : Nat,
              eligible : Nat,
              auth     : BOOLEAN,
              deps     : BOOLEAN,
              boundary : BOOLEAN,
              failure  : Failures \cup {NULL}]

AttemptRow == [state   : AttemptState,
               owner   : Owners \cup {NULL},
               receipt : BOOLEAN]

LedgerTypeOK ==
    /\ job \in [Jobs -> JobRow]
    /\ branch \in [Branches -> BranchRow]
    /\ attempt \in [AttemptIds -> AttemptRow]
    /\ quarantine \subseteq Ops
    /\ lkg \in [Scopes -> AttemptIds \cup {NULL}]
    /\ beat \in [Owners -> [job : Jobs \cup {NULL}, left : Lease]]

LedgerInit ==
    /\ job = [j \in Jobs |->
                [state |-> "ABSENT", owner |-> NULL, lease |-> NULL,
                 current |-> NULL, retry |-> 0, boundary |-> FALSE,
                 inspect |-> FALSE, created |-> 0]]
    /\ branch = [b \in Branches |->
                   [state |-> "ABSENT", count |-> 0, eligible |-> 0,
                    auth |-> b \in AuthorityReady,
                    deps |-> b \in DependenciesSatisfied,
                    boundary |-> b \in HumanBoundary, failure |-> NULL]]
    /\ attempt = [a \in AttemptIds |->
                    [state |-> "ABSENT", owner |-> NULL, receipt |-> FALSE]]
    /\ quarantine = {}
    /\ lkg = [c \in Scopes |-> NULL]
    /\ beat = [s \in Owners |-> [job |-> NULL, left |-> -1]]

\* What is left of a lease taken lag seconds ago.
Left(lease, lag) == IF lease - lag >= -1 THEN lease - lag ELSE -1

BranchesOf(j) == {b \in Branches : JobOf[b] = j}

AttemptsOf(j) == {a \in AttemptIds : JobOf[a[1]] = j}

RunningAttempts(j) == {a \in AttemptsOf(j) : attempt[a].state = "RUNNING"}

-----------------------------------------------------------------------------
(* Submission                                                              *)

\* submit: a matching dedupe_key returns the existing job and writes nothing;
\* otherwise the job and its whole branch field appear in one transaction
\* that passes through RECEIVED and PLANNED and commits READY.
Submit(j) ==
    /\ job[j].state = "ABSENT"
    /\ DedupeKey[j] # NULL =>
         \A k \in Jobs : job[k].state # "ABSENT" => DedupeKey[k] # DedupeKey[j]
    /\ job' = [job EXCEPT ![j] = [job[j] EXCEPT
                 !.state = "READY",
                 !.created =
                    Cardinality({k \in Jobs : job[k].state # "ABSENT"}) + 1]]
    /\ branch' = [b \in Branches |->
                    IF JobOf[b] = j
                    THEN [branch[b] EXCEPT !.state = "CANDIDATE"]
                    ELSE branch[b]]
    /\ UNCHANGED <<attempt, quarantine, lkg, beat>>

-----------------------------------------------------------------------------
(* Selection                                                               *)

\* _future_input presents a branch whose operation failed in any job as
\* QUARANTINED, whatever the row says.
Quarantined(b) ==
    branch[b].state = "QUARANTINED" \/ OpOf[b] \in quarantine

AllQuarantined(j) == \A b \in BranchesOf(j) : Quarantined(b)

\* Mutation: one attempt too many.
AttemptsRemainOffByOne(b) == branch[b].count <= MaxAttempts[b]

AttemptsRemain(b) == branch[b].count < MaxAttempts[b]

\* A branch the human side leaves free: no boundary, authority, dependencies.
Unblocked(b) ==
    branch[b].auth /\ branch[b].deps /\ ~branch[b].boundary

\* The proposals evaluate() gives no reason to reject.
Survivors(j) ==
    {b \in BranchesOf(j) :
        /\ b \in Admissible
        /\ ~Quarantined(b)
        /\ branch[b].state # "SUCCEEDED"
        /\ AttemptsRemain(b)
        /\ Unblocked(b)
        /\ branch[b].eligible = 0}

\* The selected survivor: none when the two best scores lie within .01.
Selected(j) ==
    {b \in Survivors(j) :
        \A c \in Survivors(j) \ {b} : Score[b] - Score[c] > 1}

\* The rows claim_next reads as candidates, and those it may start.
Candidates(j) ==
    {b \in BranchesOf(j) :
        /\ branch[b].state \in OpenState
        /\ AttemptsRemain(b)
        /\ branch[b].eligible = 0}

Eligible(j) == {b \in Candidates(j) : Unblocked(b) /\ b \in Selected(j)}

\* Mutation: RECOVERING is forgotten.
DueExceptRecovering(j) ==
    /\ job[j].state \in {"RETRYING", "WAITING"}
    /\ job[j].retry = 0
    /\ ~job[j].boundary
    /\ ~(job[j].inspect /\ AllQuarantined(j))

\* _activate_due: jobs whose delay has passed, except one parked on nothing
\* but quarantined operations.
Due(j) ==
    /\ job[j].state \in {"RETRYING", "RECOVERING", "WAITING"}
    /\ job[j].retry = 0
    /\ ~job[j].boundary
    /\ ~(job[j].inspect /\ AllQuarantined(j))

ReadyNow == {j \in Jobs : job[j].state = "READY" \/ Due(j)}

\* ORDER BY priority DESC, created_at ASC.
Before(j, k) ==
    \/ Priority[j] > Priority[k]
    \/ Priority[j] = Priority[k] /\ job[j].created < job[k].created

\* A READY job with nothing eligible is set aside for a human or for a while.
Park(j) ==
    IF \E b \in Candidates(j) : branch[b].boundary
    THEN [job[j] EXCEPT !.state = "BLOCKED_HUMAN", !.boundary = TRUE,
                        !.inspect = FALSE]
    ELSE [job[j] EXCEPT !.state = "WAITING", !.retry = ParkDelay,
                        !.inspect = AllQuarantined(j)]

-----------------------------------------------------------------------------
(* Claiming                                                                *)

\* claim_next with an eligible branch: b of job j, the first job in scheduling
\* order that has one.  Jobs scheduled earlier are parked on the way, due jobs
\* scheduled later become READY.  The lease runs from a clock reading taken
\* before the transaction got the write lock.
StartAttempt(s, j, b, lag) ==
    LET n == branch[b].count + 1 IN
    /\ j \in ReadyNow
    /\ b \in Eligible(j)
    /\ \A k \in ReadyNow : Before(k, j) => Eligible(k) = {}
    /\ branch' = [branch EXCEPT ![b] = [branch[b] EXCEPT
                    !.state = "RUNNING", !.count = n]]
    /\ attempt' = [attempt EXCEPT ![<<b, n>>] =
                     [state |-> "RUNNING", owner |-> s, receipt |-> FALSE]]
    /\ job' = [k \in Jobs |->
                 IF k = j
                 THEN [job[j] EXCEPT !.state = "RUNNING", !.owner = s,
                                     !.lease = Left(JobLease, lag),
                                     !.current = b,
                                     !.inspect = FALSE]
                 ELSE IF k \notin ReadyNow THEN job[k]
                 ELSE IF Before(k, j) THEN Park(k)
                 ELSE [job[k] EXCEPT !.state = "READY"]]
    /\ UNCHANGED <<quarantine, lkg, beat>>

\* claim_next with no eligible branch anywhere parks every READY job.
ClaimNothing ==
    /\ \A j \in ReadyNow : Eligible(j) = {}
    /\ job' = [j \in Jobs |-> IF j \in ReadyNow THEN Park(j) ELSE job[j]]
    /\ UNCHANGED <<branch, attempt, quarantine, lkg, beat>>

-----------------------------------------------------------------------------
(* Heartbeats                                                              *)

\* heartbeat_attempt reads the clock and the attempt outside a transaction ...
HeartbeatRead(s, a) ==
    /\ beat[s].job = NULL
    /\ attempt[a].owner = s /\ attempt[a].state = "RUNNING"
    /\ beat' = [beat EXCEPT ![s] = [job |-> JobOf[a[1]], left |-> JobLease]]
    /\ UNCHANGED <<job, branch, attempt, quarantine, lkg>>

\* Mutation: the write does not check lease_owner.
HeartbeatWriteUnguarded(s) ==
    /\ beat[s].job # NULL
    /\ job' = [job EXCEPT ![beat[s].job].lease = beat[s].left]
    /\ beat' = [beat EXCEPT ![s] = [job |-> NULL, left |-> -1]]
    /\ UNCHANGED <<branch, attempt, quarantine, lkg>>

\* ... and later extends the lease of whatever this owner then holds on the
\* job, which may be nothing any more.
HeartbeatWrite(s) ==
    LET j == beat[s].job IN
    /\ j # NULL
    /\ job' = IF job[j].owner = s
              THEN [job EXCEPT ![j] = [job[j] EXCEPT !.lease = beat[s].left]]
              ELSE job
    /\ beat' = [beat EXCEPT ![s] = [job |-> NULL, left |-> -1]]
    /\ UNCHANGED <<branch, attempt, quarantine, lkg>>

\* The caller dies in between.
HeartbeatLost(s) ==
    /\ beat[s].job # NULL
    /\ beat' = [beat EXCEPT ![s] = [job |-> NULL, left |-> -1]]
    /\ UNCHANGED <<job, branch, attempt, quarantine, lkg>>

-----------------------------------------------------------------------------
(* Finishing                                                               *)

\* Mutation: the state of the attempt is not rechecked.
MayFinishUnfenced(s, a) ==
    /\ attempt[a].owner = s
    /\ attempt[a].state # "ABSENT"
    /\ job[JobOf[a[1]]].state = "RUNNING"

\* finish_attempt rechecks ownership inside its transaction and raises
\* without writing anything when the attempt was taken away.
MayFinish(s, a) ==
    /\ attempt[a].owner = s
    /\ attempt[a].state = "RUNNING"
    /\ job[JobOf[a[1]]].state = "RUNNING"

\* _close_attempt, with the one farmer_receipt recorded before it.
CloseAttempt(a, state) ==
    attempt' = [attempt EXCEPT ![a] = [attempt[a] EXCEPT
                  !.state = state, !.receipt = TRUE]]

\* _clear_lease_fields, with next_action overwritten.
Released(row) ==
    [row EXCEPT !.owner = NULL, !.lease = NULL, !.current = NULL,
                !.inspect = FALSE]

\* SUCCEEDED or NO_CHANGE with valid evidence; hasRef: the result names an
\* artifact to promote to last known good.
FinishVerified(s, a, hasRef) ==
    LET b == a[1]  j == JobOf[b] IN
    /\ MayFinish(s, a)
    /\ branch' = [branch EXCEPT ![b] = [branch[b] EXCEPT
                    !.state = "SUCCEEDED"]]
    /\ job' = [job EXCEPT ![j] = [Released(job[j]) EXCEPT
                                    !.state = "SUCCEEDED", !.boundary = FALSE]]
    /\ CloseAttempt(a, "VERIFIED")
    /\ lkg' = IF hasRef /\ ScopeOf[b] # NULL
              THEN [lkg EXCEPT ![ScopeOf[b]] = a] ELSE lkg
    /\ UNCHANGED <<quarantine, beat>>

FinishHumanRequired(s, a) ==
    LET b == a[1]  j == JobOf[b] IN
    /\ MayFinish(s, a)
    /\ branch' = [branch EXCEPT ![b] = [branch[b] EXCEPT
                    !.state = "BLOCKED_HUMAN", !.boundary = TRUE]]
    /\ job' = [job EXCEPT ![j] = [Released(job[j]) EXCEPT
                                    !.state = "BLOCKED_HUMAN",
                                    !.boundary = TRUE]]
    /\ CloseAttempt(a, "BLOCKED_HUMAN")
    /\ UNCHANGED <<quarantine, lkg, beat>>

FinishWaiting(s, a, delay) ==
    LET b == a[1]  j == JobOf[b] IN
    /\ MayFinish(s, a)
    /\ branch' = [branch EXCEPT ![b] = [branch[b] EXCEPT
                    !.state = "WAITING", !.eligible = delay]]
    /\ job' = [job EXCEPT ![j] = [Released(job[j]) EXCEPT
                                    !.state = "WAITING", !.retry = delay]]
    /\ CloseAttempt(a, "WAITING")
    /\ UNCHANGED <<quarantine, lkg, beat>>

\* _schedule_or_fail: the same stable failure twice is not retried.
SameStableFailure(b, failure, transient) ==
    failure # NULL /\ failure = branch[b].failure /\ ~transient

MayRetry(b, permits, failure, transient) ==
    permits /\ AttemptsRemain(b) /\ ~SameStableFailure(b, failure, transient)

\* Mutation: every other branch counts, whatever its state.
AlternatesInAnyState(b) == BranchesOf(JobOf[b]) \ {b}

\* The other branches of the job that still have attempts.
Alternates(b) ==
    {c \in BranchesOf(JobOf[b]) \ {b} :
        branch[c].state \in OpenState /\ AttemptsRemain(c)}

\* permits: permits_retry of the result.  The attempt closes as FAILED.
FinishRetry(s, a, permits, failure, transient, delay) ==
    LET b == a[1]  j == JobOf[b] IN
    /\ MayFinish(s, a)
    /\ MayRetry(b, permits, failure, transient)
    /\ branch' = [branch EXCEPT ![b] = [branch[b] EXCEPT
                    !.state = "RETRYABLE", !.eligible = delay,
                    !.failure = failure]]
    /\ job' = [job EXCEPT ![j] = [Released(job[j]) EXCEPT
                                    !.state = "RETRYING", !.retry = delay]]
    /\ CloseAttempt(a, "FAILED")
    /\ UNCHANGED <<quarantine, lkg, beat>>

\* refused: the outcome is REFUSED, which quarantines the branch only.
\* rejected: the evidence gate refused a success; the attempt is REJECTED.
FinishQuarantine(s, a, permits, failure, transient, refused, rejected) ==
    LET b == a[1]  j == JobOf[b] IN
    /\ MayFinish(s, a)
    /\ ~MayRetry(b, permits, failure, transient)
    /\ branch' = [branch EXCEPT ![b] = [branch[b] EXCEPT
                    !.state = "QUARANTINED", !.failure = failure]]
    /\ quarantine' = IF refused THEN quarantine ELSE quarantine \cup {OpOf[b]}
    /\ job' = [job EXCEPT ![j] =
                 IF Alternates(b) # {}
                 THEN [Released(job[j]) EXCEPT !.state = "RECOVERING",
                                               !.retry = 0]
                 ELSE [Released(job[j]) EXCEPT !.state = "FAILED_FINAL"]]
    /\ CloseAttempt(a, IF rejected THEN "REJECTED" ELSE "FAILED")
    /\ UNCHANGED <<lkg, beat>>

\* Every way the result of attempt a can end it.  The evidence gate builds its
\* own failure: not retryable, and not a refusal.
FinishAttempt(s, a) ==
    \/ \E hasRef \in BOOLEAN : FinishVerified(s, a, hasRef)
    \/ FinishHumanRequired(s, a)
    \/ \E delay \in Delays : FinishWaiting(s, a, delay)
    \/ \E failure \in Failures \cup {NULL}, permits, transient \in BOOLEAN :
          \/ \E delay \in Delays :
                FinishRetry(s, a, permits, failure, transient, delay)
          \/ \E refused \in BOOLEAN :
                FinishQuarantine(s, a, permits, failure, transient, refused,
                                 FALSE)
    \/ \E failure \in Failures :
          FinishQuarantine(s, a, FALSE, failure, FALSE, FALSE, TRUE)

-----------------------------------------------------------------------------
(* Recovery and resume                                                     *)

Stale(j) ==
    job[j].state = "RUNNING" /\ job[j].lease # NULL /\ job[j].lease < 0

\* recover_stale_attempts, over every job whose lease has run out.  The code
\* takes the running attempt that started last; OneRunner shows there is one.
RecoverStaleAttempts ==
    LET stale  == {j \in Jobs : Stale(j)}
        again  == {j \in stale : AttemptsRemain(job[j].current)}
        lost   == {CHOOSE a \in RunningAttempts(j) : TRUE :
                      j \in {k \in stale : RunningAttempts(k) # {}}}
    IN
    /\ stale # {}
    /\ attempt' = [a \in AttemptIds |->
                     IF a \in lost
                     THEN [attempt[a] EXCEPT !.state = "ABANDONED"]
                     ELSE attempt[a]]
    /\ branch' = [b \in Branches |->
                    IF JobOf[b] \in again /\ job[JobOf[b]].current = b
                    THEN [branch[b] EXCEPT !.state = "RETRYABLE",
                                           !.eligible = 0]
                    ELSE branch[b]]
    /\ job' = [j \in Jobs |->
                 IF j \in again
                 THEN [Released(job[j]) EXCEPT !.state = "RECOVERING",
                                               !.retry = 0]
                 ELSE IF j \in stale
                 THEN [Released(job[j]) EXCEPT !.state = "FAILED_FINAL"]
                 ELSE job[j]]
    /\ UNCHANGED <<quarantine, lkg, beat>>

\* resume: an operator names the dimension that changed.  Rows still in state
\* CANDIDATE are not touched.
Dimensions == {"authority", "dependency", "other"}

\* Mutation: any job may be resumed.
ResumeAny(j, dimension) ==
    /\ job[j].state # "ABSENT"
    /\ job' = [job EXCEPT ![j] = [job[j] EXCEPT
                 !.state = "READY", !.boundary = FALSE, !.retry = 0,
                 !.inspect = FALSE]]
    /\ UNCHANGED <<branch, attempt, quarantine, lkg, beat>>

Resume(j, dimension) ==
    /\ job[j].state \in {"BLOCKED_HUMAN", "WAITING", "RETRYING", "RECOVERING"}
    /\ branch' = [b \in Branches |->
         IF /\ JobOf[b] = j
            /\ branch[b].state \in {"BLOCKED_HUMAN", "WAITING", "RETRYABLE"}
         THEN [branch[b] EXCEPT
                 !.state = "CANDIDATE",
                 !.eligible = 0,
                 !.boundary = @ /\ dimension # "authority",
                 !.auth = @ \/ dimension = "authority",
                 !.deps = @ \/ dimension = "dependency"]
         ELSE branch[b]]
    /\ job' = [job EXCEPT ![j] = [job[j] EXCEPT
                 !.state = "READY", !.boundary = FALSE, !.retry = 0,
                 !.inspect = FALSE]]
    /\ UNCHANGED <<attempt, quarantine, lkg, beat>>

-----------------------------------------------------------------------------
(* The clock                                                               *)

Older(t) == IF t > 0 THEN t - 1 ELSE 0

OlderLease(t) == IF t > -1 THEN t - 1 ELSE -1

Tick ==
    /\ job' = [j \in Jobs |->
                 [job[j] EXCEPT !.lease = IF @ = NULL THEN NULL ELSE OlderLease(@),
                                !.retry = Older(@)]]
    /\ branch' = [b \in Branches |->
                    [branch[b] EXCEPT !.eligible = Older(@)]]
    /\ beat' = [s \in Owners |-> [beat[s] EXCEPT !.left = OlderLease(@)]]
    /\ UNCHANGED <<attempt, quarantine, lkg>>

ClaimNext(s) ==
    \/ \E j \in Jobs, b \in Branches, lag \in 0..MaxLag :
          StartAttempt(s, j, b, lag)
    \/ ClaimNothing

LedgerNext ==
    \/ \E j \in Jobs : Submit(j)
    \/ \E s \in Owners : ClaimNext(s)
    \/ \E s \in Owners, a \in AttemptIds : HeartbeatRead(s, a)
    \/ \E s \in Owners : HeartbeatWrite(s) \/ HeartbeatLost(s)
    \/ \E s \in Owners, a \in AttemptIds : FinishAttempt(s, a)
    \/ RecoverStaleAttempts
    \/ \E j \in Jobs, dimension \in Dimensions : Resume(j, dimension)
    \/ Tick

LedgerSpec == LedgerInit /\ [][LedgerNext]_ledgerVars

-----------------------------------------------------------------------------
(* Properties                                                              *)

Closed(a) == attempt[a].state \notin {"ABSENT", "RUNNING"}

\* A job is RUNNING exactly while it is leased, and then exactly one of its
\* attempts runs: the newest one of the leased branch, by the lease owner.  No
\* interleaving of claims, late finishes, split heartbeats and stale recovery
\* leaves two runners, or a runner nobody will time out.
OneRunner ==
    \A j \in Jobs :
        /\ (job[j].state = "RUNNING") <=> (job[j].owner # NULL)
        /\ (job[j].owner # NULL) <=> (job[j].lease # NULL)
        /\ (job[j].owner # NULL) <=> (job[j].current # NULL)
        /\ RunningAttempts(j) =
              IF job[j].state = "RUNNING"
              THEN {<<job[j].current, branch[job[j].current].count>>}
              ELSE {}
        /\ \A a \in RunningAttempts(j) : attempt[a].owner = job[j].owner

\* The attempts of a branch are numbered without gaps up to attempt_count,
\* which never passes max_attempts: recovery, retry and resume spend the
\* budget submit fixed and cannot reset it.
AttemptBudget ==
    /\ \A a \in AttemptIds :
          attempt[a].state # "ABSENT" <=> a[2] <= branch[a[1]].count
    /\ \A b \in Branches : branch[b].count <= MaxAttempts[b]

\* A job succeeds through exactly one verified attempt, and a verified attempt
\* means its job succeeded: a runner that lost its lease cannot add a second
\* success, nor can recovery fail a job that was verified.
VerifiedOnce ==
    \A j \in Jobs :
        LET verified == {a \in AttemptsOf(j) : attempt[a].state = "VERIFIED"}
        IN  IF job[j].state = "SUCCEEDED"
            THEN \E a \in AttemptIds : verified = {a}
            ELSE verified = {}

\* What last_known_good names was verified, has its receipt and belongs to a
\* job that succeeded, in the branch's own scope.
LkgVerified ==
    \A c \in Scopes :
        lkg[c] # NULL =>
            /\ attempt[lkg[c]].state = "VERIFIED"
            /\ attempt[lkg[c]].receipt
            /\ ScopeOf[lkg[c][1]] = c
            /\ job[JobOf[lkg[c][1]]].state = "SUCCEEDED"

\* While an attempt runs its branch is free of human boundaries and has its
\* authority and dependencies: an operator's answer to one branch never lets
\* another one through.
HumanGate ==
    \A a \in AttemptIds :
        attempt[a].state = "RUNNING" =>
            /\ branch[a[1]].auth /\ branch[a[1]].deps
            /\ ~branch[a[1]].boundary

\* BLOCKED_HUMAN is exactly a job-level boundary, and some branch of the job
\* holds the boundary the human is asked about.
BlockedHasBoundary ==
    \A j \in Jobs :
        /\ job[j].boundary <=> job[j].state = "BLOCKED_HUMAN"
        /\ job[j].boundary => \E b \in BranchesOf(j) : branch[b].boundary

\* A job that says it will retry or recover has a branch with attempts left to
\* do so; the last branch to give up ends the job instead.
RecoveryHasWork ==
    \A j \in Jobs :
        job[j].state \in {"RETRYING", "RECOVERING"} =>
            \E b \in BranchesOf(j) :
                branch[b].state \in OpenState /\ AttemptsRemain(b)

\* What must be true of the tables in every state, beside the properties that
\* are checked under their own names.
RecordsHold ==
    LedgerTypeOK /\ LkgVerified /\ HumanGate /\ BlockedHasBoundary /\ RecoveryHasWork

\* What an executor returned is sealed once and for all: a closed attempt is
\* never reopened, relabelled or abandoned.
ClosedForever ==
    [][\A a \in AttemptIds : Closed(a) => attempt'[a] = attempt[a]]_ledgerVars

\* The job of branch b failed for good when a process was lost with the last
\* attempt of the branch.
LostForGood(b) ==
    /\ job[JobOf[b]].state = "FAILED_FINAL" /\ ~AttemptsRemain(b)
    /\ attempt[<<b, branch[b].count>>].state = "ABANDONED"

\* "Once its budget is exhausted, resubmitting an equivalent job does not reset
\* that budget" (README.md:223): no attempt starts on an operation of which
\* another job has lost every attempt it had.
LostBudgetKept ==
    [][\A a \in AttemptIds, b \in Branches :
         /\ attempt[a].state = "ABSENT" /\ attempt'[a].state = "RUNNING"
         /\ OpOf[b] = OpOf[a[1]] /\ JobOf[b] # JobOf[a[1]]
         => ~LostForGood(b)]_ledgerVars
=============================================================================
