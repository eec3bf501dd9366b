------------------------- MODULE FarmerLedgerProofs -------------------------
(***************************************************************************)
(* Proofs about FarmerLedger, for every set of jobs, branches, owners and  *)
(* for every lease, delay and attempt budget.                              *)
(***************************************************************************)
EXTENDS FarmerLedger, FiniteSetTheorems, TLAPS

USE DEF Lease

-----------------------------------------------------------------------------
(* Types                                                                   *)

\* Parking a job yields a job row.
LEMMA ParkType ==
    ASSUME LedgerTypeOK, NEW j \in Jobs
    PROVE  Park(j) \in JobRow
<1> DEFINE row == job[j]
<1>1. row \in JobRow
  BY DEF LedgerTypeOK
<1>2. ASSUME NEW x \in BOOLEAN, NEW d \in Nat
      PROVE  [row EXCEPT !.state = "WAITING", !.retry = d, !.inspect = x]
                \in JobRow
  BY <1>1 DEF JobRow, JobState
<1>3. [row EXCEPT !.state = "BLOCKED_HUMAN", !.boundary = TRUE,
                  !.inspect = FALSE] \in JobRow
  BY <1>1 DEF JobRow, JobState
<1>4. AllQuarantined(j) \in BOOLEAN
  BY DEF AllQuarantined
<1>5. ParkDelay \in Nat
  BY LedgerAssumption
<1> QED BY <1>2, <1>3, <1>4, <1>5 DEF Park

\* Releasing the lease of a job yields a job row.
LEMMA ReleasedType ==
    ASSUME NEW row \in JobRow
    PROVE  Released(row) \in JobRow
BY DEF Released, JobRow

\* What is left of a lease is a lease.
LEMMA LeftType ==
    ASSUME NEW lag \in 0..MaxLag
    PROVE  Left(JobLease, lag) \in Lease
BY LedgerAssumption DEF Left

\* Initially the tables are well typed.
LEMMA TypeInit == LedgerInit => LedgerTypeOK
BY LedgerAssumption DEF LedgerInit, LedgerTypeOK, JobRow, BranchRow,
   AttemptRow, JobState, BranchState, AttemptState

\* Submission counts a finite set of jobs.
LEMMA TypeSubmit ==
    ASSUME LedgerTypeOK, NEW j \in Jobs, Submit(j)
    PROVE  LedgerTypeOK'
<1> DEFINE known == {k \in Jobs : job[k].state # "ABSENT"}
<1>1. Cardinality(known) \in Nat
  <2>1. IsFiniteSet(known)
    BY LedgerAssumption, FS_Subset
  <2> QED BY <2>1, FS_CardinalityType
<1>2. job' \in [Jobs -> JobRow]
  <2>1. ASSUME NEW d \in Nat
        PROVE  [job[j] EXCEPT !.state = "READY", !.created = d] \in JobRow
    BY DEF LedgerTypeOK, JobRow, JobState
  <2>2. Cardinality(known) + 1 \in Nat
    BY <1>1
  <2> QED BY <2>1, <2>2 DEF Submit, LedgerTypeOK
<1>3. branch' \in [Branches -> BranchRow]
  <2>1. ASSUME NEW b \in Branches
        PROVE  [branch[b] EXCEPT !.state = "CANDIDATE"] \in BranchRow
    BY DEF LedgerTypeOK, BranchRow, BranchState
  <2> QED BY <2>1 DEF Submit, LedgerTypeOK
<1> QED BY <1>2, <1>3 DEF Submit, LedgerTypeOK

LEMMA TypeStart ==
    ASSUME LedgerTypeOK, NEW s \in Owners, NEW j \in Jobs, NEW b \in Branches,
           NEW lag \in 0..MaxLag, StartAttempt(s, j, b, lag)
    PROVE  LedgerTypeOK'
<1>1. job' \in [Jobs -> JobRow]
  <2>1. ASSUME NEW left \in Lease
        PROVE  [job[j] EXCEPT !.state = "RUNNING", !.owner = s,
                              !.lease = left, !.current = b,
                              !.inspect = FALSE] \in JobRow
    BY DEF LedgerTypeOK, JobRow, JobState
  <2>2. ASSUME NEW k \in Jobs
        PROVE  [job[k] EXCEPT !.state = "READY"] \in JobRow
    BY DEF LedgerTypeOK, JobRow, JobState
  <2>3. ASSUME NEW k \in Jobs PROVE job[k] \in JobRow
    BY DEF LedgerTypeOK
  <2> QED BY <2>1, <2>2, <2>3, LeftType, ParkType DEF StartAttempt
<1>2. branch' \in [Branches -> BranchRow]
  <2>1. ASSUME NEW n \in Nat
        PROVE  [branch[b] EXCEPT !.state = "RUNNING", !.count = n]
                  \in BranchRow
    BY DEF LedgerTypeOK, BranchRow, BranchState
  <2>2. branch[b].count + 1 \in Nat
    BY DEF LedgerTypeOK, BranchRow
  <2> QED BY <2>1, <2>2 DEF StartAttempt, LedgerTypeOK
<1>3. attempt' \in [AttemptIds -> AttemptRow]
  BY DEF StartAttempt, LedgerTypeOK, AttemptRow, AttemptState
<1> QED BY <1>1, <1>2, <1>3 DEF StartAttempt, LedgerTypeOK

LEMMA TypeClaimNothing ==
    ASSUME LedgerTypeOK, ClaimNothing
    PROVE  LedgerTypeOK'
<1>1. job' \in [Jobs -> JobRow]
  BY ParkType DEF ClaimNothing, LedgerTypeOK
<1> QED BY <1>1 DEF ClaimNothing, LedgerTypeOK

LEMMA TypeHeartbeat ==
    ASSUME LedgerTypeOK, NEW s \in Owners,
           \/ \E a \in AttemptIds : HeartbeatRead(s, a)
           \/ HeartbeatWrite(s)
           \/ HeartbeatLost(s)
    PROVE  LedgerTypeOK'
<1>1. ASSUME NEW a \in AttemptIds, HeartbeatRead(s, a) PROVE LedgerTypeOK'
  <2>1. JobOf[a[1]] \in Jobs /\ JobLease \in Lease
    BY LedgerAssumption DEF AttemptIds
  <2> QED BY <1>1, <2>1 DEF HeartbeatRead, LedgerTypeOK
<1>2. ASSUME HeartbeatWrite(s) PROVE LedgerTypeOK'
  <2>1. beat[s].job \in Jobs /\ beat[s].left \in Lease
    BY <1>2 DEF HeartbeatWrite, LedgerTypeOK
  <2>2. ASSUME NEW k \in Jobs, NEW left \in Lease
        PROVE  [job[k] EXCEPT !.lease = left] \in JobRow
    BY DEF LedgerTypeOK, JobRow
  <2>3. job' \in [Jobs -> JobRow]
    BY <1>2, <2>1, <2>2 DEF HeartbeatWrite, LedgerTypeOK
  <2> QED BY <1>2, <2>3 DEF HeartbeatWrite, LedgerTypeOK
<1>3. ASSUME HeartbeatLost(s) PROVE LedgerTypeOK'
  BY <1>3 DEF HeartbeatLost, LedgerTypeOK
<1> QED BY <1>1, <1>2, <1>3

\* Every way to finish writes a job, a branch and an attempt row of the
\* attempt's own job, a fingerprint and an attempt id.
LEMMA TypeFinish ==
    ASSUME LedgerTypeOK, NEW s \in Owners, NEW a \in AttemptIds,
           FinishAttempt(s, a)
    PROVE  LedgerTypeOK'
<1> DEFINE b == a[1]
<1> DEFINE j == JobOf[b]
<1>1. b \in Branches /\ j \in Jobs /\ OpOf[b] \in Ops
      /\ ScopeOf[b] \in Scopes \cup {NULL}
  BY LedgerAssumption DEF AttemptIds
<1> DEFINE row == Released(job[j])
<1>2. row \in JobRow
  BY <1>1, ReleasedType DEF LedgerTypeOK
<1>3. ASSUME NEW state \in JobState, NEW x \in BOOLEAN, NEW d \in Nat
      PROVE  /\ [row EXCEPT !.state = state] \in JobRow
             /\ [row EXCEPT !.state = state, !.boundary = x] \in JobRow
             /\ [row EXCEPT !.state = state, !.retry = d] \in JobRow
  BY <1>2 DEF JobRow
<1>4. ASSUME NEW state \in BranchState, NEW d \in Nat,
             NEW f \in Failures \cup {NULL}
      PROVE  /\ [branch[b] EXCEPT !.state = state] \in BranchRow
             /\ [branch[b] EXCEPT !.state = state, !.boundary = TRUE]
                   \in BranchRow
             /\ [branch[b] EXCEPT !.state = state, !.eligible = d]
                   \in BranchRow
             /\ [branch[b] EXCEPT !.state = state, !.failure = f]
                   \in BranchRow
             /\ [branch[b] EXCEPT !.state = state, !.eligible = d,
                                  !.failure = f] \in BranchRow
  BY <1>1 DEF LedgerTypeOK, BranchRow
<1>5. ASSUME NEW state \in AttemptState
      PROVE  [attempt[a] EXCEPT !.state = state, !.receipt = TRUE]
                \in AttemptRow
  BY DEF LedgerTypeOK, AttemptRow
<1>6. Delays \subseteq Nat
  BY LedgerAssumption
<1> HIDE DEF row
<1>7. ASSUME NEW hasRef \in BOOLEAN, FinishVerified(s, a, hasRef)
      PROVE  LedgerTypeOK'
  BY <1>1, <1>3, <1>4, <1>5, <1>7 DEF FinishVerified, CloseAttempt, row,
     LedgerTypeOK, JobState, BranchState, AttemptState
<1>8. ASSUME FinishHumanRequired(s, a)
      PROVE  LedgerTypeOK'
  BY <1>1, <1>3, <1>4, <1>5, <1>8 DEF FinishHumanRequired, CloseAttempt, row,
     LedgerTypeOK, JobState, BranchState, AttemptState
<1>9. ASSUME NEW delay \in Delays, FinishWaiting(s, a, delay)
      PROVE  LedgerTypeOK'
  BY <1>1, <1>3, <1>4, <1>5, <1>6, <1>9 DEF FinishWaiting, CloseAttempt, row,
     LedgerTypeOK, JobState, BranchState, AttemptState
<1>10. ASSUME NEW failure \in Failures \cup {NULL}, NEW permits,
              NEW transient, NEW delay \in Delays,
              FinishRetry(s, a, permits, failure, transient, delay)
       PROVE  LedgerTypeOK'
  BY <1>1, <1>3, <1>4, <1>5, <1>6, <1>10 DEF FinishRetry, CloseAttempt, row,
     LedgerTypeOK, JobState, BranchState, AttemptState
<1>11. ASSUME NEW failure \in Failures \cup {NULL}, NEW permits,
              NEW transient, NEW refused, NEW rejected,
              FinishQuarantine(s, a, permits, failure, transient, refused,
                               rejected)
       PROVE  LedgerTypeOK'
  BY <1>1, <1>3, <1>4, <1>5, <1>11 DEF FinishQuarantine, CloseAttempt, row,
     LedgerTypeOK, JobState, BranchState, AttemptState
<1> QED BY <1>7, <1>8, <1>9, <1>10, <1>11 DEF FinishAttempt

LEMMA TypeRecover ==
    ASSUME LedgerTypeOK, RecoverStaleAttempts
    PROVE  LedgerTypeOK'
<1>1. job' \in [Jobs -> JobRow]
  <2>1. ASSUME NEW row \in JobRow
        PROVE  /\ [row EXCEPT !.state = "RECOVERING", !.retry = 0] \in JobRow
               /\ [row EXCEPT !.state = "FAILED_FINAL"] \in JobRow
    BY DEF JobRow, JobState
  <2>2. ASSUME NEW k \in Jobs
        PROVE  job[k] \in JobRow /\ Released(job[k]) \in JobRow
    BY ReleasedType DEF LedgerTypeOK
  <2> QED BY <2>1, <2>2 DEF RecoverStaleAttempts
<1>2. branch' \in [Branches -> BranchRow]
  <2>1. ASSUME NEW c \in Branches
        PROVE  /\ branch[c] \in BranchRow
               /\ [branch[c] EXCEPT !.state = "RETRYABLE", !.eligible = 0]
                     \in BranchRow
    BY DEF LedgerTypeOK, BranchRow, BranchState
  <2> QED BY <2>1 DEF RecoverStaleAttempts
<1>3. attempt' \in [AttemptIds -> AttemptRow]
  <2>1. ASSUME NEW a \in AttemptIds
        PROVE  /\ attempt[a] \in AttemptRow
               /\ [attempt[a] EXCEPT !.state = "ABANDONED"] \in AttemptRow
    BY DEF LedgerTypeOK, AttemptRow, AttemptState
  <2> QED BY <2>1 DEF RecoverStaleAttempts
<1> QED BY <1>1, <1>2, <1>3 DEF RecoverStaleAttempts, LedgerTypeOK

LEMMA TypeResume ==
    ASSUME LedgerTypeOK, NEW j \in Jobs, NEW dimension \in Dimensions,
           Resume(j, dimension)
    PROVE  LedgerTypeOK'
<1>1. job' \in [Jobs -> JobRow]
  <2>1. [job[j] EXCEPT !.state = "READY", !.boundary = FALSE, !.retry = 0,
                       !.inspect = FALSE] \in JobRow
    BY DEF LedgerTypeOK, JobRow, JobState
  <2> QED BY <2>1 DEF Resume, LedgerTypeOK
<1>2. branch' \in [Branches -> BranchRow]
  <2>1. ASSUME NEW c \in Branches, NEW x \in BOOLEAN, NEW y \in BOOLEAN,
               NEW z \in BOOLEAN
        PROVE  [branch[c] EXCEPT !.state = "CANDIDATE", !.eligible = 0,
                                 !.boundary = x, !.auth = y, !.deps = z]
                  \in BranchRow
    BY DEF LedgerTypeOK, BranchRow, BranchState
  <2>2. ASSUME NEW c \in Branches
        PROVE  /\ branch[c] \in BranchRow
               /\ (branch[c].boundary /\ dimension # "authority") \in BOOLEAN
               /\ (branch[c].auth \/ dimension = "authority") \in BOOLEAN
               /\ (branch[c].deps \/ dimension = "dependency") \in BOOLEAN
    BY DEF LedgerTypeOK
  <2> QED BY <2>1, <2>2 DEF Resume
<1> QED BY <1>1, <1>2 DEF Resume, LedgerTypeOK

LEMMA TypeTick ==
    ASSUME LedgerTypeOK, Tick
    PROVE  LedgerTypeOK'
<1>1. ASSUME NEW t \in Nat PROVE Older(t) \in Nat
  BY DEF Older
<1>2. ASSUME NEW t \in Lease PROVE OlderLease(t) \in Lease
  BY DEF OlderLease
<1>3. job' \in [Jobs -> JobRow]
  <2>1. ASSUME NEW k \in Jobs, NEW l \in Lease \cup {NULL}, NEW d \in Nat
        PROVE  [job[k] EXCEPT !.lease = l, !.retry = d] \in JobRow
    BY DEF LedgerTypeOK, JobRow
  <2>2. ASSUME NEW k \in Jobs
        PROVE  /\ Older(job[k].retry) \in Nat
               /\ (IF job[k].lease = NULL THEN NULL
                                           ELSE OlderLease(job[k].lease))
                     \in Lease \cup {NULL}
    <3>1. job[k].retry \in Nat /\ job[k].lease \in Lease \cup {NULL}
      BY DEF LedgerTypeOK, JobRow
    <3> QED BY <1>1, <1>2, <3>1
  <2> QED BY <2>1, <2>2 DEF Tick
<1>4. branch' \in [Branches -> BranchRow]
  <2>1. ASSUME NEW c \in Branches, NEW d \in Nat
        PROVE  [branch[c] EXCEPT !.eligible = d] \in BranchRow
    BY DEF LedgerTypeOK, BranchRow
  <2>2. ASSUME NEW c \in Branches PROVE Older(branch[c].eligible) \in Nat
    BY <1>1 DEF LedgerTypeOK, BranchRow
  <2> QED BY <2>1, <2>2 DEF Tick
<1>5. beat' \in [Owners -> [job : Jobs \cup {NULL}, left : Lease]]
  BY <1>2 DEF Tick, LedgerTypeOK
<1> QED BY <1>3, <1>4, <1>5 DEF Tick, LedgerTypeOK

\* Every step keeps the tables well typed.
LEMMA TypeStep ==
    ASSUME LedgerTypeOK, [LedgerNext]_ledgerVars
    PROVE  LedgerTypeOK'
<1>1. CASE UNCHANGED ledgerVars
  BY <1>1 DEF LedgerTypeOK, ledgerVars
<1>2. CASE LedgerNext
  BY <1>2, TypeSubmit, TypeStart, TypeClaimNothing, TypeHeartbeat, TypeFinish,
     TypeRecover, TypeResume, TypeTick DEF LedgerNext, ClaimNext
<1> QED BY <1>1, <1>2

\* The ledger's tables keep their types: in particular no transaction commits
\* one of the transient states RECEIVED, PLANNED or VERIFYING.
THEOREM LedgerTypeCorrect == LedgerSpec => []LedgerTypeOK
<1>1. LedgerInit => LedgerTypeOK
  BY TypeInit
<1>2. LedgerTypeOK /\ [LedgerNext]_ledgerVars => LedgerTypeOK'
  BY TypeStep
<1> QED BY <1>1, <1>2, PTL DEF LedgerSpec

-----------------------------------------------------------------------------
(* One runner per job                                                      *)

(***************************************************************************)
(* OneRunner speaks of the set of running attempts of a job.  RunnerInv is *)
(* the same attempt by attempt, which is what the steps change.            *)
(***************************************************************************)
LeaseFields(j) ==
    /\ (job[j].state = "RUNNING") <=> (job[j].owner # NULL)
    /\ (job[j].owner # NULL) <=> (job[j].lease # NULL)
    /\ (job[j].owner # NULL) <=> (job[j].current # NULL)

\* The attempt that the job of branch b is leased for.
IsRunner(b, n) ==
    /\ job[JobOf[b]].state = "RUNNING"
    /\ job[JobOf[b]].current = b
    /\ branch[b].count = n

RunnerInv ==
    /\ \A j \in Jobs : LeaseFields(j)
    /\ \A j \in Jobs :
          job[j].state = "RUNNING" =>
             /\ job[j].current \in Branches
             /\ JobOf[job[j].current] = j
             /\ branch[job[j].current].count \in 1..AttemptBound
    /\ \A b \in Branches, n \in 1..AttemptBound :
          /\ attempt[<<b, n>>].state = "RUNNING" <=> IsRunner(b, n)
          /\ attempt[<<b, n>>].state = "RUNNING" =>
                attempt[<<b, n>>].owner = job[JobOf[b]].owner

\* RunnerInv is OneRunner.
LEMMA RunnerImpliesOne ==
    ASSUME LedgerTypeOK, RunnerInv
    PROVE  OneRunner
<1> SUFFICES ASSUME NEW j \in Jobs
    PROVE  /\ LeaseFields(j)
           /\ RunningAttempts(j) =
                 IF job[j].state = "RUNNING"
                 THEN {<<job[j].current, branch[job[j].current].count>>}
                 ELSE {}
           /\ \A a \in RunningAttempts(j) : attempt[a].owner = job[j].owner
  BY DEF OneRunner, LeaseFields
<1>1. LeaseFields(j)
  BY DEF RunnerInv
<1>2. ASSUME NEW a \in RunningAttempts(j)
      PROVE  /\ job[j].state = "RUNNING"
             /\ a = <<job[j].current, branch[job[j].current].count>>
             /\ attempt[a].owner = job[j].owner
  BY <1>2 DEF RunningAttempts, AttemptsOf, AttemptIds, RunnerInv, IsRunner
<1>3. ASSUME job[j].state = "RUNNING"
      PROVE  <<job[j].current, branch[job[j].current].count>>
                \in RunningAttempts(j)
  BY <1>3 DEF RunningAttempts, AttemptsOf, AttemptIds, RunnerInv, IsRunner
<1> QED BY <1>1, <1>2, <1>3

\* A step that starts and ends no attempt, moves no lease and lets no job
\* succeed: submission, fruitless claims, heartbeats, resume and the clock.
Quiet ==
    /\ attempt' = attempt
    /\ \A b \in Branches : branch'[b].count = branch[b].count
    /\ \A k \in Jobs :
          /\ (job'[k].state = "RUNNING") <=> (job[k].state = "RUNNING")
          /\ (job'[k].state = "SUCCEEDED") <=> (job[k].state = "SUCCEEDED")
          /\ job'[k].owner = job[k].owner
          /\ job'[k].current = job[k].current
          /\ (job'[k].lease = NULL) <=> (job[k].lease = NULL)

LEMMA RunnerQuiet ==
    ASSUME LedgerTypeOK, RunnerInv, Quiet
    PROVE  RunnerInv'
<1>1. ASSUME NEW b \in Branches PROVE JobOf[b] \in Jobs
  BY LedgerAssumption
<1>2. \A k \in Jobs : LeaseFields(k)'
  BY DEF RunnerInv, LeaseFields, Quiet
<1>3. ASSUME NEW j \in Jobs, job'[j].state = "RUNNING"
      PROVE  /\ job'[j].current \in Branches
             /\ JobOf[job'[j].current] = j
             /\ branch'[job'[j].current].count \in 1..AttemptBound
  BY <1>3 DEF RunnerInv, Quiet
<1>4. ASSUME NEW b \in Branches, NEW n \in 1..AttemptBound
      PROVE  /\ attempt'[<<b, n>>].state = "RUNNING" <=> IsRunner(b, n)'
             /\ attempt'[<<b, n>>].state = "RUNNING" =>
                   attempt'[<<b, n>>].owner = job'[JobOf[b]].owner
  BY <1>1 DEF RunnerInv, IsRunner, Quiet
<1> QED BY <1>2, <1>3, <1>4 DEF RunnerInv

\* What finish_attempt does to the lease and to the attempts, whatever the
\* result was.
LeaseReturned(a) ==
    /\ \A k \in Jobs \ {JobOf[a[1]]} : job'[k] = job[k]
    /\ job'[JobOf[a[1]]].owner = NULL
    /\ job'[JobOf[a[1]]].lease = NULL
    /\ job'[JobOf[a[1]]].current = NULL
    /\ job'[JobOf[a[1]]].state \notin {"RUNNING", "ABSENT"}
    /\ (job'[JobOf[a[1]]].state = "SUCCEEDED")
          <=> (attempt'[a].state = "VERIFIED")
    /\ \A b \in Branches : branch'[b].count = branch[b].count
    /\ \A x \in AttemptIds \ {a} : attempt'[x] = attempt[x]
    /\ attempt'[a].state \notin {"RUNNING", "ABSENT"}

LEMMA FinishReturnsLease ==
    ASSUME LedgerTypeOK, NEW s \in Owners, NEW a \in AttemptIds,
           FinishAttempt(s, a)
    PROVE  MayFinish(s, a) /\ LeaseReturned(a)
<1> DEFINE b == a[1]
<1> DEFINE j == JobOf[b]
<1>1. b \in Branches /\ j \in Jobs
  BY LedgerAssumption DEF AttemptIds
<1> DEFINE row == Released(job[j])
<1>2. row \in JobRow /\ row.owner = NULL /\ row.lease = NULL
      /\ row.current = NULL
  BY <1>1, ReleasedType DEF LedgerTypeOK, Released, JobRow
<1> HIDE DEF row
<1>3. ASSUME NEW state, NEW x, NEW d,
             NEW r \in {[row EXCEPT !.state = state],
                        [row EXCEPT !.state = state, !.boundary = x],
                        [row EXCEPT !.state = state, !.retry = d]}
      PROVE  r.owner = NULL /\ r.lease = NULL /\ r.current = NULL
             /\ r.state = state
  BY <1>2, <1>3 DEF JobRow
<1>4. ASSUME NEW state, NEW x, NEW d, NEW f,
             NEW r \in {[branch[b] EXCEPT !.state = state],
                        [branch[b] EXCEPT !.state = state, !.boundary = x],
                        [branch[b] EXCEPT !.state = state, !.eligible = d],
                        [branch[b] EXCEPT !.state = state, !.failure = f],
                        [branch[b] EXCEPT !.state = state, !.eligible = d,
                                          !.failure = f]}
      PROVE  r.count = branch[b].count
  BY <1>1, <1>4 DEF LedgerTypeOK, BranchRow
<1>5. ASSUME NEW state
      PROVE  [attempt[a] EXCEPT !.state = state, !.receipt = TRUE].state = state
  BY DEF LedgerTypeOK, AttemptRow
<1>6. ASSUME NEW r, NEW q, NEW state,
             job' = [job EXCEPT ![j] = r],
             branch' = [branch EXCEPT ![b] = q],
             CloseAttempt(a, state),
             r.owner = NULL, r.lease = NULL, r.current = NULL,
             r.state \notin {"RUNNING", "ABSENT"},
             q.count = branch[b].count,
             state \notin {"RUNNING", "ABSENT"},
             (r.state = "SUCCEEDED") <=> (state = "VERIFIED")
      PROVE  LeaseReturned(a)
  <2>1. job'[j] = r /\ \A k \in Jobs \ {j} : job'[k] = job[k]
    BY <1>1, <1>6 DEF LedgerTypeOK
  <2>2. \A c \in Branches : branch'[c].count = branch[c].count
    BY <1>1, <1>6 DEF LedgerTypeOK
  <2>3. /\ attempt'[a].state = state
        /\ \A x \in AttemptIds \ {a} : attempt'[x] = attempt[x]
    BY <1>5, <1>6 DEF CloseAttempt, LedgerTypeOK
  <2> QED BY <1>6, <2>1, <2>2, <2>3 DEF LeaseReturned
<1>7. ASSUME NEW hasRef, FinishVerified(s, a, hasRef)
      PROVE  MayFinish(s, a) /\ LeaseReturned(a)
  <2> DEFINE r == [row EXCEPT !.state = "SUCCEEDED", !.boundary = FALSE]
  <2> DEFINE q == [branch[b] EXCEPT !.state = "SUCCEEDED"]
  <2>1. /\ r.owner = NULL /\ r.lease = NULL /\ r.current = NULL
        /\ r.state = "SUCCEEDED" /\ q.count = branch[b].count
    BY <1>3, <1>4
  <2>2. /\ MayFinish(s, a)
        /\ job' = [job EXCEPT ![j] = r] /\ branch' = [branch EXCEPT ![b] = q]
        /\ CloseAttempt(a, "VERIFIED")
    BY <1>7 DEF FinishVerified, row
  <2> HIDE DEF r, q
  <2> QED BY <1>6, <2>1, <2>2
<1>8. ASSUME FinishHumanRequired(s, a)
      PROVE  MayFinish(s, a) /\ LeaseReturned(a)
  <2> DEFINE r == [row EXCEPT !.state = "BLOCKED_HUMAN", !.boundary = TRUE]
  <2> DEFINE q == [branch[b] EXCEPT !.state = "BLOCKED_HUMAN",
                                    !.boundary = TRUE]
  <2>1. /\ r.owner = NULL /\ r.lease = NULL /\ r.current = NULL
        /\ r.state = "BLOCKED_HUMAN" /\ q.count = branch[b].count
    BY <1>3, <1>4
  <2>2. /\ MayFinish(s, a)
        /\ job' = [job EXCEPT ![j] = r] /\ branch' = [branch EXCEPT ![b] = q]
        /\ CloseAttempt(a, "BLOCKED_HUMAN")
    BY <1>8 DEF FinishHumanRequired, row
  <2> HIDE DEF r, q
  <2> QED BY <1>6, <2>1, <2>2
<1>9. ASSUME NEW delay, FinishWaiting(s, a, delay)
      PROVE  MayFinish(s, a) /\ LeaseReturned(a)
  <2> DEFINE r == [row EXCEPT !.state = "WAITING", !.retry = delay]
  <2> DEFINE q == [branch[b] EXCEPT !.state = "WAITING", !.eligible = delay]
  <2>1. /\ r.owner = NULL /\ r.lease = NULL /\ r.current = NULL
        /\ r.state = "WAITING" /\ q.count = branch[b].count
    BY <1>3, <1>4
  <2>2. /\ MayFinish(s, a)
        /\ job' = [job EXCEPT ![j] = r] /\ branch' = [branch EXCEPT ![b] = q]
        /\ CloseAttempt(a, "WAITING")
    BY <1>9 DEF FinishWaiting, row
  <2> HIDE DEF r, q
  <2> QED BY <1>6, <2>1, <2>2
<1>10. ASSUME NEW permits, NEW failure, NEW transient, NEW delay,
              FinishRetry(s, a, permits, failure, transient, delay)
       PROVE  MayFinish(s, a) /\ LeaseReturned(a)
  <2> DEFINE r == [row EXCEPT !.state = "RETRYING", !.retry = delay]
  <2> DEFINE q == [branch[b] EXCEPT !.state = "RETRYABLE", !.eligible = delay,
                                    !.failure = failure]
  <2>1. /\ r.owner = NULL /\ r.lease = NULL /\ r.current = NULL
        /\ r.state = "RETRYING" /\ q.count = branch[b].count
    BY <1>3, <1>4
  <2>2. /\ MayFinish(s, a)
        /\ job' = [job EXCEPT ![j] = r] /\ branch' = [branch EXCEPT ![b] = q]
        /\ CloseAttempt(a, "FAILED")
    BY <1>10 DEF FinishRetry, row
  <2> HIDE DEF r, q
  <2> QED BY <1>6, <2>1, <2>2
<1>11. ASSUME NEW permits, NEW failure, NEW transient, NEW refused,
              NEW rejected,
              FinishQuarantine(s, a, permits, failure, transient, refused,
                               rejected)
       PROVE  MayFinish(s, a) /\ LeaseReturned(a)
  <2> DEFINE r == IF Alternates(b) # {}
                  THEN [row EXCEPT !.state = "RECOVERING", !.retry = 0]
                  ELSE [row EXCEPT !.state = "FAILED_FINAL"]
  <2> DEFINE q == [branch[b] EXCEPT !.state = "QUARANTINED",
                                    !.failure = failure]
  <2> DEFINE end == IF rejected THEN "REJECTED" ELSE "FAILED"
  <2>1. /\ r.owner = NULL /\ r.lease = NULL /\ r.current = NULL
        /\ r.state \in {"RECOVERING", "FAILED_FINAL"}
        /\ q.count = branch[b].count
    BY <1>3, <1>4
  <2>2. /\ MayFinish(s, a)
        /\ job' = [job EXCEPT ![j] = r] /\ branch' = [branch EXCEPT ![b] = q]
        /\ CloseAttempt(a, end)
    BY <1>11 DEF FinishQuarantine, row
  <2>3. end \in {"REJECTED", "FAILED"}
    OBVIOUS
  <2> HIDE DEF r, q, end
  <2> QED BY <1>6, <2>1, <2>2, <2>3
<1> QED BY <1>7, <1>8, <1>9, <1>10, <1>11 DEF FinishAttempt

LEMMA RunnerFinish ==
    ASSUME LedgerTypeOK, RunnerInv, NEW s \in Owners, NEW a \in AttemptIds,
           MayFinish(s, a), LeaseReturned(a)
    PROVE  RunnerInv'
<1> DEFINE b == a[1]
<1> DEFINE j == JobOf[b]
<1>1. /\ b \in Branches /\ a[2] \in 1..AttemptBound /\ a = <<b, a[2]>>
      /\ j \in Jobs
  BY LedgerAssumption DEF AttemptIds
<1>2. attempt[a].state = "RUNNING" /\ job[j].current = b
      /\ branch[b].count = a[2]
  BY <1>1 DEF MayFinish, RunnerInv, IsRunner
<1>3. \A k \in Jobs : LeaseFields(k)'
  BY DEF RunnerInv, LeaseFields, LeaseReturned
<1>4. ASSUME NEW k \in Jobs, job'[k].state = "RUNNING"
      PROVE  /\ job'[k].current \in Branches
             /\ JobOf[job'[k].current] = k
             /\ branch'[job'[k].current].count \in 1..AttemptBound
  BY <1>4 DEF RunnerInv, LeaseReturned
<1>5. ASSUME NEW c \in Branches, NEW n \in 1..AttemptBound
      PROVE  /\ attempt'[<<c, n>>].state = "RUNNING" <=> IsRunner(c, n)'
             /\ attempt'[<<c, n>>].state = "RUNNING" =>
                   attempt'[<<c, n>>].owner = job'[JobOf[c]].owner
  <2>1. JobOf[c] \in Jobs /\ <<c, n>> \in AttemptIds
    BY LedgerAssumption DEF AttemptIds
  <2>2. CASE JobOf[c] # j
    <3>1. <<c, n>> # a
      BY <1>1, <2>2
    <3> QED BY <2>1, <2>2, <3>1 DEF RunnerInv, IsRunner, LeaseReturned
  <2>3. CASE JobOf[c] = j
    <3>1. ~IsRunner(c, n)'
      BY <2>3 DEF IsRunner, LeaseReturned
    <3>2. attempt'[<<c, n>>].state # "RUNNING"
      BY <1>1, <1>2, <2>1, <2>3 DEF RunnerInv, IsRunner, LeaseReturned
    <3> QED BY <3>1, <3>2
  <2> QED BY <2>2, <2>3
<1> QED BY <1>3, <1>4, <1>5 DEF RunnerInv

\* Parking keeps the lease columns, and a parked job does not run.
LEMMA ParkKeepsLease ==
    ASSUME LedgerTypeOK, NEW j \in Jobs
    PROVE  /\ Park(j).owner = job[j].owner
           /\ Park(j).lease = job[j].lease
           /\ Park(j).current = job[j].current
           /\ Park(j).state \in {"WAITING", "BLOCKED_HUMAN"}
BY DEF Park, LedgerTypeOK, JobRow

\* A job that claim_next looks at neither runs nor succeeded.
LEMMA ReadyIsIdle ==
    ASSUME NEW j \in ReadyNow
    PROVE  j \in Jobs /\ job[j].state \notin {"RUNNING", "SUCCEEDED"}
BY DEF ReadyNow, Due

LEMMA QuietSubmit ==
    ASSUME LedgerTypeOK, RunnerInv, NEW j \in Jobs, Submit(j)
    PROVE  Quiet
<1>1. ASSUME NEW d
      PROVE  LET r == [job[j] EXCEPT !.state = "READY", !.created = d] IN
             r.owner = job[j].owner /\ r.lease = job[j].lease
             /\ r.current = job[j].current /\ r.state = "READY"
  BY DEF LedgerTypeOK, JobRow
<1>2. ASSUME NEW k \in Jobs
      PROVE  /\ (job'[k].state = "RUNNING") <=> (job[k].state = "RUNNING")
             /\ (job'[k].state = "SUCCEEDED") <=> (job[k].state = "SUCCEEDED")
             /\ job'[k].owner = job[k].owner
             /\ job'[k].current = job[k].current
             /\ (job'[k].lease = NULL) <=> (job[k].lease = NULL)
  BY <1>1 DEF Submit, LedgerTypeOK
<1>3. ASSUME NEW b \in Branches PROVE branch'[b].count = branch[b].count
  BY DEF Submit, LedgerTypeOK, BranchRow
<1>4. attempt' = attempt
  BY DEF Submit
<1> QED BY <1>2, <1>3, <1>4 DEF Quiet

LEMMA QuietClaimNothing ==
    ASSUME LedgerTypeOK, RunnerInv, ClaimNothing
    PROVE  Quiet
<1>1. ASSUME NEW k \in Jobs
      PROVE  /\ (job'[k].state = "RUNNING") <=> (job[k].state = "RUNNING")
             /\ (job'[k].state = "SUCCEEDED") <=> (job[k].state = "SUCCEEDED")
             /\ job'[k].owner = job[k].owner
             /\ job'[k].current = job[k].current
             /\ (job'[k].lease = NULL) <=> (job[k].lease = NULL)
  BY ParkKeepsLease, ReadyIsIdle DEF ClaimNothing
<1>2. branch' = branch /\ attempt' = attempt
  BY DEF ClaimNothing
<1> QED BY <1>1, <1>2 DEF Quiet

\* A heartbeat writes a lease only where there is one: its owner still holds
\* the job, so the job runs.
LEMMA QuietHeartbeat ==
    ASSUME LedgerTypeOK, RunnerInv, NEW s \in Owners,
           \/ \E a \in AttemptIds : HeartbeatRead(s, a)
           \/ HeartbeatWrite(s)
           \/ HeartbeatLost(s)
    PROVE  Quiet
<1>1. branch' = branch /\ attempt' = attempt
  BY DEF HeartbeatRead, HeartbeatWrite, HeartbeatLost
<1>2. CASE job' = job
  BY <1>1, <1>2 DEF Quiet
<1>3. CASE HeartbeatWrite(s)
  <2> DEFINE j == beat[s].job
  <2>1. j \in Jobs /\ beat[s].left \in Lease /\ beat[s].left # NULL
    BY <1>3, NullAssumption DEF HeartbeatWrite, LedgerTypeOK
  <2>2. CASE job[j].owner = s
    <3>1. LET r == [job[j] EXCEPT !.lease = beat[s].left] IN
          r.owner = job[j].owner /\ r.current = job[j].current
          /\ r.state = job[j].state /\ r.lease = beat[s].left
      BY <2>1 DEF LedgerTypeOK, JobRow
    <3>2. job[j].lease # NULL
      BY <2>1, <2>2, NullAssumption DEF RunnerInv, LeaseFields
    <3>3. ASSUME NEW k \in Jobs
          PROVE  /\ (job'[k].state = "RUNNING") <=> (job[k].state = "RUNNING")
                 /\ (job'[k].state = "SUCCEEDED")
                       <=> (job[k].state = "SUCCEEDED")
                 /\ job'[k].owner = job[k].owner
                 /\ job'[k].current = job[k].current
                 /\ (job'[k].lease = NULL) <=> (job[k].lease = NULL)
      BY <1>3, <2>1, <2>2, <3>1, <3>2 DEF HeartbeatWrite, LedgerTypeOK
    <3> QED BY <1>1, <3>3 DEF Quiet
  <2>3. CASE job[j].owner # s
    BY <1>2, <1>3, <2>3 DEF HeartbeatWrite
  <2> QED BY <2>2, <2>3
<1> QED BY <1>2, <1>3 DEF HeartbeatRead, HeartbeatLost

LEMMA QuietResume ==
    ASSUME LedgerTypeOK, RunnerInv, NEW j \in Jobs, NEW dimension \in Dimensions,
           Resume(j, dimension)
    PROVE  Quiet
<1>1. LET r == [job[j] EXCEPT !.state = "READY", !.boundary = FALSE,
                              !.retry = 0, !.inspect = FALSE] IN
      r.owner = job[j].owner /\ r.lease = job[j].lease
      /\ r.current = job[j].current /\ r.state = "READY"
  BY DEF LedgerTypeOK, JobRow
<1>2. job[j].state \notin {"RUNNING", "SUCCEEDED"}
  BY DEF Resume
<1>3. ASSUME NEW k \in Jobs
      PROVE  /\ (job'[k].state = "RUNNING") <=> (job[k].state = "RUNNING")
             /\ (job'[k].state = "SUCCEEDED") <=> (job[k].state = "SUCCEEDED")
             /\ job'[k].owner = job[k].owner
             /\ job'[k].current = job[k].current
             /\ (job'[k].lease = NULL) <=> (job[k].lease = NULL)
  BY <1>1, <1>2 DEF Resume, LedgerTypeOK
<1>4. ASSUME NEW b \in Branches PROVE branch'[b].count = branch[b].count
  <2> DEFINE x == branch[b].boundary /\ dimension # "authority"
  <2> DEFINE y == branch[b].auth \/ dimension = "authority"
  <2> DEFINE z == branch[b].deps \/ dimension = "dependency"
  <2>1. branch'[b] \in
           {branch[b],
            [branch[b] EXCEPT !.state = "CANDIDATE", !.eligible = 0,
                              !.boundary = x, !.auth = y, !.deps = z]}
    BY Zenon DEF Resume
  <2> HIDE DEF x, y, z
  <2>2. [branch[b] EXCEPT !.state = "CANDIDATE", !.eligible = 0,
            !.boundary = x, !.auth = y, !.deps = z].count = branch[b].count
    BY DEF LedgerTypeOK, BranchRow
  <2> QED BY <2>1, <2>2, Zenon
<1>5. attempt' = attempt
  BY DEF Resume
<1> QED BY <1>3, <1>4, <1>5 DEF Quiet

LEMMA QuietTick ==
    ASSUME LedgerTypeOK, RunnerInv, Tick
    PROVE  Quiet
<1>1. ASSUME NEW t \in Lease PROVE OlderLease(t) # NULL
  BY NullAssumption DEF OlderLease
<1>2. ASSUME NEW k \in Jobs
      PROVE  /\ (job'[k].state = "RUNNING") <=> (job[k].state = "RUNNING")
             /\ (job'[k].state = "SUCCEEDED") <=> (job[k].state = "SUCCEEDED")
             /\ job'[k].owner = job[k].owner
             /\ job'[k].current = job[k].current
             /\ (job'[k].lease = NULL) <=> (job[k].lease = NULL)
  <2>1. ASSUME NEW l, NEW d
        PROVE  LET r == [job[k] EXCEPT !.lease = l, !.retry = d] IN
               r.state = job[k].state /\ r.owner = job[k].owner
               /\ r.current = job[k].current /\ r.lease = l
    BY DEF LedgerTypeOK, JobRow
  <2>2. job[k].lease \in Lease \cup {NULL}
    BY DEF LedgerTypeOK, JobRow
  <2> DEFINE l == IF job[k].lease = NULL THEN NULL ELSE OlderLease(job[k].lease)
  <2>3. job'[k] = [job[k] EXCEPT !.lease = l, !.retry = Older(job[k].retry)]
    BY DEF Tick
  <2>4. (l = NULL) <=> (job[k].lease = NULL)
    BY <1>1, <2>2
  <2> HIDE DEF l
  <2> QED BY <2>1, <2>3, <2>4
<1>3. ASSUME NEW b \in Branches PROVE branch'[b].count = branch[b].count
  <2>1. ASSUME NEW d
        PROVE  [branch[b] EXCEPT !.eligible = d].count = branch[b].count
    BY DEF LedgerTypeOK, BranchRow
  <2> QED BY <2>1 DEF Tick
<1>4. attempt' = attempt
  BY DEF Tick
<1> QED BY <1>2, <1>3, <1>4 DEF Quiet

\* What starting an attempt on branch b of job j does.
Started(s, j, b, n) ==
    /\ JobOf[b] = j /\ job[j].state \notin {"RUNNING", "SUCCEEDED"}
    /\ n \in 1..AttemptBound
    /\ n = branch[b].count + 1 /\ n <= MaxAttempts[b]
    /\ Unblocked(b) /\ OpOf[b] \notin quarantine
    /\ job'[j].state = "RUNNING" /\ job'[j].owner = s
    /\ job'[j].current = b /\ job'[j].lease \in Lease
    /\ \A k \in Jobs \ {j} :
          /\ (job'[k].state = "RUNNING") <=> (job[k].state = "RUNNING")
          /\ (job'[k].state = "SUCCEEDED") <=> (job[k].state = "SUCCEEDED")
          /\ job'[k].owner = job[k].owner
          /\ job'[k].current = job[k].current
          /\ job'[k].lease = job[k].lease
    /\ branch'[b].count = n
    /\ \A c \in Branches \ {b} : branch'[c] = branch[c]
    /\ attempt'[<<b, n>>] =
          [state |-> "RUNNING", owner |-> s, receipt |-> FALSE]
    /\ \A x \in AttemptIds \ {<<b, n>>} : attempt'[x] = attempt[x]

LEMMA StartEffect ==
    ASSUME LedgerTypeOK, NEW s \in Owners, NEW j \in Jobs, NEW b \in Branches,
           NEW lag \in 0..MaxLag, StartAttempt(s, j, b, lag)
    PROVE  Started(s, j, b, branch[b].count + 1)
<1>1. j \in ReadyNow /\ b \in Eligible(j)
  BY DEF StartAttempt
<1>2. JobOf[b] = j /\ job[j].state \notin {"RUNNING", "SUCCEEDED"}
  BY <1>1, ReadyIsIdle DEF Eligible, Candidates, BranchesOf
<1>3. branch[b].count \in Nat /\ branch[b].count < MaxAttempts[b]
  BY <1>1 DEF Eligible, Candidates, AttemptsRemain, LedgerTypeOK, BranchRow
<1>11. Unblocked(b) /\ OpOf[b] \notin quarantine
  BY <1>1 DEF Eligible, Selected, Survivors, Quarantined
<1>4. branch[b].count + 1 \in 1..AttemptBound
  <2>1. AttemptBound \in Nat /\ MaxAttempts[b] \in 1..AttemptBound
    BY LedgerAssumption
  <2> QED BY <1>3, <2>1
<1>5. /\ job'[j].state = "RUNNING" /\ job'[j].owner = s
      /\ job'[j].current = b /\ job'[j].lease \in Lease
  <2>1. job[j] \in JobRow
    BY DEF LedgerTypeOK
  <2>2. job'[j] = [job[j] EXCEPT !.state = "RUNNING", !.owner = s,
                                 !.lease = Left(JobLease, lag),
                                 !.current = b, !.inspect = FALSE]
    BY DEF StartAttempt
  <2> QED BY <2>1, <2>2, LeftType DEF JobRow
<1>6. ASSUME NEW k \in Jobs \ {j}
      PROVE  /\ (job'[k].state = "RUNNING") <=> (job[k].state = "RUNNING")
             /\ (job'[k].state = "SUCCEEDED") <=> (job[k].state = "SUCCEEDED")
             /\ job'[k].owner = job[k].owner
             /\ job'[k].current = job[k].current
             /\ job'[k].lease = job[k].lease
  <2>1. CASE k \notin ReadyNow
    BY <2>1 DEF StartAttempt
  <2>2. CASE k \in ReadyNow /\ Before(k, j)
    <3>1. job'[k] = Park(k)
      BY <2>2 DEF StartAttempt
    <3> QED BY <2>2, <3>1, ParkKeepsLease, ReadyIsIdle
  <2>3. CASE k \in ReadyNow /\ ~Before(k, j)
    <3>1. job'[k] = [job[k] EXCEPT !.state = "READY"]
      BY <2>3 DEF StartAttempt
    <3>2. job[k] \in JobRow
      BY DEF LedgerTypeOK
    <3> QED BY <2>3, <3>1, <3>2, ReadyIsIdle DEF JobRow
  <2> QED BY <2>1, <2>2, <2>3
<1>7. /\ branch'[b].count = branch[b].count + 1
      /\ \A c \in Branches \ {b} : branch'[c] = branch[c]
  BY DEF StartAttempt, LedgerTypeOK, BranchRow
<1>8. <<b, branch[b].count + 1>> \in AttemptIds
  BY <1>4 DEF AttemptIds
<1>9. /\ attempt'[<<b, branch[b].count + 1>>] =
            [state |-> "RUNNING", owner |-> s, receipt |-> FALSE]
      /\ \A x \in AttemptIds \ {<<b, branch[b].count + 1>>} :
            attempt'[x] = attempt[x]
  BY <1>8 DEF StartAttempt, LedgerTypeOK
<1>10. branch[b].count + 1 <= MaxAttempts[b]
  <2>1. MaxAttempts[b] \in Nat
    BY LedgerAssumption
  <2> QED BY <1>3, <2>1
<1> QED BY <1>2, <1>4, <1>5, <1>6, <1>7, <1>9, <1>10, <1>11 DEF Started

LEMMA RunnerStart ==
    ASSUME LedgerTypeOK, RunnerInv, NEW s \in Owners, NEW j \in Jobs,
           NEW b \in Branches, NEW n \in 1..AttemptBound, Started(s, j, b, n)
    PROVE  RunnerInv'
<1>1. /\ JobOf[b] = j /\ job[j].state # "RUNNING"
      /\ n \in 1..AttemptBound
      /\ job'[j].state = "RUNNING" /\ job'[j].owner = s
      /\ job'[j].current = b /\ job'[j].lease \in Lease
      /\ branch'[b].count = n
      /\ attempt'[<<b, n>>].state = "RUNNING" /\ attempt'[<<b, n>>].owner = s
  BY DEF Started
<1>2. \A k \in Jobs \ {j} :
         /\ (job'[k].state = "RUNNING") <=> (job[k].state = "RUNNING")
         /\ job'[k].owner = job[k].owner
         /\ job'[k].current = job[k].current
         /\ job'[k].lease = job[k].lease
  BY DEF Started
<1>3. /\ \A c \in Branches \ {b} : branch'[c] = branch[c]
      /\ \A x \in AttemptIds \ {<<b, n>>} : attempt'[x] = attempt[x]
  BY DEF Started
<1>4. ASSUME NEW k \in Jobs PROVE LeaseFields(k)'
  <2>1. CASE k = j
    <3>1. s # NULL /\ b # NULL /\ job'[j].lease # NULL
      BY <1>1, NullAssumption
    <3> QED BY <1>1, <2>1, <3>1 DEF LeaseFields
  <2>2. CASE k # j
    BY <1>2, <2>2 DEF LeaseFields, RunnerInv
  <2> QED BY <2>1, <2>2
<1>5. ASSUME NEW k \in Jobs, job'[k].state = "RUNNING"
      PROVE  /\ job'[k].current \in Branches
             /\ JobOf[job'[k].current] = k
             /\ branch'[job'[k].current].count \in 1..AttemptBound
  <2>1. CASE k = j
    BY <1>1, <2>1
  <2>2. CASE k # j
    <3>1. /\ job[k].current \in Branches /\ JobOf[job[k].current] = k
          /\ branch[job[k].current].count \in 1..AttemptBound
      BY <1>2, <1>5, <2>2 DEF RunnerInv
    <3>2. job[k].current # b
      BY <1>1, <2>2, <3>1
    <3> QED BY <1>2, <1>3, <2>2, <3>1, <3>2
  <2> QED BY <2>1, <2>2
<1>6. ASSUME NEW c \in Branches, NEW m \in 1..AttemptBound
      PROVE  /\ attempt'[<<c, m>>].state = "RUNNING" <=> IsRunner(c, m)'
             /\ attempt'[<<c, m>>].state = "RUNNING" =>
                   attempt'[<<c, m>>].owner = job'[JobOf[c]].owner
  <2>1. JobOf[c] \in Jobs /\ <<c, m>> \in AttemptIds
    BY LedgerAssumption DEF AttemptIds
  <2>2. CASE JobOf[c] # j
    <3>1. c # b /\ <<c, m>> # <<b, n>>
      BY <1>1, <2>2
    <3> QED BY <1>2, <1>3, <2>1, <2>2, <3>1 DEF RunnerInv, IsRunner
  <2>3. CASE JobOf[c] = j /\ <<c, m>> # <<b, n>>
    <3>1. attempt'[<<c, m>>].state # "RUNNING"
      BY <1>1, <1>3, <2>1, <2>3 DEF RunnerInv, IsRunner
    <3>2. ~IsRunner(c, m)'
      BY <1>1, <2>3 DEF IsRunner
    <3> QED BY <3>1, <3>2
  <2>4. CASE <<c, m>> = <<b, n>>
    <3>1. c = b /\ m = n
      BY <2>4
    <3> QED BY <1>1, <3>1 DEF IsRunner
  <2> QED BY <2>2, <2>3, <2>4, <1>1
<1> QED BY <1>4, <1>5, <1>6 DEF RunnerInv

\* What recovery does: it takes the lease of every stale job and abandons
\* every attempt that ran under one.
Recovered ==
    /\ \A k \in Jobs :
          IF Stale(k)
          THEN /\ job'[k].owner = NULL /\ job'[k].lease = NULL
               /\ job'[k].current = NULL
               /\ job'[k].state \in {"RECOVERING", "FAILED_FINAL"}
          ELSE job'[k] = job[k]
    /\ \A b \in Branches : branch'[b].count = branch[b].count
    /\ \A x \in AttemptIds :
          IF Stale(JobOf[x[1]]) /\ attempt[x].state = "RUNNING"
          THEN attempt'[x].state = "ABANDONED"
          ELSE attempt'[x] = attempt[x]

LEMMA RecoverEffect ==
    ASSUME LedgerTypeOK, RunnerInv, RecoverStaleAttempts
    PROVE  Recovered
<1>1. ASSUME NEW k \in Jobs
      PROVE  IF Stale(k)
             THEN /\ job'[k].owner = NULL /\ job'[k].lease = NULL
                  /\ job'[k].current = NULL
                  /\ job'[k].state \in {"RECOVERING", "FAILED_FINAL"}
             ELSE job'[k] = job[k]
  <2> DEFINE row == Released(job[k])
  <2>1. row \in JobRow /\ row.owner = NULL /\ row.lease = NULL
        /\ row.current = NULL
    BY ReleasedType DEF LedgerTypeOK, Released, JobRow
  <2>2. IF Stale(k)
        THEN job'[k] \in {[row EXCEPT !.state = "RECOVERING", !.retry = 0],
                          [row EXCEPT !.state = "FAILED_FINAL"]}
        ELSE job'[k] = job[k]
    BY DEF RecoverStaleAttempts
  <2> HIDE DEF row
  <2> QED BY <2>1, <2>2 DEF JobRow
<1>2. ASSUME NEW b \in Branches PROVE branch'[b].count = branch[b].count
  <2>1. branch'[b] \in {branch[b], [branch[b] EXCEPT !.state = "RETRYABLE",
                                                     !.eligible = 0]}
    BY DEF RecoverStaleAttempts
  <2> QED BY <2>1 DEF LedgerTypeOK, BranchRow
<1>3. ASSUME NEW x \in AttemptIds
      PROVE  IF Stale(JobOf[x[1]]) /\ attempt[x].state = "RUNNING"
             THEN attempt'[x].state = "ABANDONED"
             ELSE attempt'[x] = attempt[x]
  <2> DEFINE stale == {j \in Jobs : Stale(j)}
  <2> DEFINE lost == {CHOOSE a \in RunningAttempts(j) : TRUE :
                         j \in {k \in stale : RunningAttempts(k) # {}}}
  <2>1. JobOf[x[1]] \in Jobs
    BY LedgerAssumption DEF AttemptIds
  <2>2. ASSUME NEW a \in lost
        PROVE  /\ a \in AttemptIds /\ Stale(JobOf[a[1]])
               /\ attempt[a].state = "RUNNING"
    <3>1. PICK j \in stale : /\ RunningAttempts(j) # {}
                             /\ a = CHOOSE y \in RunningAttempts(j) : TRUE
      OBVIOUS
    <3>2. a \in RunningAttempts(j)
      BY <3>1
    <3> QED BY <3>2 DEF RunningAttempts, AttemptsOf
  <2>3. ASSUME Stale(JobOf[x[1]]), attempt[x].state = "RUNNING"
        PROVE  x \in lost
    <3> DEFINE j == JobOf[x[1]]
    <3>1. x \in RunningAttempts(j)
      BY <2>3 DEF RunningAttempts, AttemptsOf
    <3>2. \A y, z \in RunningAttempts(j) : y = z
      BY <2>1, RunnerImpliesOne DEF OneRunner
    <3>3. (CHOOSE y \in RunningAttempts(j) : TRUE) = x
      BY <3>1, <3>2
    <3> QED BY <2>1, <2>3, <3>1, <3>3
  <2>4. attempt'[x] = IF x \in lost
                      THEN [attempt[x] EXCEPT !.state = "ABANDONED"]
                      ELSE attempt[x]
    BY DEF RecoverStaleAttempts
  <2>5. [attempt[x] EXCEPT !.state = "ABANDONED"].state = "ABANDONED"
    BY DEF LedgerTypeOK, AttemptRow
  <2> HIDE DEF lost
  <2> QED BY <2>2, <2>3, <2>4, <2>5
<1> QED BY <1>1, <1>2, <1>3 DEF Recovered

LEMMA RunnerRecover ==
    ASSUME LedgerTypeOK, RunnerInv, Recovered
    PROVE  RunnerInv'
<1>1. ASSUME NEW k \in Jobs PROVE LeaseFields(k)'
  BY DEF Recovered, LeaseFields, RunnerInv
<1>2. ASSUME NEW k \in Jobs, job'[k].state = "RUNNING"
      PROVE  /\ job'[k].current \in Branches
             /\ JobOf[job'[k].current] = k
             /\ branch'[job'[k].current].count \in 1..AttemptBound
  BY <1>2 DEF Recovered, RunnerInv
<1>3. ASSUME NEW b \in Branches, NEW n \in 1..AttemptBound
      PROVE  /\ attempt'[<<b, n>>].state = "RUNNING" <=> IsRunner(b, n)'
             /\ attempt'[<<b, n>>].state = "RUNNING" =>
                   attempt'[<<b, n>>].owner = job'[JobOf[b]].owner
  <2>1. JobOf[b] \in Jobs /\ <<b, n>> \in AttemptIds
    BY LedgerAssumption DEF AttemptIds
  <2>2. CASE Stale(JobOf[b])
    BY <2>1, <2>2 DEF Recovered, IsRunner
  <2>3. CASE ~Stale(JobOf[b])
    BY <2>1, <2>3 DEF Recovered, RunnerInv, IsRunner
  <2> QED BY <2>2, <2>3
<1> QED BY <1>1, <1>2, <1>3 DEF RunnerInv

\* Initially nothing runs.
LEMMA RunnerInit == LedgerInit => RunnerInv
<1> SUFFICES ASSUME LedgerInit PROVE RunnerInv
  OBVIOUS
<1>1. ASSUME NEW k \in Jobs
      PROVE  LeaseFields(k) /\ job[k].state # "RUNNING"
  BY DEF LedgerInit, LeaseFields
<1>2. ASSUME NEW b \in Branches, NEW n \in 1..AttemptBound
      PROVE  attempt[<<b, n>>].state # "RUNNING" /\ ~IsRunner(b, n)
  <2>1. JobOf[b] \in Jobs /\ <<b, n>> \in AttemptIds
    BY LedgerAssumption DEF AttemptIds
  <2> QED BY <1>1, <2>1 DEF LedgerInit, IsRunner
<1> QED BY <1>1, <1>2 DEF RunnerInv

\* Every step is quiet, starts one attempt, finishes one, or recovers.
LEMMA StepKinds ==
    ASSUME LedgerTypeOK, RunnerInv, [LedgerNext]_ledgerVars
    PROVE  \/ Quiet
           \/ \E s \in Owners, j \in Jobs, b \in Branches, n \in 1..AttemptBound :
                 Started(s, j, b, n)
           \/ \E s \in Owners, a \in AttemptIds :
                 MayFinish(s, a) /\ LeaseReturned(a)
           \/ Recovered
<1>1. CASE UNCHANGED ledgerVars
  BY <1>1 DEF ledgerVars, Quiet
<1>2. CASE \/ \E j \in Jobs : Submit(j)
           \/ ClaimNothing
           \/ \E s \in Owners, a \in AttemptIds : HeartbeatRead(s, a)
           \/ \E s \in Owners : HeartbeatWrite(s) \/ HeartbeatLost(s)
           \/ \E j \in Jobs, dimension \in Dimensions : Resume(j, dimension)
           \/ Tick
  BY <1>2, QuietSubmit, QuietClaimNothing, QuietHeartbeat, QuietResume,
     QuietTick
<1>3. CASE \E s \in Owners, j \in Jobs, b \in Branches, lag \in 0..MaxLag :
              StartAttempt(s, j, b, lag)
  <2>1. PICK s \in Owners, j \in Jobs, b \in Branches, lag \in 0..MaxLag :
           StartAttempt(s, j, b, lag)
    BY <1>3
  <2>2. Started(s, j, b, branch[b].count + 1)
    BY <2>1, StartEffect
  <2>3. branch[b].count + 1 \in 1..AttemptBound
    BY <2>2 DEF Started
  <2> QED BY <2>2, <2>3
<1>4. CASE \E s \in Owners, a \in AttemptIds : FinishAttempt(s, a)
  BY <1>4, FinishReturnsLease
<1>5. CASE RecoverStaleAttempts
  BY <1>5, RecoverEffect
<1> QED BY <1>1, <1>2, <1>3, <1>4, <1>5 DEF LedgerNext, ClaimNext

LEMMA RunnerStep ==
    ASSUME LedgerTypeOK, RunnerInv, [LedgerNext]_ledgerVars
    PROVE  RunnerInv'
BY StepKinds, RunnerQuiet, RunnerStart, RunnerFinish, RunnerRecover

\* RunnerInv is an invariant of the ledger, and inductive with the types.
LEMMA RunnerInvariant == LedgerSpec => []RunnerInv
<1>1. LedgerInit => RunnerInv
  BY RunnerInit
<1>2. LedgerTypeOK /\ RunnerInv /\ [LedgerNext]_ledgerVars => RunnerInv'
  BY RunnerStep
<1> QED BY <1>1, <1>2, LedgerTypeCorrect, PTL DEF LedgerSpec

\* claim_next, heartbeat_attempt, finish_attempt, recover_stale_attempts and
\* resume, called by any owners in any order, never leave a job with two
\* running attempts, nor with a running attempt that is not the leased one.
THEOREM LedgerOneRunner == LedgerSpec => []OneRunner
<1>1. LedgerTypeOK /\ RunnerInv => OneRunner
  BY RunnerImpliesOne
<1> QED BY <1>1, LedgerTypeCorrect, RunnerInvariant, PTL

-----------------------------------------------------------------------------
(* The budget, closed attempts and success                                 *)

\* attempt_count numbers the attempts of a branch without gaps and stays
\* within max_attempts, through every retry, recovery and resume.
THEOREM LedgerAttemptBudget == LedgerSpec => []AttemptBudget
<1>1. LedgerInit => AttemptBudget
  <2> SUFFICES ASSUME LedgerInit PROVE AttemptBudget
    OBVIOUS
  <2>1. ASSUME NEW b \in Branches
        PROVE  branch[b].count = 0 /\ MaxAttempts[b] \in Nat
    BY LedgerAssumption DEF LedgerInit
  <2>2. ASSUME NEW a \in AttemptIds
        PROVE  attempt[a].state = "ABSENT" /\ ~(a[2] <= branch[a[1]].count)
    BY <2>1 DEF LedgerInit, AttemptIds
  <2> QED BY <2>1, <2>2 DEF AttemptBudget
<1>2. LedgerTypeOK /\ RunnerInv /\ AttemptBudget /\ [LedgerNext]_ledgerVars
         => AttemptBudget'
  <2> SUFFICES ASSUME LedgerTypeOK, RunnerInv, AttemptBudget,
                      [LedgerNext]_ledgerVars
               PROVE  AttemptBudget'
    OBVIOUS
  <2>1. CASE Quiet
    BY <2>1 DEF AttemptBudget, Quiet, AttemptIds
  <2>2. ASSUME NEW s \in Owners, NEW j \in Jobs, NEW b \in Branches,
               NEW n \in 1..AttemptBound, Started(s, j, b, n)
        PROVE  AttemptBudget'
    <3>1. branch[b].count \in Nat /\ n = branch[b].count + 1
      BY <2>2 DEF Started, LedgerTypeOK, BranchRow
    <3>2. ASSUME NEW c \in Branches PROVE branch'[c].count <= MaxAttempts[c]
      BY <2>2 DEF Started, AttemptBudget
    <3>3. ASSUME NEW c \in Branches, NEW m \in 1..AttemptBound
          PROVE  attempt'[<<c, m>>].state # "ABSENT" <=> m <= branch'[c].count
      <4>1. <<c, m>> \in AttemptIds
        BY DEF AttemptIds
      <4>2. attempt[<<c, m>>].state # "ABSENT" <=> m <= branch[c].count
        BY <4>1 DEF AttemptBudget
      <4>3. CASE c = b /\ m = n
        BY <2>2, <4>3 DEF Started
      <4>4. CASE c = b /\ m # n
        <5>1. attempt'[<<c, m>>] = attempt[<<c, m>>]
          BY <2>2, <4>1, <4>4 DEF Started
        <5>2. m <= branch[c].count <=> m <= branch'[c].count
          BY <2>2, <3>1, <4>4 DEF Started
        <5> QED BY <4>2, <5>1, <5>2
      <4>5. CASE c # b
        BY <2>2, <4>1, <4>2, <4>5 DEF Started
      <4> QED BY <4>3, <4>4, <4>5
    <3> QED BY <3>2, <3>3 DEF AttemptBudget, AttemptIds
  <2>3. ASSUME NEW s \in Owners, NEW a \in AttemptIds,
               MayFinish(s, a), LeaseReturned(a)
        PROVE  AttemptBudget'
    BY <2>3 DEF AttemptBudget, MayFinish, LeaseReturned, AttemptIds
  <2>4. CASE Recovered
    BY <2>4 DEF AttemptBudget, Recovered, AttemptIds
  <2> QED BY <2>1, <2>2, <2>3, <2>4, StepKinds
<1> QED BY <1>1, <1>2, LedgerTypeCorrect, RunnerInvariant, PTL DEF LedgerSpec

\* A closed attempt is final: neither a late finish nor recovery writes it,
\* and a claim inserts the row numbered attempt_count + 1, which the budget
\* invariant shows to be free.
THEOREM LedgerClosedForever == LedgerSpec => ClosedForever
<1> DEFINE Keeps == \A a \in AttemptIds : Closed(a) => attempt'[a] = attempt[a]
<1>1. LedgerTypeOK /\ RunnerInv /\ AttemptBudget /\ [LedgerNext]_ledgerVars
         => [Keeps]_ledgerVars
  <2> SUFFICES ASSUME LedgerTypeOK, RunnerInv, AttemptBudget,
                      [LedgerNext]_ledgerVars
               PROVE  Keeps
    OBVIOUS
  <2>1. CASE Quiet
    BY <2>1 DEF Quiet
  <2>2. ASSUME NEW s \in Owners, NEW j \in Jobs, NEW b \in Branches,
               NEW n \in 1..AttemptBound, Started(s, j, b, n)
        PROVE  Keeps
    <3>1. <<b, n>> \in AttemptIds /\ branch[b].count \in Nat
          /\ n = branch[b].count + 1
      BY <2>2 DEF AttemptIds, Started, LedgerTypeOK, BranchRow
    <3>2. attempt[<<b, n>>].state = "ABSENT"
      BY <3>1 DEF AttemptBudget
    <3> QED BY <2>2, <3>2 DEF Closed, Started
  <2>3. ASSUME NEW s \in Owners, NEW a \in AttemptIds,
               MayFinish(s, a), LeaseReturned(a)
        PROVE  Keeps
    BY <2>3 DEF Closed, MayFinish, LeaseReturned
  <2>4. CASE Recovered
    BY <2>4 DEF Closed, Recovered
  <2> QED BY <2>1, <2>2, <2>3, <2>4, StepKinds
<1> QED BY <1>1, LedgerTypeCorrect, RunnerInvariant, LedgerAttemptBudget, PTL
        DEF LedgerSpec, ClosedForever

\* VerifiedOnce attempt by attempt.
VerifiedInv ==
    /\ \A j \in Jobs : job[j].state = "SUCCEEDED" =>
          \E a \in AttemptIds : JobOf[a[1]] = j /\ attempt[a].state = "VERIFIED"
    /\ \A a \in AttemptIds : attempt[a].state = "VERIFIED" =>
          /\ job[JobOf[a[1]]].state = "SUCCEEDED"
          /\ \A c \in AttemptIds :
                JobOf[c[1]] = JobOf[a[1]] /\ attempt[c].state = "VERIFIED"
                   => c = a

LEMMA VerifiedStep ==
    ASSUME LedgerTypeOK, RunnerInv, VerifiedInv, [LedgerNext]_ledgerVars
    PROVE  VerifiedInv'
<1>1. ASSUME NEW a \in AttemptIds PROVE JobOf[a[1]] \in Jobs
  BY LedgerAssumption DEF AttemptIds
<1>2. CASE Quiet
  BY <1>1, <1>2 DEF VerifiedInv, Quiet
<1>3. ASSUME NEW s \in Owners, NEW j \in Jobs, NEW b \in Branches,
             NEW n \in 1..AttemptBound, Started(s, j, b, n)
      PROVE  VerifiedInv'
  <2>1. ASSUME NEW a \in AttemptIds
        PROVE  (attempt'[a].state = "VERIFIED")
                  <=> (attempt[a].state = "VERIFIED" /\ a # <<b, n>>)
    BY <1>3 DEF Started
  <2>2. attempt[<<b, n>>].state # "VERIFIED"
    BY <1>3 DEF Started, VerifiedInv, AttemptIds
  <2>3. ASSUME NEW k \in Jobs
        PROVE  (job'[k].state = "SUCCEEDED") <=> (job[k].state = "SUCCEEDED")
    BY <1>3 DEF Started
  <2> QED BY <1>1, <2>1, <2>2, <2>3 DEF VerifiedInv
<1>4. ASSUME NEW s \in Owners, NEW a \in AttemptIds,
             MayFinish(s, a), LeaseReturned(a)
      PROVE  VerifiedInv'
  <2> DEFINE j == JobOf[a[1]]
  <2>1. ASSUME NEW c \in AttemptIds, JobOf[c[1]] = j
        PROVE  attempt[c].state # "VERIFIED"
    BY <1>4, <2>1 DEF MayFinish, VerifiedInv
  <2>2. \A c \in AttemptIds \ {a} : attempt'[c] = attempt[c]
    BY <1>4 DEF LeaseReturned
  <2>3. /\ (job'[j].state = "SUCCEEDED") <=> (attempt'[a].state = "VERIFIED")
        /\ \A k \in Jobs \ {j} : job'[k] = job[k]
    BY <1>4 DEF LeaseReturned
  <2> QED BY <1>1, <2>1, <2>2, <2>3 DEF VerifiedInv
<1>5. CASE Recovered
  <2>1. ASSUME NEW a \in AttemptIds
        PROVE  (attempt'[a].state = "VERIFIED")
                  <=> (attempt[a].state = "VERIFIED")
    BY <1>5 DEF Recovered
  <2>2. ASSUME NEW k \in Jobs
        PROVE  (job'[k].state = "SUCCEEDED") <=> (job[k].state = "SUCCEEDED")
    BY <1>5 DEF Recovered, Stale
  <2> QED BY <1>1, <2>1, <2>2 DEF VerifiedInv
<1> QED BY <1>2, <1>3, <1>4, <1>5, StepKinds

\* A job succeeds through exactly one verified attempt, whatever recovery,
\* late finishes and other owners do meanwhile.
THEOREM LedgerVerifiedOnce == LedgerSpec => []VerifiedOnce
<1>1. LedgerInit => VerifiedInv
  BY LedgerAssumption DEF LedgerInit, VerifiedInv
<1>2. LedgerTypeOK /\ RunnerInv /\ VerifiedInv /\ [LedgerNext]_ledgerVars
         => VerifiedInv'
  BY VerifiedStep
<1>3. VerifiedInv => VerifiedOnce
  <2> SUFFICES ASSUME VerifiedInv, NEW j \in Jobs
               PROVE  LET verified == {a \in AttemptsOf(j) :
                                          attempt[a].state = "VERIFIED"}
                      IN  IF job[j].state = "SUCCEEDED"
                          THEN \E a \in AttemptIds : verified = {a}
                          ELSE verified = {}
    BY DEF VerifiedOnce
  <2> DEFINE verified == {a \in AttemptsOf(j) : attempt[a].state = "VERIFIED"}
  <2>1. CASE job[j].state = "SUCCEEDED"
    <3>1. PICK a \in AttemptIds : JobOf[a[1]] = j
                                  /\ attempt[a].state = "VERIFIED"
      BY <2>1 DEF VerifiedInv
    <3>2. verified = {a}
      BY <3>1 DEF VerifiedInv, AttemptsOf
    <3> QED BY <2>1, <3>2
  <2>2. CASE job[j].state # "SUCCEEDED"
    <3>1. verified = {}
      BY <2>2 DEF VerifiedInv, AttemptsOf
    <3> QED BY <2>2, <3>1
  <2> QED BY <2>1, <2>2
<1> QED BY <1>1, <1>2, <1>3, LedgerTypeCorrect, RunnerInvariant, PTL
        DEF LedgerSpec

-----------------------------------------------------------------------------
(* Records                                                                 *)

(***************************************************************************)
(* BlockedHasBoundary and RecoveryHasWork, job by job.                     *)
(***************************************************************************)
JobRecords(j) ==
    /\ job[j].boundary <=> job[j].state = "BLOCKED_HUMAN"
    /\ job[j].boundary => \E b \in BranchesOf(j) : branch[b].boundary
    /\ job[j].state \in {"RETRYING", "RECOVERING"} =>
         \E b \in BranchesOf(j) :
            branch[b].state \in OpenState /\ AttemptsRemain(b)

RecordsInv == HumanGate /\ \A j \in Jobs : JobRecords(j)

\* A step keeps what the human side and the budget say about branch b.
SameGate(b) ==
    /\ branch'[b].auth = branch[b].auth /\ branch'[b].deps = branch[b].deps
    /\ branch'[b].boundary = branch[b].boundary

SameBranch(b) ==
    /\ SameGate(b)
    /\ branch'[b].state = branch[b].state /\ branch'[b].count = branch[b].count

\* A job that a step leaves alone, with its branches, keeps its records.
LEMMA RecordsUndisturbed ==
    ASSUME NEW j \in Jobs, JobRecords(j),
           job'[j].state = job[j].state, job'[j].boundary = job[j].boundary,
           \A b \in BranchesOf(j) : SameBranch(b)
    PROVE  JobRecords(j)'
BY DEF JobRecords, BranchesOf, SameBranch, SameGate, AttemptsRemain

\* A job that a step gives a state without claims has its records.
LEMMA RecordsPlain ==
    ASSUME NEW j \in Jobs, job'[j].boundary = FALSE,
           job'[j].state \notin {"BLOCKED_HUMAN", "RETRYING", "RECOVERING"}
    PROVE  JobRecords(j)'
BY DEF JobRecords

\* A job that a step blocks or schedules has its records when a branch of it
\* holds the boundary or the work.
LEMMA RecordsWitness ==
    ASSUME NEW j \in Jobs, NEW b \in Branches, JobOf[b] = j,
           \/ /\ job'[j].state = "BLOCKED_HUMAN" /\ job'[j].boundary = TRUE
              /\ branch'[b].boundary
           \/ /\ job'[j].state \in {"RETRYING", "RECOVERING"}
              /\ job'[j].boundary = FALSE
              /\ branch'[b].state \in OpenState
              /\ branch'[b].count < MaxAttempts[b]
    PROVE  JobRecords(j)'
BY DEF JobRecords, BranchesOf, AttemptsRemain

\* The gate holds after a step that starts no attempt and does not touch the
\* gate of a branch whose attempt goes on.
LEMMA GateKept ==
    ASSUME HumanGate,
           \A a \in AttemptIds : attempt'[a].state = "RUNNING" =>
              attempt[a].state = "RUNNING" /\ SameGate(a[1])
    PROVE  HumanGate'
BY DEF HumanGate, SameGate

LEMMA RecordsSubmit ==
    ASSUME LedgerTypeOK, RecordsInv, NEW j \in Jobs, Submit(j)
    PROVE  RecordsInv'
<1>1. ASSUME NEW b \in Branches
      PROVE  SameGate(b) /\ (JobOf[b] # j => SameBranch(b))
  BY DEF Submit, LedgerTypeOK, BranchRow, SameGate, SameBranch
<1>2. HumanGate'
  BY <1>1, GateKept DEF Submit, RecordsInv, AttemptIds
<1>3. job[j].boundary = FALSE
  BY DEF Submit, RecordsInv, JobRecords, LedgerTypeOK, JobRow
<1>4. JobRecords(j)'
  <2>1. ASSUME NEW d
        PROVE  LET r == [job[j] EXCEPT !.state = "READY", !.created = d] IN
               r.state = "READY" /\ r.boundary = job[j].boundary
    BY DEF LedgerTypeOK, JobRow
  <2>2. job'[j].state = "READY" /\ job'[j].boundary = FALSE
    BY <1>3, <2>1 DEF Submit, LedgerTypeOK
  <2> QED BY <2>2, RecordsPlain
<1>5. ASSUME NEW k \in Jobs \ {j} PROVE JobRecords(k)'
  <2>1. job'[k] = job[k]
    BY DEF Submit, LedgerTypeOK
  <2> QED BY <1>1, <2>1, RecordsUndisturbed DEF RecordsInv, BranchesOf
<1> QED BY <1>2, <1>4, <1>5 DEF RecordsInv

\* A job that claim_next looks at has no boundary; parking it, or making it
\* READY, keeps the records.
LEMMA RecordsAside ==
    ASSUME LedgerTypeOK, RecordsInv, NEW k \in ReadyNow,
           \/ job'[k] = Park(k)
           \/ job'[k] = [job[k] EXCEPT !.state = "READY"],
           \A b \in BranchesOf(k) : SameBranch(b)
    PROVE  JobRecords(k)'
<1>1. k \in Jobs /\ job[k] \in JobRow
  BY DEF ReadyNow, LedgerTypeOK
<1>2. job[k].boundary = FALSE
  BY <1>1 DEF ReadyNow, Due, RecordsInv, JobRecords, JobRow
<1>3. CASE job'[k] = [job[k] EXCEPT !.state = "READY"]
  <2>1. job'[k].state = "READY" /\ job'[k].boundary = FALSE
    BY <1>1, <1>2, <1>3 DEF JobRow
  <2> QED BY <1>1, <2>1, RecordsPlain
<1>4. CASE job'[k] = Park(k) /\ \E b \in Candidates(k) : branch[b].boundary
  <2>1. PICK b \in Candidates(k) : branch[b].boundary
    BY <1>4
  <2>2. b \in Branches /\ JobOf[b] = k /\ branch'[b].boundary
    BY <2>1 DEF Candidates, BranchesOf, SameBranch, SameGate
  <2>3. job'[k].state = "BLOCKED_HUMAN" /\ job'[k].boundary = TRUE
    BY <1>1, <1>4 DEF Park, JobRow
  <2> QED BY <1>1, <2>2, <2>3, RecordsWitness
<1>5. CASE job'[k] = Park(k) /\ ~\E b \in Candidates(k) : branch[b].boundary
  <2>1. ASSUME NEW x
        PROVE  LET r == [job[k] EXCEPT !.state = "WAITING",
                                       !.retry = ParkDelay, !.inspect = x] IN
               r.state = "WAITING" /\ r.boundary = job[k].boundary
    BY <1>1 DEF JobRow
  <2>2. job'[k].state = "WAITING" /\ job'[k].boundary = FALSE
    BY <1>2, <1>5, <2>1 DEF Park
  <2> QED BY <1>1, <2>2, RecordsPlain
<1> QED BY <1>3, <1>4, <1>5

LEMMA RecordsStart ==
    ASSUME LedgerTypeOK, RecordsInv, NEW s \in Owners, NEW j \in Jobs,
           NEW b \in Branches, NEW lag \in 0..MaxLag, StartAttempt(s, j, b, lag)
    PROVE  RecordsInv'
<1>1. Started(s, j, b, branch[b].count + 1)
  BY StartEffect
<1>2. ASSUME NEW c \in Branches, c # b PROVE SameBranch(c)
  BY <1>1, <1>2 DEF Started, SameBranch, SameGate
<1>3. SameGate(b) /\ JobOf[b] = j
  BY <1>1 DEF Started, StartAttempt, LedgerTypeOK, BranchRow, SameGate
<1>4. HumanGate'
  <2> SUFFICES ASSUME NEW a \in AttemptIds, attempt'[a].state = "RUNNING"
               PROVE  /\ branch'[a[1]].auth /\ branch'[a[1]].deps
                      /\ ~branch'[a[1]].boundary
    BY DEF HumanGate
  <2>1. SameGate(a[1])
    BY <1>2, <1>3 DEF SameBranch, AttemptIds
  <2>2. CASE a = <<b, branch[b].count + 1>>
    BY <1>1, <2>1, <2>2 DEF Started, Unblocked, SameGate
  <2>3. CASE a # <<b, branch[b].count + 1>>
    <3>1. attempt[a].state = "RUNNING"
      BY <1>1, <2>3 DEF Started
    <3> QED BY <2>1, <3>1 DEF RecordsInv, HumanGate, SameGate
  <2> QED BY <2>2, <2>3
<1>5. JobRecords(j)'
  <2>1. j \in ReadyNow /\ job[j] \in JobRow
    BY DEF StartAttempt, LedgerTypeOK
  <2>2. job[j].boundary = FALSE
    BY <2>1 DEF ReadyNow, Due, RecordsInv, JobRecords, JobRow
  <2>3. job'[j] = [job[j] EXCEPT !.state = "RUNNING", !.owner = s,
                                 !.lease = Left(JobLease, lag),
                                 !.current = b, !.inspect = FALSE]
    BY DEF StartAttempt
  <2>4. job'[j].state = "RUNNING" /\ job'[j].boundary = FALSE
    BY <2>1, <2>2, <2>3 DEF JobRow
  <2> QED BY <2>4, RecordsPlain
<1>6. ASSUME NEW k \in Jobs \ {j} PROVE JobRecords(k)'
  <2>1. \A c \in BranchesOf(k) : SameBranch(c)
    BY <1>2, <1>3 DEF BranchesOf
  <2>2. CASE k \in ReadyNow
    BY <2>1, <2>2, RecordsAside DEF StartAttempt
  <2>3. CASE k \notin ReadyNow
    <3>1. job'[k] = job[k]
      BY <2>3 DEF StartAttempt
    <3> QED BY <2>1, <3>1, RecordsUndisturbed DEF RecordsInv
  <2> QED BY <2>2, <2>3
<1> QED BY <1>4, <1>5, <1>6 DEF RecordsInv

\* A step that leaves the branches and attempts alone leaves the gate alone.
LEMMA RecordsClaimNothing ==
    ASSUME LedgerTypeOK, RecordsInv, ClaimNothing
    PROVE  RecordsInv'
<1>1. \A b \in Branches : SameBranch(b)
  BY DEF ClaimNothing, SameBranch, SameGate
<1>2. HumanGate'
  BY <1>1, GateKept DEF ClaimNothing, RecordsInv, SameBranch, AttemptIds
<1>3. ASSUME NEW k \in Jobs PROVE JobRecords(k)'
  <2>1. \A b \in BranchesOf(k) : SameBranch(b)
    BY <1>1 DEF BranchesOf
  <2>2. CASE k \in ReadyNow
    BY <2>1, <2>2, RecordsAside DEF ClaimNothing
  <2>3. CASE k \notin ReadyNow
    BY <2>1, <2>3, RecordsUndisturbed DEF ClaimNothing, RecordsInv
  <2> QED BY <2>2, <2>3
<1> QED BY <1>2, <1>3 DEF RecordsInv

\* Heartbeats and the clock write no state and no boundary of a job.
LEMMA TimersKeepStates ==
    ASSUME LedgerTypeOK, NEW k \in Jobs,
           \/ Tick
           \/ \E s \in Owners : HeartbeatWrite(s) \/ HeartbeatLost(s)
           \/ \E s \in Owners, a \in AttemptIds : HeartbeatRead(s, a)
    PROVE  job'[k].state = job[k].state /\ job'[k].boundary = job[k].boundary
<1>1. ASSUME NEW l, NEW d
      PROVE  LET r == [job[k] EXCEPT !.lease = l, !.retry = d] IN
             r.state = job[k].state /\ r.boundary = job[k].boundary
  BY DEF LedgerTypeOK, JobRow
<1>2. CASE Tick
  <2> DEFINE l == IF job[k].lease = NULL THEN NULL
                                         ELSE OlderLease(job[k].lease)
  <2>1. job'[k] = [job[k] EXCEPT !.lease = l, !.retry = Older(job[k].retry)]
    BY <1>2 DEF Tick
  <2> HIDE DEF l
  <2> QED BY <1>1, <2>1
<1>3. CASE \E s \in Owners : HeartbeatWrite(s)
  <2>1. PICK s \in Owners : HeartbeatWrite(s)
    BY <1>3
  <2>2. beat[s].job \in Jobs
    BY <2>1 DEF HeartbeatWrite, LedgerTypeOK
  <2>3. LET r == [job[k] EXCEPT !.lease = beat[s].left] IN
        r.state = job[k].state /\ r.boundary = job[k].boundary
    BY DEF LedgerTypeOK, JobRow
  <2> QED BY <2>1, <2>2, <2>3 DEF HeartbeatWrite, LedgerTypeOK
<1>4. CASE job' = job
  BY <1>4
<1> QED BY <1>2, <1>3, <1>4 DEF HeartbeatRead, HeartbeatLost

\* Heartbeats and the clock write no column that the records are about.
LEMMA RecordsTimers ==
    ASSUME LedgerTypeOK, RecordsInv,
           \/ Tick
           \/ \E s \in Owners : HeartbeatWrite(s) \/ HeartbeatLost(s)
           \/ \E s \in Owners, a \in AttemptIds : HeartbeatRead(s, a)
    PROVE  RecordsInv'
<1>1. attempt' = attempt
  BY DEF Tick, HeartbeatRead, HeartbeatWrite, HeartbeatLost
<1>2. ASSUME NEW b \in Branches PROVE SameBranch(b)
  <2>1. ASSUME NEW d
        PROVE  LET r == [branch[b] EXCEPT !.eligible = d] IN
               /\ r.state = branch[b].state /\ r.count = branch[b].count
               /\ r.auth = branch[b].auth /\ r.deps = branch[b].deps
               /\ r.boundary = branch[b].boundary
    BY DEF LedgerTypeOK, BranchRow
  <2>2. CASE Tick
    BY <2>1, <2>2 DEF Tick, SameBranch, SameGate
  <2>3. CASE branch' = branch
    BY <2>3 DEF SameBranch, SameGate
  <2> QED BY <2>2, <2>3 DEF HeartbeatRead, HeartbeatWrite, HeartbeatLost
<1>3. ASSUME NEW k \in Jobs
      PROVE  job'[k].state = job[k].state /\ job'[k].boundary = job[k].boundary
  BY TimersKeepStates
<1>4. HumanGate'
  BY <1>1, <1>2, GateKept DEF RecordsInv, SameBranch, AttemptIds
<1>5. ASSUME NEW k \in Jobs PROVE JobRecords(k)'
  BY <1>2, <1>3, RecordsUndisturbed DEF RecordsInv, BranchesOf
<1> QED BY <1>4, <1>5 DEF RecordsInv

\* What finish_attempt writes besides the attempt: its job's row and its
\* branch's, which keeps its authority and its dependencies.
LEMMA RecordsFinish ==
    ASSUME LedgerTypeOK, RunnerInv, RecordsInv,
           NEW s \in Owners, NEW a \in AttemptIds, FinishAttempt(s, a)
    PROVE  RecordsInv'
<1> DEFINE b == a[1]
<1> DEFINE j == JobOf[b]
<1> DEFINE row == Released(job[j])
<1>1. b \in Branches /\ j \in Jobs
  BY LedgerAssumption DEF AttemptIds
<1>2. MayFinish(s, a) /\ LeaseReturned(a)
  BY FinishReturnsLease
<1>3. row \in JobRow /\ row.boundary = FALSE
  <2>1. job[j] \in JobRow /\ Released(job[j]) \in JobRow
    BY <1>1, ReleasedType DEF LedgerTypeOK
  <2>2. job[j].boundary = FALSE
    BY <1>1, <1>2, <2>1 DEF MayFinish, RecordsInv, JobRecords, JobRow
  <2> QED BY <2>1, <2>2 DEF Released, JobRow
<1>4. branch[b] \in BranchRow
  BY <1>1 DEF LedgerTypeOK
<1> HIDE DEF row
<1>5. ASSUME NEW r, NEW q,
             job' = [job EXCEPT ![j] = r], branch' = [branch EXCEPT ![b] = q]
      PROVE  /\ job'[j] = r /\ branch'[b] = q
             /\ \A c \in Branches \ {b} : SameBranch(c)
             /\ \A k \in Jobs \ {j} : JobRecords(k)'
  <2>1. \A c \in Branches \ {b} : SameBranch(c)
    BY <1>5 DEF LedgerTypeOK, SameBranch, SameGate
  <2>2. \A k \in Jobs \ {j} : job'[k] = job[k]
    BY <1>5 DEF LedgerTypeOK
  <2>3. \A k \in Jobs \ {j} : JobRecords(k)'
    BY <1>1, <2>1, <2>2, RecordsUndisturbed DEF RecordsInv, BranchesOf
  <2> QED BY <1>1, <1>5, <2>1, <2>3 DEF LedgerTypeOK
\* No attempt of the branch goes on, so its own gate does not matter.
<1>6. ASSUME \A c \in Branches \ {b} : SameBranch(c) PROVE HumanGate'
  <2>1. ASSUME NEW x \in AttemptIds, attempt'[x].state = "RUNNING"
        PROVE  attempt[x].state = "RUNNING" /\ x[1] # b
    <3>1. x # a /\ attempt[x].state = "RUNNING"
      BY <1>2, <2>1 DEF LeaseReturned
    <3>2. x = <<x[1], x[2]>> /\ a = <<b, a[2]>> /\ x[2] \in 1..AttemptBound
          /\ a[2] \in 1..AttemptBound /\ x[1] \in Branches
      BY DEF AttemptIds
    <3>3. x[1] = b => x[2] = branch[b].count /\ a[2] = branch[b].count
      BY <1>1, <1>2, <3>1, <3>2 DEF MayFinish, RunnerInv, IsRunner
    <3> QED BY <3>1, <3>2, <3>3
  <2> QED BY <1>6, <2>1, GateKept DEF RecordsInv, SameBranch, AttemptIds
<1>7. ASSUME NEW hasRef, FinishVerified(s, a, hasRef)
      PROVE  RecordsInv'
  <2> DEFINE r == [row EXCEPT !.state = "SUCCEEDED", !.boundary = FALSE]
  <2>1. r.state = "SUCCEEDED" /\ r.boundary = FALSE
    BY <1>3 DEF JobRow
  <2>2. /\ job' = [job EXCEPT ![j] = r]
        /\ branch' = [branch EXCEPT ![b] = [branch[b] EXCEPT
                                              !.state = "SUCCEEDED"]]
    BY <1>7 DEF FinishVerified, row
  <2> HIDE DEF r
  <2>3. JobRecords(j)'
    BY <1>1, <1>5, <2>1, <2>2, RecordsPlain
  <2> QED BY <1>5, <1>6, <2>2, <2>3 DEF RecordsInv
<1>8. ASSUME FinishHumanRequired(s, a)
      PROVE  RecordsInv'
  <2> DEFINE r == [row EXCEPT !.state = "BLOCKED_HUMAN", !.boundary = TRUE]
  <2> DEFINE q == [branch[b] EXCEPT !.state = "BLOCKED_HUMAN",
                                    !.boundary = TRUE]
  <2>1. r.state = "BLOCKED_HUMAN" /\ r.boundary = TRUE /\ q.boundary
    BY <1>3, <1>4 DEF JobRow, BranchRow
  <2>2. job' = [job EXCEPT ![j] = r] /\ branch' = [branch EXCEPT ![b] = q]
    BY <1>8 DEF FinishHumanRequired, row
  <2> HIDE DEF r, q
  <2>3. JobRecords(j)'
    BY <1>1, <1>5, <2>1, <2>2, RecordsWitness
  <2> QED BY <1>5, <1>6, <2>2, <2>3 DEF RecordsInv
<1>9. ASSUME NEW delay, FinishWaiting(s, a, delay)
      PROVE  RecordsInv'
  <2> DEFINE r == [row EXCEPT !.state = "WAITING", !.retry = delay]
  <2> DEFINE q == [branch[b] EXCEPT !.state = "WAITING", !.eligible = delay]
  <2>1. r.state = "WAITING" /\ r.boundary = FALSE
    BY <1>3 DEF JobRow
  <2>2. job' = [job EXCEPT ![j] = r] /\ branch' = [branch EXCEPT ![b] = q]
    BY <1>9 DEF FinishWaiting, row
  <2> HIDE DEF r, q
  <2>3. JobRecords(j)'
    BY <1>1, <1>5, <2>1, <2>2, RecordsPlain
  <2> QED BY <1>5, <1>6, <2>2, <2>3 DEF RecordsInv
<1>10. ASSUME NEW permits, NEW failure, NEW transient, NEW delay,
              FinishRetry(s, a, permits, failure, transient, delay)
       PROVE  RecordsInv'
  <2> DEFINE r == [row EXCEPT !.state = "RETRYING", !.retry = delay]
  <2> DEFINE q == [branch[b] EXCEPT !.state = "RETRYABLE", !.eligible = delay,
                                    !.failure = failure]
  <2>1. r.state = "RETRYING" /\ r.boundary = FALSE
    BY <1>3 DEF JobRow
  <2>2. q.state \in OpenState /\ q.count < MaxAttempts[b]
    BY <1>4, <1>10 DEF FinishRetry, MayRetry, AttemptsRemain, OpenState,
       BranchRow
  <2>3. job' = [job EXCEPT ![j] = r] /\ branch' = [branch EXCEPT ![b] = q]
    BY <1>10 DEF FinishRetry, row
  <2> HIDE DEF r, q
  <2>4. JobRecords(j)'
    BY <1>1, <1>5, <2>1, <2>2, <2>3, RecordsWitness
  <2> QED BY <1>5, <1>6, <2>3, <2>4 DEF RecordsInv
<1>11. ASSUME NEW permits, NEW failure, NEW transient, NEW refused,
              NEW rejected,
              FinishQuarantine(s, a, permits, failure, transient, refused,
                               rejected)
       PROVE  RecordsInv'
  <2> DEFINE r == IF Alternates(b) # {}
                  THEN [row EXCEPT !.state = "RECOVERING", !.retry = 0]
                  ELSE [row EXCEPT !.state = "FAILED_FINAL"]
  <2> DEFINE q == [branch[b] EXCEPT !.state = "QUARANTINED",
                                    !.failure = failure]
  <2>1. /\ r.boundary = FALSE
        /\ r.state = IF Alternates(b) # {} THEN "RECOVERING"
                                           ELSE "FAILED_FINAL"
    BY <1>3 DEF JobRow
  <2>2. job' = [job EXCEPT ![j] = r] /\ branch' = [branch EXCEPT ![b] = q]
    BY <1>11 DEF FinishQuarantine, row
  <2> HIDE DEF r, q
  <2>3. CASE Alternates(b) # {}
    <3>1. PICK c \in Branches \ {b} :
             /\ JobOf[c] = j /\ branch[c].state \in OpenState
             /\ AttemptsRemain(c)
      BY <2>3 DEF Alternates, BranchesOf
    <3>2. branch'[c].state \in OpenState /\ branch'[c].count < MaxAttempts[c]
      BY <1>5, <2>2, <3>1 DEF SameBranch, AttemptsRemain
    <3>3. JobRecords(j)'
      BY <1>1, <1>5, <2>1, <2>2, <2>3, <3>1, <3>2, RecordsWitness
    <3> QED BY <1>5, <1>6, <2>2, <3>3 DEF RecordsInv
  <2>4. CASE Alternates(b) = {}
    <3>1. JobRecords(j)'
      BY <1>1, <1>5, <2>1, <2>2, <2>4, RecordsPlain
    <3> QED BY <1>5, <1>6, <2>2, <3>1 DEF RecordsInv
  <2> QED BY <2>3, <2>4
<1> QED BY <1>7, <1>8, <1>9, <1>10, <1>11 DEF FinishAttempt

\* Recovery makes the leased branch of a stale job retryable when it has
\* attempts left, and ends the job otherwise.
LEMMA RecordsRecover ==
    ASSUME LedgerTypeOK, RunnerInv, RecordsInv, RecoverStaleAttempts
    PROVE  RecordsInv'
<1> DEFINE Again(k) == Stale(k) /\ AttemptsRemain(job[k].current)
<1>1. Recovered
  BY RecoverEffect
<1>2. ASSUME NEW b \in Branches
      PROVE  /\ SameGate(b) /\ branch'[b].count = branch[b].count
             /\ branch'[b].state =
                   IF Again(JobOf[b]) /\ job[JobOf[b]].current = b
                   THEN "RETRYABLE" ELSE branch[b].state
  <2>1. JobOf[b] \in Jobs
    BY LedgerAssumption
  <2>2. branch'[b] = IF Again(JobOf[b]) /\ job[JobOf[b]].current = b
                     THEN [branch[b] EXCEPT !.state = "RETRYABLE",
                                            !.eligible = 0]
                     ELSE branch[b]
    BY <2>1 DEF RecoverStaleAttempts
  <2> QED BY <2>2 DEF LedgerTypeOK, BranchRow, SameGate
<1>3. HumanGate'
  <2>1. ASSUME NEW a \in AttemptIds, attempt'[a].state = "RUNNING"
        PROVE  attempt[a].state = "RUNNING"
    BY <1>1, <2>1 DEF Recovered
  <2> QED BY <1>2, <2>1, GateKept DEF RecordsInv, AttemptIds
<1>4. ASSUME NEW k \in Jobs PROVE JobRecords(k)'
  <2>1. job[k] \in JobRow /\ Released(job[k]) \in JobRow
    BY ReleasedType DEF LedgerTypeOK
  <2>2. Stale(k) => job[k].boundary = FALSE
                    /\ Released(job[k]).boundary = FALSE
    BY <2>1 DEF Stale, RecordsInv, JobRecords, Released, JobRow
  <2>3. CASE Again(k)
    <3> DEFINE b == job[k].current
    <3>1. b \in Branches /\ JobOf[b] = k
      BY <2>3 DEF Stale, RunnerInv
    <3>2. branch'[b].state \in OpenState /\ branch'[b].count < MaxAttempts[b]
      BY <1>2, <2>3, <3>1 DEF OpenState, AttemptsRemain
    <3>3. job'[k] = [Released(job[k]) EXCEPT !.state = "RECOVERING",
                                             !.retry = 0]
      BY <2>3 DEF RecoverStaleAttempts
    <3>4. job'[k].state = "RECOVERING" /\ job'[k].boundary = FALSE
      BY <2>1, <2>2, <2>3, <3>3 DEF JobRow
    <3> QED BY <3>1, <3>2, <3>4, RecordsWitness
  <2>4. CASE Stale(k) /\ ~Again(k)
    <3>1. job'[k] = [Released(job[k]) EXCEPT !.state = "FAILED_FINAL"]
      BY <2>4 DEF RecoverStaleAttempts
    <3>2. job'[k].state = "FAILED_FINAL" /\ job'[k].boundary = FALSE
      BY <2>1, <2>2, <2>4, <3>1 DEF JobRow
    <3> QED BY <3>2, RecordsPlain
  <2>5. CASE ~Stale(k)
    <3>1. job'[k] = job[k]
      BY <2>5 DEF RecoverStaleAttempts
    <3>2. \A b \in BranchesOf(k) : SameBranch(b)
      BY <1>2, <2>5 DEF BranchesOf, SameBranch
    <3> QED BY <3>1, <3>2, RecordsUndisturbed DEF RecordsInv
  <2> QED BY <2>3, <2>4, <2>5
<1> QED BY <1>3, <1>4 DEF RecordsInv

\* resume touches the gate of no branch that runs: its job would be RUNNING.
LEMMA RecordsResume ==
    ASSUME LedgerTypeOK, RunnerInv, RecordsInv, NEW j \in Jobs,
           NEW dimension \in Dimensions, Resume(j, dimension)
    PROVE  RecordsInv'
<1>1. ASSUME NEW b \in Branches, JobOf[b] # j PROVE SameBranch(b)
  BY <1>1 DEF Resume, SameBranch, SameGate
<1>2. ASSUME NEW a \in AttemptIds, attempt[a].state = "RUNNING"
      PROVE  JobOf[a[1]] # j
  <2>1. job[j].state # "RUNNING"
    BY DEF Resume
  <2>2. a = <<a[1], a[2]>> /\ a[1] \in Branches /\ a[2] \in 1..AttemptBound
    BY DEF AttemptIds
  <2>3. IsRunner(a[1], a[2])
    BY <1>2, <2>2 DEF RunnerInv
  <2> QED BY <2>1, <2>3 DEF IsRunner
<1>3. attempt' = attempt
  BY DEF Resume
<1>4. HumanGate'
  BY <1>1, <1>2, <1>3, GateKept DEF RecordsInv, SameBranch, AttemptIds
<1>5. JobRecords(j)'
  <2>1. job'[j].state = "READY" /\ job'[j].boundary = FALSE
    BY DEF Resume, LedgerTypeOK, JobRow
  <2> QED BY <2>1, RecordsPlain
<1>6. ASSUME NEW k \in Jobs \ {j} PROVE JobRecords(k)'
  <2>1. job'[k] = job[k]
    BY DEF Resume, LedgerTypeOK
  <2> QED BY <1>1, <2>1, RecordsUndisturbed DEF RecordsInv, BranchesOf
<1> QED BY <1>4, <1>5, <1>6 DEF RecordsInv

LEMMA RecordsStep ==
    ASSUME LedgerTypeOK, RunnerInv, RecordsInv, [LedgerNext]_ledgerVars
    PROVE  RecordsInv'
<1>1. CASE UNCHANGED ledgerVars
  BY <1>1 DEF ledgerVars, RecordsInv, HumanGate, JobRecords, BranchesOf,
     AttemptsRemain
<1>2. CASE LedgerNext
  BY <1>2, RecordsSubmit, RecordsStart, RecordsClaimNothing, RecordsTimers,
     RecordsFinish, RecordsRecover, RecordsResume DEF LedgerNext, ClaimNext
<1> QED BY <1>1, <1>2

\* A last-known-good row names an attempt that was verified with a receipt, in
\* the branch's scope.
LkgInv ==
    \A c \in Scopes :
        lkg[c] # NULL =>
            /\ attempt[lkg[c]].state = "VERIFIED" /\ attempt[lkg[c]].receipt
            /\ ScopeOf[lkg[c][1]] = c

LEMMA LkgStep ==
    ASSUME LedgerTypeOK, LkgInv, [LedgerNext]_ledgerVars,
           \A a \in AttemptIds : Closed(a) => attempt'[a] = attempt[a]
    PROVE  LkgInv'
<1>1. CASE lkg' = lkg
  BY <1>1 DEF LkgInv, LedgerTypeOK, Closed
<1>2. ASSUME NEW s \in Owners, NEW a \in AttemptIds, NEW hasRef,
             FinishVerified(s, a, hasRef)
      PROVE  LkgInv'
  <2>1. attempt'[a].state = "VERIFIED" /\ attempt'[a].receipt
    BY <1>2 DEF FinishVerified, CloseAttempt, LedgerTypeOK, AttemptRow
  <2>2. ASSUME NEW c \in Scopes, lkg'[c] # lkg[c]
        PROVE  lkg'[c] = a /\ ScopeOf[a[1]] = c
    BY <1>2, <2>2 DEF FinishVerified, LedgerTypeOK
  <2> QED BY <2>1, <2>2 DEF LkgInv, LedgerTypeOK, Closed
<1>3. ASSUME NEW s \in Owners, NEW a \in AttemptIds, FinishAttempt(s, a)
      PROVE  lkg' = lkg \/ \E hasRef \in BOOLEAN : FinishVerified(s, a, hasRef)
  BY <1>3 DEF FinishAttempt, FinishHumanRequired, FinishWaiting, FinishRetry,
     FinishQuarantine
<1>4. CASE LedgerNext /\ ~\E s \in Owners, a \in AttemptIds : FinishAttempt(s, a)
  BY <1>1, <1>4 DEF LedgerNext, Submit, ClaimNext, StartAttempt, ClaimNothing,
     HeartbeatRead, HeartbeatWrite, HeartbeatLost, RecoverStaleAttempts,
     Resume, Tick
<1> QED BY <1>1, <1>2, <1>3, <1>4 DEF ledgerVars

\* The tables tell a consistent story at every moment: last-known-good names a
\* verified attempt of a job that succeeded, nothing runs against a human
\* boundary, a blocked job has one, and a job that will go on can.
THEOREM LedgerRecordsHold == LedgerSpec => []RecordsHold
<1> DEFINE Keeps == \A a \in AttemptIds : Closed(a) => attempt'[a] = attempt[a]
<1>1. LedgerInit => RecordsInv /\ LkgInv /\ VerifiedInv
  <2> SUFFICES ASSUME LedgerInit PROVE RecordsInv /\ LkgInv /\ VerifiedInv
    OBVIOUS
  <2>1. VerifiedInv
    BY LedgerAssumption DEF LedgerInit, VerifiedInv
  <2>2. RecordsInv /\ LkgInv
    BY DEF LedgerInit, RecordsInv, LkgInv, HumanGate, JobRecords
  <2> QED BY <2>1, <2>2
<1>2. LedgerTypeOK /\ RunnerInv /\ RecordsInv /\ VerifiedInv
         /\ [LedgerNext]_ledgerVars => RecordsInv' /\ VerifiedInv'
  BY RecordsStep, VerifiedStep
<1>3. LedgerTypeOK /\ RunnerInv /\ LkgInv /\ [LedgerNext]_ledgerVars
         /\ [Keeps]_ledgerVars => LkgInv'
  <2> SUFFICES ASSUME LedgerTypeOK, LkgInv, [LedgerNext]_ledgerVars,
                      [Keeps]_ledgerVars
               PROVE  LkgInv'
    OBVIOUS
  <2>1. Keeps
    BY DEF ledgerVars
  <2> QED BY <2>1, LkgStep
<1>4. LedgerTypeOK /\ RecordsInv /\ VerifiedInv /\ LkgInv => RecordsHold
  <2> SUFFICES ASSUME LedgerTypeOK, RecordsInv, VerifiedInv, LkgInv
               PROVE  RecordsHold
    OBVIOUS
  <2>1. LkgVerified
    BY DEF LkgVerified, LkgInv, VerifiedInv, LedgerTypeOK
  <2>2. BlockedHasBoundary /\ RecoveryHasWork
    BY DEF RecordsInv, JobRecords, BlockedHasBoundary, RecoveryHasWork
  <2> QED BY <2>1, <2>2 DEF RecordsHold, RecordsInv
<1>5. LedgerSpec => [][Keeps]_ledgerVars
  BY LedgerClosedForever DEF ClosedForever
<1> QED BY <1>1, <1>2, <1>3, <1>4, <1>5, LedgerTypeCorrect, RunnerInvariant,
           PTL DEF LedgerSpec

=============================================================================
