---------------------------- MODULE FarmerProofs ----------------------------
(***************************************************************************)
(* The ledger between what uses it and what it promises, for every set of  *)
(* jobs, branches and processes of which any may crash, and every lease:   *)
(* the transactions of FarmerLedger implement JobLifecycle, and a          *)
(* supervisor of FarmerSupervisor that was told it leads does lead.        *)
(***************************************************************************)
EXTENDS LedgerLifecycle, FarmerSupervisor, FarmerLedgerProofs

-----------------------------------------------------------------------------
(* FarmerLedger implements JobLifecycle: the initial tables map to the     *)
(* initial status of every job, and each transaction to a step of          *)
(* JobLifecycle or to none.                                                *)

\* The status of a job in the abstract specification.
StatusOf(j) == ClientStatus(job[j].state)

\* The attempts started for job j, and those it has a budget for.
Spent(j) == {a \in AttemptsOf(j) : attempt[a].state # "ABSENT"}
Allowed(j) == {a \in AttemptsOf(j) : a[2] <= MaxAttempts[a[1]]}

\* Every state of a row is a status.
LEMMA StatusType ==
    ASSUME NEW state
    PROVE  ClientStatus(state) \in Lifecycle!Status
BY DEF ClientStatus, Lifecycle!Status

\* A job has finitely many attempts.
LEMMA FiniteAttempts ==
    ASSUME NEW j \in Jobs
    PROVE  IsFiniteSet(AttemptsOf(j))
<1>1. IsFiniteSet(1..AttemptBound)
  BY LedgerAssumption, FS_Interval
<1>2. IsFiniteSet(AttemptIds)
  BY <1>1, LedgerAssumption, FS_Product DEF AttemptIds
<1> QED BY <1>2, FS_Subset DEF AttemptsOf

\* How the state of a row may change without an attempt being started.
Shift(from, to) ==
    \/ to = from
    \/ from = "ABSENT" /\ to = "READY"
    \/ from \in {"READY", "RETRYING", "RECOVERING", "WAITING"}
       /\ to \in {"READY", "WAITING", "BLOCKED_HUMAN"}
    \/ from = "BLOCKED_HUMAN" /\ to = "READY"
    \/ from = "RUNNING" /\ to \in JobState \ {"ABSENT", "RUNNING"}

\* Such a change is one the client may see.
LEMMA ShiftMoves ==
    ASSUME NEW from, NEW to, Shift(from, to)
    PROVE  \/ ClientStatus(to) = ClientStatus(from)
           \/ <<ClientStatus(from), ClientStatus(to)>> \in Lifecycle!Moves
BY DEF Shift, ClientStatus, Lifecycle!Moves, JobState

\* What a client sees of a step that starts no attempt: each row shifts, and
\* when a job succeeds nothing else changes.
Advanced ==
    /\ \A k \in Jobs : Shift(job[k].state, job'[k].state)
    /\ \A j, k \in Jobs :
          j # k /\ job[j].state # "SUCCEEDED" /\ job'[j].state = "SUCCEEDED"
             => job'[k].state = job[k].state
    /\ \A a \in AttemptIds :
          (attempt'[a].state # "ABSENT") <=> (attempt[a].state # "ABSENT")

\* Only one state is the client's "succeeded".
LEMMA StatusSucceeded ==
    ASSUME NEW state
    PROVE  ClientStatus(state) = "succeeded" <=> state = "SUCCEEDED"
BY DEF ClientStatus

LEMMA StatusRunning ==
    ASSUME NEW state
    PROVE  ClientStatus(state) = "running" <=> state = "RUNNING"
BY DEF ClientStatus

LEMMA AdvancedImplements ==
    ASSUME Advanced
    PROVE  Lifecycle!Advance
<1>1. [j \in Jobs |-> ClientStatus(job'[j].state)]
         \in [Jobs -> Lifecycle!Status]
  BY StatusType
<1>2. ASSUME NEW j \in Jobs PROVE Lifecycle!Moved(j)
  BY ShiftMoves DEF Advanced, Lifecycle!Moved
<1>3. ASSUME NEW j \in Jobs, NEW k \in Jobs, j # k,
             ClientStatus(job[j].state) # "succeeded",
             ClientStatus(job'[j].state) = "succeeded"
      PROVE  ClientStatus(job'[k].state) = ClientStatus(job[k].state)
  BY <1>3, StatusSucceeded DEF Advanced
<1>4. ASSUME NEW j \in Jobs PROVE Spent(j)' = Spent(j)
  BY DEF Advanced, Spent, AttemptsOf
<1>5. [j \in Jobs |-> Cardinality(Spent(j)')]
         = [j \in Jobs |-> Cardinality(Spent(j))]
  BY <1>4
<1> QED BY <1>1, <1>2, <1>3, <1>5 DEF Lifecycle!Advance, Spent

-----------------------------------------------------------------------------
(* Steps that start no attempt                                             *)

\* A step in which at most one row changes its state, by a shift.
LEMMA OneShift ==
    ASSUME NEW j \in Jobs, Shift(job[j].state, job'[j].state),
           \A k \in Jobs \ {j} : job'[k].state = job[k].state,
           \A a \in AttemptIds :
              (attempt'[a].state # "ABSENT") <=> (attempt[a].state # "ABSENT")
    PROVE  Advanced
BY DEF Advanced, Shift

\* A step in which no job succeeds.
LEMMA ManyShifts ==
    ASSUME \A k \in Jobs : Shift(job[k].state, job'[k].state),
           \A k \in Jobs : job'[k].state = "SUCCEEDED" =>
                              job[k].state = "SUCCEEDED",
           \A a \in AttemptIds :
              (attempt'[a].state # "ABSENT") <=> (attempt[a].state # "ABSENT")
    PROVE  Advanced
BY DEF Advanced

LEMMA AdvanceSubmit ==
    ASSUME LedgerTypeOK, NEW j \in Jobs, Submit(j)
    PROVE  Advanced
<1>1. ASSUME NEW d
      PROVE  [job[j] EXCEPT !.state = "READY", !.created = d].state = "READY"
  BY DEF LedgerTypeOK, JobRow
<1>2. job[j].state = "ABSENT" /\ job'[j].state = "READY"
  BY <1>1 DEF Submit, LedgerTypeOK
<1>3. \A k \in Jobs \ {j} : job'[k] = job[k]
  BY DEF Submit, LedgerTypeOK
<1>4. attempt' = attempt
  BY DEF Submit
<1> QED BY <1>2, <1>3, <1>4, OneShift DEF Shift

\* A job that claim_next sets aside or makes READY shifts.
LEMMA ShiftAside ==
    ASSUME LedgerTypeOK, NEW k \in ReadyNow,
           \/ job'[k] = Park(k)
           \/ job'[k] = [job[k] EXCEPT !.state = "READY"]
    PROVE  /\ job[k].state \in {"READY", "RETRYING", "RECOVERING", "WAITING"}
           /\ job'[k].state \in {"READY", "WAITING", "BLOCKED_HUMAN"}
<1>1. k \in Jobs /\ job[k] \in JobRow
      /\ job[k].state \in {"READY", "RETRYING", "RECOVERING", "WAITING"}
  BY DEF ReadyNow, Due, LedgerTypeOK
<1>2. CASE job'[k] = Park(k)
  BY <1>1, <1>2, ParkKeepsLease
<1>3. CASE job'[k] = [job[k] EXCEPT !.state = "READY"]
  BY <1>1, <1>3 DEF JobRow
<1> QED BY <1>1, <1>2, <1>3

LEMMA AdvanceClaimNothing ==
    ASSUME LedgerTypeOK, ClaimNothing
    PROVE  Advanced
<1>1. ASSUME NEW k \in Jobs
      PROVE  /\ Shift(job[k].state, job'[k].state)
             /\ job'[k].state = "SUCCEEDED" => job[k].state = "SUCCEEDED"
  BY ShiftAside DEF ClaimNothing, Shift
<1>2. attempt' = attempt
  BY DEF ClaimNothing
<1> QED BY <1>1, <1>2, ManyShifts

LEMMA AdvanceTimers ==
    ASSUME LedgerTypeOK,
           \/ Tick
           \/ \E s \in Owners : HeartbeatWrite(s) \/ HeartbeatLost(s)
           \/ \E s \in Owners, a \in AttemptIds : HeartbeatRead(s, a)
    PROVE  Advanced
<1>1. attempt' = attempt
  BY DEF Tick, HeartbeatRead, HeartbeatWrite, HeartbeatLost
<1>2. ASSUME NEW k \in Jobs PROVE job'[k].state = job[k].state
  BY <1>2, TimersKeepStates
<1> QED BY <1>1, <1>2, ManyShifts DEF Shift

LEMMA AdvanceFinish ==
    ASSUME LedgerTypeOK, LedgerTypeOK', NEW s \in Owners, NEW a \in AttemptIds,
           FinishAttempt(s, a)
    PROVE  Advanced
<1> DEFINE j == JobOf[a[1]]
<1>1. MayFinish(s, a) /\ LeaseReturned(a) /\ j \in Jobs
  BY FinishReturnsLease, LedgerAssumption DEF AttemptIds
<1>2. job[j].state = "RUNNING"
      /\ job'[j].state \in JobState \ {"ABSENT", "RUNNING"}
  BY <1>1 DEF MayFinish, LeaseReturned, LedgerTypeOK, JobRow
<1>3. \A k \in Jobs \ {j} : job'[k] = job[k]
  BY <1>1 DEF LeaseReturned
<1>4. \A x \in AttemptIds :
         (attempt'[x].state # "ABSENT") <=> (attempt[x].state # "ABSENT")
  BY <1>1 DEF MayFinish, LeaseReturned
<1> QED BY <1>1, <1>2, <1>3, <1>4, OneShift DEF Shift

LEMMA AdvanceRecover ==
    ASSUME LedgerTypeOK, RunnerInv, RecoverStaleAttempts
    PROVE  Advanced
<1>1. Recovered
  BY RecoverEffect
<1>2. ASSUME NEW k \in Jobs
      PROVE  /\ Shift(job[k].state, job'[k].state)
             /\ job'[k].state = "SUCCEEDED" => job[k].state = "SUCCEEDED"
  BY <1>1 DEF Recovered, Stale, Shift, JobState
<1>3. \A a \in AttemptIds :
         (attempt'[a].state # "ABSENT") <=> (attempt[a].state # "ABSENT")
  BY <1>1 DEF Recovered
<1> QED BY <1>2, <1>3, ManyShifts

LEMMA AdvanceResume ==
    ASSUME LedgerTypeOK, NEW j \in Jobs, NEW dimension \in Dimensions,
           Resume(j, dimension)
    PROVE  Advanced
<1>1. job[j].state \in {"BLOCKED_HUMAN", "WAITING", "RETRYING", "RECOVERING"}
  BY DEF Resume
<1>2. job'[j].state = "READY"
  BY DEF Resume, LedgerTypeOK, JobRow
<1>3. \A k \in Jobs \ {j} : job'[k] = job[k]
  BY DEF Resume, LedgerTypeOK
<1>4. attempt' = attempt
  BY DEF Resume
<1> QED BY <1>1, <1>2, <1>3, <1>4, OneShift DEF Shift

-----------------------------------------------------------------------------
(* The step that starts one                                                *)

\* An attempt that is started is one more, within the budget.
LEMMA StartSpends ==
    ASSUME LedgerTypeOK, AttemptBudget, NEW s \in Owners, NEW j \in Jobs,
           NEW b \in Branches, NEW n \in 1..AttemptBound, Started(s, j, b, n)
    PROVE  /\ Cardinality(Spent(j)) \in Nat
           /\ Cardinality(Spent(j)) < Cardinality(Allowed(j))
           /\ Cardinality(Spent(j)') = Cardinality(Spent(j)) + 1
           /\ \A k \in Jobs \ {j} : Spent(k)' = Spent(k)
<1> DEFINE new == <<b, n>>
<1>1. /\ new \in AttemptIds /\ JobOf[b] = j /\ n = branch[b].count + 1
      /\ n <= MaxAttempts[b] /\ branch[b].count \in Nat
  BY DEF AttemptIds, Started, LedgerTypeOK, BranchRow
<1>2. /\ attempt'[new].state = "RUNNING"
      /\ \A x \in AttemptIds \ {new} : attempt'[x] = attempt[x]
  BY DEF Started
<1>3. attempt[new].state = "ABSENT"
  BY <1>1 DEF AttemptBudget
<1>4. new \notin Spent(j) /\ Spent(j)' = Spent(j) \cup {new}
  BY <1>1, <1>2, <1>3 DEF Spent, AttemptsOf
<1>5. \A k \in Jobs \ {j} : Spent(k)' = Spent(k)
  BY <1>1, <1>2 DEF Spent, AttemptsOf
<1>6. IsFiniteSet(Spent(j)) /\ IsFiniteSet(Allowed(j))
  BY FiniteAttempts, FS_Subset DEF Spent, Allowed
<1>7. Spent(j) \cup {new} \subseteq Allowed(j)
  <2>1. ASSUME NEW a \in Spent(j) PROVE a[2] <= MaxAttempts[a[1]]
    <3>1. a \in AttemptIds /\ a[1] \in Branches /\ a[2] \in Nat
          /\ attempt[a].state # "ABSENT"
      BY DEF Spent, AttemptsOf, AttemptIds
    <3>2. /\ a[2] <= branch[a[1]].count
          /\ branch[a[1]].count <= MaxAttempts[a[1]]
      BY <3>1 DEF AttemptBudget
    <3>3. branch[a[1]].count \in Nat /\ MaxAttempts[a[1]] \in Nat
      BY <3>1, LedgerAssumption DEF LedgerTypeOK, BranchRow
    <3> QED BY <3>1, <3>2, <3>3
  <2> QED BY <1>1, <2>1 DEF Spent, Allowed, AttemptsOf
<1>8. Cardinality(Spent(j) \cup {new}) = Cardinality(Spent(j)) + 1
  BY <1>4, <1>6, FS_AddElement
<1>9. Cardinality(Spent(j) \cup {new}) <= Cardinality(Allowed(j))
  BY <1>6, <1>7, FS_Subset
<1>10. Cardinality(Spent(j)) \in Nat /\ Cardinality(Allowed(j)) \in Nat
  BY <1>6, FS_CardinalityType
<1> QED BY <1>4, <1>5, <1>8, <1>9, <1>10

LEMMA StartImplements ==
    ASSUME LedgerTypeOK, AttemptBudget, NEW s \in Owners, NEW j \in Jobs,
           NEW b \in Branches, NEW lag \in 0..MaxLag, StartAttempt(s, j, b, lag)
    PROVE  Lifecycle!Start
<1> DEFINE n == branch[b].count + 1
<1>1. Started(s, j, b, n) /\ n \in 1..AttemptBound
  BY StartEffect DEF Started
<1>2. /\ j \in ReadyNow /\ ClientStatus(job[j].state) = "queued"
      /\ ClientStatus(job'[j].state) = "running"
  BY <1>1 DEF StartAttempt, ReadyNow, Due, Started, ClientStatus
<1>3. ASSUME NEW k \in Jobs \ {j}
      PROVE  /\ Lifecycle!Moved(k)
             /\ (ClientStatus(job[k].state) = "running")
                   = (ClientStatus(job'[k].state) = "running")
  <2>1. Shift(job[k].state, job'[k].state)
    BY ShiftAside DEF StartAttempt, Shift
  <2>2. (job[k].state = "RUNNING") <=> (job'[k].state = "RUNNING")
    BY <1>1 DEF Started
  <2> QED BY <2>1, <2>2, ShiftMoves, StatusRunning DEF Lifecycle!Moved
<1> DEFINE spent == [k \in Jobs |-> Cardinality(Spent(k))]
<1>4. /\ spent[j] < Cardinality(Allowed(j))
      /\ spent' = [spent EXCEPT ![j] = spent[j] + 1]
  BY <1>1, StartSpends
<1>5. Lifecycle!Started(j)
  BY <1>2, <1>4 DEF Lifecycle!Started, Spent, Allowed
<1>6. [k \in Jobs |-> ClientStatus(job'[k].state)]
         \in [Jobs -> Lifecycle!Status]
  BY StatusType
<1> QED BY <1>3, <1>5, <1>6 DEF Lifecycle!Start

-----------------------------------------------------------------------------

LEMMA LifecycleStep ==
    ASSUME LedgerTypeOK, RunnerInv, AttemptBudget, [LedgerNext]_ledgerVars
    PROVE  [Lifecycle!LifecycleNext]_(Lifecycle!lifecycleVars)
<1>1. CASE UNCHANGED ledgerVars
  BY <1>1 DEF ledgerVars, Lifecycle!lifecycleVars, AttemptsOf
<1>2. CASE \E s \in Owners, j \in Jobs, b \in Branches, lag \in 0..MaxLag :
              StartAttempt(s, j, b, lag)
  BY <1>2, StartImplements DEF Lifecycle!LifecycleNext
<1>3. CASE /\ LedgerNext
           /\ ~\E s \in Owners, j \in Jobs, b \in Branches, lag \in 0..MaxLag :
                 StartAttempt(s, j, b, lag)
  <2>1. LedgerTypeOK'
    BY TypeStep
  <2>2. Advanced
    BY <1>3, <2>1, AdvanceSubmit, AdvanceClaimNothing, AdvanceTimers,
       AdvanceFinish, AdvanceRecover, AdvanceResume DEF LedgerNext, ClaimNext
  <2> QED BY <2>2, AdvancedImplements DEF Lifecycle!LifecycleNext
<1> QED BY <1>1, <1>2, <1>3

\* To its client a job has one life, whatever owners, claims, heartbeats,
\* finishes and recoveries do: the ledger implements JobLifecycle.
THEOREM LedgerImplementsLifecycle == LedgerSpec => ImplementsLifecycle
<1>1. LedgerInit => Lifecycle!LifecycleInit
  <2> SUFFICES ASSUME LedgerInit PROVE Lifecycle!LifecycleInit
    OBVIOUS
  <2>1. ASSUME NEW j \in Jobs
        PROVE  ClientStatus(job[j].state) = "none" /\ Spent(j) = {}
    BY DEF LedgerInit, ClientStatus, Spent, AttemptsOf
  <2>2. Cardinality({}) = 0
    BY FS_EmptySet
  <2> QED BY <2>1, <2>2 DEF Lifecycle!LifecycleInit, Spent
<1>2. LedgerTypeOK /\ RunnerInv /\ AttemptBudget /\ [LedgerNext]_ledgerVars
         => [Lifecycle!LifecycleNext]_(Lifecycle!lifecycleVars)
  BY LifecycleStep
<1> QED BY <1>1, <1>2, LedgerTypeCorrect, RunnerInvariant,
           LedgerAttemptBudget, PTL
        DEF LedgerSpec, ImplementsLifecycle, Lifecycle!LifecycleSpec

-----------------------------------------------------------------------------
(* The supervisors                                                         *)

\* A process that executes, or whose thread beats for an attempt, has one.
WorkInv ==
    \A s \in Owners :
        pc[s] = "execute" \/ thread[s] \in {"wait", "read"} => work[s] # NULL

\* Nobody was promised more than a lease that was read with the longest wait.
PromiseBounded ==
    \A s \in Owners : led[s] > 0 => led[s] + MaxLag <= SupervisorLease

SupervisorInv == TypeOK /\ WorkInv /\ LeaseHeld /\ PromiseBounded

\* Every step of a supervisor, a client or an operator is a step of the
\* ledger, or leaves the ledger alone.
LEMMA LedgerStep ==
    ASSUME SupervisorInv, [Next]_vars
    PROVE  [LedgerNext]_ledgerVars
<1>1. CASE UNCHANGED vars
  BY <1>1 DEF vars
<1>2. ASSUME NEW j \in Jobs, ClientSubmit(j)
      PROVE  LedgerNext
  BY <1>2 DEF ClientSubmit, LedgerNext
<1>3. ASSUME NEW s \in Owners, NEW lag \in 0..MaxLag,
             TickLead(s, lag) \/ KeepLead(s, lag)
      PROVE  UNCHANGED ledgerVars
  BY <1>3 DEF TickLead, KeepLead
<1>4. ASSUME NEW s \in Owners, TickRecover(s)
      PROVE  [LedgerNext]_ledgerVars
  BY <1>4 DEF TickRecover, LedgerNext
<1>5. ASSUME NEW s \in Owners, TickHold(s) \/ TickFinishRaises(s)
      PROVE  UNCHANGED ledgerVars
  BY <1>5 DEF TickHold, TickFinishRaises
<1>6. ASSUME NEW s \in Owners, TickClaim(s)
      PROVE  LedgerNext
  BY <1>6 DEF TickClaim, LedgerNext, ClaimNext
<1>7. ASSUME NEW s \in Owners, ThreadBeat(s)
      PROVE  [LedgerNext]_ledgerVars
  <2>1. work[s] \in AttemptIds
    BY <1>7 DEF ThreadBeat, SupervisorInv, WorkInv, TypeOK
  <2> QED BY <1>7, <2>1 DEF ThreadBeat, LedgerNext
<1>8. ASSUME NEW s \in Owners, ThreadWrite(s)
      PROVE  LedgerNext
  BY <1>8 DEF ThreadWrite, LedgerNext
<1>9. ASSUME NEW s \in Owners, TickFinish(s)
      PROVE  LedgerNext
  <2>1. work[s] \in AttemptIds
    BY <1>9 DEF TickFinish, SupervisorInv, WorkInv, TypeOK
  <2> QED BY <1>9, <2>1 DEF TickFinish, LedgerNext
<1>10. ASSUME NEW s \in Owners, Crash(s)
       PROVE  [LedgerNext]_ledgerVars
  BY <1>10 DEF Crash, LedgerNext
<1>11. ASSUME NEW j \in Jobs, NEW dimension \in Dimensions,
              OperatorResume(j, dimension)
       PROVE  LedgerNext
  BY <1>11 DEF OperatorResume, LedgerNext
<1>12. CASE TimePasses
  BY <1>12 DEF TimePasses, LedgerNext
<1> QED BY <1>1, <1>2, <1>3, <1>4, <1>5, <1>6, <1>7, <1>8, <1>9, <1>10,
           <1>11, <1>12 DEF Next

\* A process takes or keeps the leadership: whoever else was promised it would
\* have been respected, and its own promise is kept although the new lease may
\* end before the one it replaces.
LEMMA LeadKeeps ==
    ASSUME SupervisorInv, NEW s \in Owners, NEW lag \in 0..MaxLag, MayLead(s, lag),
           Lead(s, lag)
    PROVE  /\ leader' \in [owner : Owners \cup {NULL}, left : {t \in Int : t >= -MaxLag}]
           /\ led' \in [Owners -> 0..SupervisorLease] /\ LeaseHeld' /\ PromiseBounded'
<1> DEFINE granted == SupervisorLease - lag
           certain == granted - MaxLag
<1>1. /\ lag \in Nat /\ lag <= MaxLag /\ MaxLag \in Nat /\ SupervisorLease \in Nat
      /\ led \in [Owners -> 0..SupervisorLease] /\ leader.left \in Int
      /\ \A t \in Owners : led[t] \in Nat /\ led[t] <= SupervisorLease /\ t # NULL
  BY LedgerAssumption, SupervisorAssumption, NullAssumption DEF SupervisorInv, TypeOK
<1>2. /\ granted \in Int /\ granted >= -MaxLag /\ certain \in Int
      /\ certain <= SupervisorLease - MaxLag /\ certain <= granted
      /\ granted >= SupervisorLease - MaxLag
  BY <1>1
<1>3. /\ leader' = [owner |-> s, left |-> granted]
      /\ led' = [led EXCEPT ![s] = IF certain > led[s] THEN certain ELSE led[s]]
  BY DEF Lead
<1> HIDE DEF granted, certain
<1>4. leader' \in [owner : Owners \cup {NULL}, left : {t \in Int : t >= -MaxLag}]
  BY <1>2, <1>3
<1>5. /\ led'[s] \in 0..SupervisorLease
      /\ led'[s] > 0 => led'[s] + MaxLag <= SupervisorLease
      /\ \A t \in Owners : t # s => led'[t] = led[t]
  BY <1>1, <1>2, <1>3 DEF SupervisorInv, PromiseBounded
<1>6. led' \in [Owners -> 0..SupervisorLease]
  BY <1>1, <1>3, <1>5
<1>7. PromiseBounded'
  BY <1>5 DEF SupervisorInv, PromiseBounded
<1>8. ASSUME NEW t \in Owners, led'[t] > 0
      PROVE  leader'.owner = t /\ leader'.left >= led'[t]
  <2>1. CASE t = s
    BY <1>1, <1>2, <1>3, <1>5, <1>8, <2>1
  <2>2. CASE t # s
    <3>1. leader.owner = t /\ leader.left >= led[t] /\ led[t] > 0
      BY <1>5, <1>8, <2>2 DEF SupervisorInv, LeaseHeld
    <3>2. leader.owner \notin {NULL, s} /\ leader.left + lag > 0
      BY <1>1, <2>2, <3>1
    <3> QED BY <1>1, <3>2 DEF MayLead
  <2> QED BY <2>1, <2>2
<1>9. LeaseHeld'
  BY <1>8 DEF LeaseHeld
<1> QED BY <1>4, <1>6, <1>7, <1>9

\* Time passes for the leader as for those who count on leading.
LEMMA TimeKeeps ==
    ASSUME SupervisorInv, TimePasses
    PROVE  /\ leader' \in [owner : Owners \cup {NULL}, left : {t \in Int : t >= -MaxLag}]
           /\ led' \in [Owners -> 0..SupervisorLease] /\ LeaseHeld' /\ PromiseBounded'
<1>1. /\ MaxLag \in Nat /\ SupervisorLease \in Nat
      /\ leader \in [owner : Owners \cup {NULL}, left : {t \in Int : t >= -MaxLag}]
      /\ \A t \in Owners : led[t] \in 0..SupervisorLease
  BY LedgerAssumption, SupervisorAssumption DEF SupervisorInv, TypeOK
<1> DEFINE left == IF leader.left > -MaxLag THEN leader.left - 1 ELSE leader.left
<1>2. leader' = [leader EXCEPT !.left = left] /\ left \in Int /\ left >= -MaxLag
      /\ (leader.left > 0 => left = leader.left - 1)
  BY <1>1 DEF TimePasses
<1> HIDE DEF left
<1>3. leader'.owner = leader.owner /\ leader'.left = left
      /\ leader' \in [owner : Owners \cup {NULL}, left : {t \in Int : t >= -MaxLag}]
  BY <1>1, <1>2
<1>4. /\ led' = [t \in Owners |-> Older(led[t])]
      /\ \A t \in Owners : Older(led[t]) \in 0..SupervisorLease
                           /\ (Older(led[t]) > 0 => led[t] > 0 /\ Older(led[t]) = led[t] - 1)
  BY <1>1 DEF TimePasses, Older
<1>5. PromiseBounded'
  BY <1>1, <1>4 DEF SupervisorInv, PromiseBounded
<1>6. LeaseHeld'
  BY <1>1, <1>2, <1>3, <1>4 DEF SupervisorInv, LeaseHeld
<1> QED BY <1>3, <1>4, <1>5, <1>6

\* The supervisors' own variables keep their types, a process has an attempt as
\* long as it executes or beats, and it leads as long as it was promised.
LEMMA SupervisorStep ==
    ASSUME SupervisorInv, [Next]_vars
    PROVE  SupervisorInv'
<1>1. LedgerTypeOK'
  BY LedgerStep, TypeStep DEF SupervisorInv, TypeOK
<1> DEFINE Own ==
      /\ pc \in [Owners -> ProgramCounter]
      /\ work \in [Owners -> AttemptIds \cup {NULL}]
      /\ thread \in [Owners -> ThreadState]
      /\ WorkInv
    Led ==
      /\ leader \in [owner : Owners \cup {NULL}, left : {t \in Int : t >= -MaxLag}]
      /\ led \in [Owners -> 0..SupervisorLease]
      /\ LeaseHeld /\ PromiseBounded
<1>2. Own /\ Led /\ LedgerTypeOK
  BY DEF SupervisorInv, TypeOK
<1>3. ASSUME UNCHANGED <<leader, led>> PROVE Led'
  BY <1>2, <1>3 DEF LeaseHeld, PromiseBounded
<1>4. ASSUME UNCHANGED <<pc, work, thread>> PROVE Own'
  BY <1>2, <1>4 DEF WorkInv
<1>5. ASSUME NEW s \in Owners, NEW lag \in 0..MaxLag, TickLead(s, lag)
      PROVE  Own' /\ Led'
  <2>1. Led'
    BY <1>5, LeadKeeps DEF TickLead
  <2> QED BY <1>2, <1>5, <2>1 DEF TickLead, ProgramCounter, WorkInv
<1>6. ASSUME NEW s \in Owners, NEW lag \in 0..MaxLag, KeepLead(s, lag)
      PROVE  Own' /\ Led'
  <2>1. Led'
    BY <1>3, <1>6, LeadKeeps DEF KeepLead
  <2>2. pc' = pc /\ work' = work
    BY <1>6 DEF KeepLead
  <2>3. /\ thread' \in [Owners -> ThreadState]
        /\ \A t \in Owners : thread'[t] \in {"wait", "read"} => thread[t] \in {"wait", "read"}
    BY <1>2, <1>6 DEF KeepLead, ThreadRenewed, ThreadState
  <2> QED BY <1>2, <2>1, <2>2, <2>3 DEF WorkInv
<1>7. ASSUME NEW s \in Owners, TickRecover(s) \/ TickHold(s)
      PROVE  Own' /\ Led'
  <2>1. Led'
    BY <1>3, <1>7 DEF TickRecover, TickHold
  <2> QED BY <1>2, <1>7, <2>1 DEF TickRecover, TickHold, ProgramCounter, WorkInv
<1>8. ASSUME NEW s \in Owners, TickClaim(s)
      PROVE  Own' /\ Led'
  <2>1. Led'
    BY <1>3, <1>8 DEF TickClaim
  <2>2. CASE ClaimNothing /\ pc' = [pc EXCEPT ![s] = "idle"] /\ UNCHANGED <<work, thread>>
    BY <1>2, <2>1, <2>2 DEF ProgramCounter, WorkInv
  <2>3. ASSUME NEW j \in Jobs, NEW b \in Branches, NEW lag \in 0..MaxLag,
               StartAttempt(s, j, b, lag),
               work' = [work EXCEPT ![s] = <<b, branch[b].count + 1>>],
               pc' = [pc EXCEPT ![s] = "execute"],
               thread' = [thread EXCEPT ![s] = "wait"]
        PROVE  Own'
    <3>1. <<b, branch[b].count + 1>> \in AttemptIds
      BY <1>2, <2>3, StartEffect DEF Started, AttemptIds
    <3>2. <<b, branch[b].count + 1>> # NULL
      BY <3>1, NullAssumption DEF AttemptIds
    <3> QED BY <1>2, <2>3, <3>1, <3>2 DEF ProgramCounter, ThreadState, WorkInv
  <2> QED BY <1>8, <2>1, <2>2, <2>3 DEF TickClaim
<1>9. ASSUME NEW s \in Owners, ThreadBeat(s)
      PROVE  Own' /\ Led'
  <2>1. pc' = pc /\ work' = work /\ Led'
    BY <1>3, <1>9 DEF ThreadBeat
  <2>2. /\ thread' \in [Owners -> ThreadState]
        /\ \A t \in Owners : thread'[t] \in {"wait", "read"} => thread[t] \in {"wait", "read"}
    BY <1>2, <1>9 DEF ThreadBeat, ThreadState
  <2> QED BY <1>2, <2>1, <2>2 DEF WorkInv
<1>10. ASSUME NEW s \in Owners, TickDone(s)
       PROVE  Own' /\ Led'
  <2>1. Led'
    BY <1>3, <1>10 DEF TickDone
  <2> QED BY <1>2, <1>10, <2>1 DEF TickDone, ProgramCounter, ThreadState, WorkInv
<1>11. ASSUME NEW s \in Owners, Crash(s)
       PROVE  Own' /\ Led'
  <2>1. Own'
    BY <1>2, <1>11 DEF Crash, ProgramCounter, ThreadState, WorkInv
  <2>2. /\ leader' = leader /\ led' \in [Owners -> 0..SupervisorLease]
        /\ \A t \in Owners : led'[t] > 0 => led'[t] = led[t]
    <3>1. SupervisorLease \in Nat /\ led' = [led EXCEPT ![s] = 0]
      BY <1>11, SupervisorAssumption DEF Crash
    <3> QED BY <1>2, <1>11, <3>1 DEF Crash
  <2>3. Led'
    BY <1>2, <2>2 DEF LeaseHeld, PromiseBounded
  <2> QED BY <2>1, <2>3
<1>12. ASSUME TimePasses PROVE Own' /\ Led'
  BY <1>4, <1>12, TimeKeeps DEF TimePasses
<1> HIDE DEF Own, Led
<1>13. Own' /\ Led'
  BY <1>3, <1>4, <1>5, <1>6, <1>7, <1>8, <1>9, <1>10, <1>11, <1>12
     DEF Next, ClientSubmit, OperatorResume, ThreadWrite, TickFinish,
         TickFinishRaises, vars, supervisorVars
<1> QED BY <1>1, <1>13 DEF Own, Led, SupervisorInv, TypeOK

LEMMA SupervisorInvariant == Spec => []SupervisorInv
<1>1. Init => SupervisorInv
  <2> SUFFICES ASSUME Init PROVE SupervisorInv
    OBVIOUS
  <2>1. LedgerTypeOK
    BY TypeInit DEF Init
  <2>2. MaxLag \in Nat /\ SupervisorLease \in Nat /\ 0 \in {t \in Int : t >= -MaxLag}
        /\ 0 \in 0..SupervisorLease
    BY LedgerAssumption, SupervisorAssumption
  <2>3. LeaseHeld /\ PromiseBounded
    BY DEF Init, LeaseHeld, PromiseBounded
  <2> QED BY <2>1, <2>2, <2>3 DEF Init, SupervisorInv, TypeOK, WorkInv, ProgramCounter,
             ThreadState
<1>2. SupervisorInv /\ [Next]_vars => SupervisorInv'
  BY SupervisorStep
<1> QED BY <1>1, <1>2, PTL DEF Spec

\* "Single-leader scheduler": whichever processes pause, crash, start late or
\* write late from readings of the clock taken before, a process that was told
\* it leads is the leader that long, less the longest wait for the write lock.
THEOREM SupervisorLeaseHeld == Spec => []SupervisorHolds
<1>1. SupervisorInv => SupervisorHolds
  BY DEF SupervisorInv, SupervisorHolds
<1> QED BY <1>1, SupervisorInvariant, PTL

\* What is proved of the ledger, which admits any caller, holds for it in the
\* hands of the supervisors.
LEMMA SupervisorUsesLedger == Spec => LedgerSpec
<1>1. Init => LedgerInit
  BY DEF Init
<1>2. SupervisorInv /\ [Next]_vars => [LedgerNext]_ledgerVars
  BY LedgerStep
<1> QED BY <1>1, <1>2, SupervisorInvariant, PTL DEF Spec, LedgerSpec
=============================================================================
