-------------------------- MODULE FarmerSupervisor --------------------------
(***************************************************************************)
(* Supervisor processes (Projects/AurumFarmer/aurum_farmer/supervisor.py)  *)
(* over one ledger.  Each process repeats tick(): take or keep the         *)
(* leadership, recover stale attempts, claim, execute, finish.  While it   *)
(* executes, a heartbeat thread of the process renews the leadership and   *)
(* the attempt's lease.  A process may stop for any time between two       *)
(* steps while the clock runs, and some may crash; a process started later *)
(* has a fresh owner id, so it is another member of Owners.                *)
(*                                                                         *)
(* explore() records decisions only and is not a step here; the engine's   *)
(* verdict enters through Admissible and Score.                            *)
(***************************************************************************)
EXTENDS FarmerLedger

CONSTANTS
    SupervisorLease,    \* lease_seconds of supervisor_heartbeat
    MayCrash            \* the processes that may crash

ASSUME SupervisorAssumption ==
    SupervisorLease \in Nat /\ MayCrash \subseteq Owners

VARIABLES
    leader,     \* the supervisor_leases row; left is negative once it is over
    pc,         \* where tick() of a process stands
    work,       \* the attempt the process executes, or NULL
    thread,     \* its attempt heartbeat thread
    led         \* history: how long the process is to lead for certain

supervisorVars == <<leader, pc, work, thread, led>>

vars == <<ledgerVars, supervisorVars>>

\* idle: between ticks; recover: leads; prepare: recovered, about to claim;
\* execute: between claim and finish; down: crashed.
ProgramCounter == {"idle", "recover", "prepare", "execute", "down"}

\* wait: sleeping or in supervisor_heartbeat; read: about to call
\* heartbeat_attempt; late: the tick has ended and waited two seconds for the
\* thread, which is in supervisor_heartbeat all the same; off: returned.
ThreadState == {"off", "wait", "read", "late"}

TypeOK ==
    /\ LedgerTypeOK
    /\ leader \in [owner : Owners \cup {NULL}, left : {t \in Int : t >= -MaxLag}]
    /\ pc \in [Owners -> ProgramCounter]
    /\ work \in [Owners -> AttemptIds \cup {NULL}]
    /\ thread \in [Owners -> ThreadState]
    /\ led \in [Owners -> 0..SupervisorLease]

Init ==
    /\ LedgerInit
    /\ leader = [owner |-> NULL, left |-> 0]
    /\ pc = [s \in Owners |-> "idle"]
    /\ work = [s \in Owners |-> NULL]
    /\ thread = [s \in Owners |-> "off"]
    /\ led = [s \in Owners |-> 0]

-----------------------------------------------------------------------------
(* Leadership                                                              *)

\* supervisor_heartbeat is refused while another owner's lease is in the
\* future, seen from a clock reading lag seconds ago: the call may have waited
\* for the write lock since.
MayLead(s, lag) == leader.owner \in {NULL, s} \/ leader.left + lag <= 0

\* The lease runs from that reading too, so that of two threads of a process
\* the one that writes later may shorten it.
Lead(s, lag) ==
    LET granted == SupervisorLease - lag
        certain == granted - MaxLag
    IN
    /\ leader' = [owner |-> s, left |-> granted]
    /\ led' = [led EXCEPT ![s] = IF certain > @ THEN certain ELSE @]

\* The first step of tick(); a refused process is on standby.
TickLead(s, lag) ==
    /\ pc[s] = "idle"
    /\ MayLead(s, lag)
    /\ Lead(s, lag)
    /\ pc' = [pc EXCEPT ![s] = "recover"]
    /\ UNCHANGED <<ledgerVars, work, thread>>

\* The next step of a thread that has come back from supervisor_heartbeat.
\* Bound: one that outlived its tick does not call heartbeat_attempt again.
ThreadRenewed(s) ==
    \/ thread[s] = "wait" /\ thread' = [thread EXCEPT ![s] = "read"]
    \/ thread[s] = "late" /\ thread' = [thread EXCEPT ![s] = "off"]

\* Mutation: a heartbeat takes the leadership back.
KeepLeadAlways(s, lag) ==
    /\ (pc[s] = "prepare" /\ UNCHANGED thread) \/ ThreadRenewed(s)
    /\ Lead(s, lag)
    /\ UNCHANGED <<ledgerVars, pc, work>>

\* _heartbeat_worker renews the leadership while the process prepares or
\* executes, and once more if it outlives its tick.  It ignores the answer.
KeepLead(s, lag) ==
    /\ (pc[s] = "prepare" /\ UNCHANGED thread) \/ ThreadRenewed(s)
    /\ IF MayLead(s, lag) THEN Lead(s, lag) ELSE UNCHANGED <<leader, led>>
    /\ UNCHANGED <<ledgerVars, pc, work>>

-----------------------------------------------------------------------------
(* The rest of tick()                                                      *)

\* Mutation: the watchdog step is skipped.
TickRecoverSkipped(s) ==
    /\ pc[s] = "recover"
    /\ pc' = [pc EXCEPT ![s] = "prepare"]
    /\ UNCHANGED <<ledgerVars, leader, work, thread, led>>

TickRecover(s) ==
    /\ pc[s] = "recover"
    /\ \/ RecoverStaleAttempts
       \/ ~(\E j \in Jobs : Stale(j)) /\ UNCHANGED ledgerVars
    /\ pc' = [pc EXCEPT ![s] = "prepare"]
    /\ UNCHANGED <<leader, work, thread, led>>

\* The failure explorer is unhealthy or reported a violation: no claim.
TickHold(s) ==
    /\ pc[s] = "prepare"
    /\ pc' = [pc EXCEPT ![s] = "idle"]
    /\ UNCHANGED <<ledgerVars, leader, work, thread, led>>

\* claim_next: the leadership is not looked at again.  Bound: a thread that
\* outlived its tick has returned by then, or writes nothing more.
TickClaim(s) ==
    /\ pc[s] = "prepare"
    /\ \/ /\ \E j \in Jobs, b \in Branches, lag \in 0..MaxLag :
                /\ StartAttempt(s, j, b, lag)
                /\ work' = [work EXCEPT ![s] = <<b, branch[b].count + 1>>]
          /\ pc' = [pc EXCEPT ![s] = "execute"]
          /\ thread' = [thread EXCEPT ![s] = "wait"]
       \/ /\ ClaimNothing
          /\ pc' = [pc EXCEPT ![s] = "idle"]
          /\ UNCHANGED <<work, thread>>
    /\ UNCHANGED <<leader, led>>

\* heartbeat_attempt by the thread: it returns for good once the attempt is
\* no longer this process's.
ThreadBeat(s) ==
    /\ thread[s] = "read"
    /\ beat[s].job = NULL
    /\ \/ /\ HeartbeatRead(s, work[s])
          /\ thread' = [thread EXCEPT ![s] = "wait"]
       \/ /\ attempt[work[s]].state # "RUNNING"
          /\ thread' = [thread EXCEPT ![s] = "off"]
          /\ UNCHANGED ledgerVars
    /\ UNCHANGED <<leader, pc, work, led>>

\* The write of a beat; the thread may outlive its tick here, too.
ThreadWrite(s) ==
    /\ pc[s] # "down"
    /\ HeartbeatWrite(s)
    /\ UNCHANGED supervisorVars

\* The heartbeat thread is told to end.
TickDone(s) ==
    /\ pc' = [pc EXCEPT ![s] = "idle"]
    /\ work' = [work EXCEPT ![s] = NULL]
    /\ \/ thread' = [thread EXCEPT ![s] = "off"]
       \/ thread[s] = "wait" /\ thread' = [thread EXCEPT ![s] = "late"]
    /\ UNCHANGED <<leader, led>>

\* The executor returned, or raised and was given a failed result, and
\* finish_attempt committed.
TickFinish(s) ==
    /\ pc[s] = "execute"
    /\ FinishAttempt(s, work[s])
    /\ TickDone(s)

\* finish_attempt raised: the attempt was taken away, or the database or the
\* verifier failed.  run_forever goes on with the next tick.
TickFinishRaises(s) ==
    /\ pc[s] = "execute"
    /\ UNCHANGED ledgerVars
    /\ TickDone(s)

Crash(s) ==
    /\ s \in MayCrash
    /\ pc[s] # "down"
    /\ pc' = [pc EXCEPT ![s] = "down"]
    /\ work' = [work EXCEPT ![s] = NULL]
    /\ thread' = [thread EXCEPT ![s] = "off"]
    /\ led' = [led EXCEPT ![s] = 0]
    /\ \/ HeartbeatLost(s)
       \/ beat[s].job = NULL /\ UNCHANGED ledgerVars
    /\ UNCHANGED leader

-----------------------------------------------------------------------------
(* Clients, operators and the clock                                        *)

ClientSubmit(j) == Submit(j) /\ UNCHANGED supervisorVars

OperatorResume(j, dimension) ==
    Resume(j, dimension) /\ UNCHANGED supervisorVars

TimePasses ==
    /\ Tick
    /\ leader' = [leader EXCEPT !.left = IF @ > -MaxLag THEN @ - 1 ELSE @]
    /\ led' = [s \in Owners |-> Older(led[s])]
    /\ UNCHANGED <<pc, work, thread>>

Next ==
    \/ \E j \in Jobs : ClientSubmit(j)
    \/ \E s \in Owners, lag \in 0..MaxLag : TickLead(s, lag)
    \/ \E s \in Owners, lag \in 0..MaxLag : KeepLead(s, lag)
    \/ \E s \in Owners : TickRecover(s)
    \/ \E s \in Owners : TickHold(s)
    \/ \E s \in Owners : TickClaim(s)
    \/ \E s \in Owners : ThreadBeat(s)
    \/ \E s \in Owners : ThreadWrite(s)
    \/ \E s \in Owners : TickFinish(s)
    \/ \E s \in Owners : TickFinishRaises(s)
    \/ \E s \in Owners : Crash(s)
    \/ \E j \in Jobs, dimension \in Dimensions : OperatorResume(j, dimension)
    \/ TimePasses

Spec == Init /\ [][Next]_vars

\* A process keeps taking its steps until it crashes, its executors return
\* (each runs under a timeout) and the failure explorer does not hold every
\* claim forever.  Heartbeat threads, clients and operators owe nothing.
Fairness ==
    /\ WF_vars(TimePasses)
    /\ \A s \in Owners :
          /\ WF_vars(\E lag \in 0..MaxLag : TickLead(s, lag))
          /\ WF_vars(TickRecover(s))
          /\ SF_vars(TickClaim(s))
          /\ WF_vars(TickFinish(s) \/ TickFinishRaises(s))

FairSpec == Spec /\ Fairness

-----------------------------------------------------------------------------
(* Properties                                                              *)

\* "Single-leader scheduler" (supervisor.py:18): a process that was told it
\* leads is the leader that long, but for the wait for the write lock, although
\* its threads renew the lease from older readings and others stand by to take
\* it.  So two processes recover and claim side by side only when the first has
\* paused beyond its lease.
LeaseHeld ==
    \A s \in Owners :
        led[s] > 0 => leader.owner = s /\ leader.left >= led[s]

\* A running job always stops running, whether its process finishes it, loses
\* it or crashes with it: some process that survives recovers the lease.
RunningEnds ==
    \A j \in Jobs : job[j].state = "RUNNING" ~> job[j].state # "RUNNING"

\* A job that is ready, or whose retry or recovery delay runs, is taken up:
\* it is claimed or set aside with a reason, and not passed over forever.
ScheduledJobMoves ==
    \A j \in Jobs :
        job[j].state \in {"READY", "RETRYING", "RECOVERING"} ~>
            job[j].state \notin {"READY", "RETRYING", "RECOVERING"}

\* "keeps advancing it" (README.md): a job ends, or stops at a human.
EventuallySettled ==
    \A j \in Jobs :
        job[j].state = "READY" ~>
            job[j].state \in TerminalState \cup {"BLOCKED_HUMAN"}

\* What must be true of the supervisors in every state.
SupervisorHolds == TypeOK /\ LeaseHeld
=============================================================================
