# A TLA+ model of BoxBrain's durable execution

BoxBrain is a workstation controller and a family of projects around it. Most of
the repository is tooling, experiments and documents. The part whose mistakes are
expensive and hard to test is the part that *does things on someone's behalf and
must not do them twice, forget them, or do them after being told to stop*, and the
part that *changes a machine and must be able to change it back*:

- **Aurum Farmer** (`Projects/AurumFarmer/aurum_farmer`), which keeps jobs in a
  SQLite ledger and advances them from supervisor processes that may pause, crash
  and overlap; its decision engine, failure explorer, resource governor and
  workflow executor;
- the **operation gate**, a journal that admits each effectful operation once, and
  its two clients: the controller's middleware and the **Aurum worker**
  (`Projects/Aurum/Core/Farmer-v3`);
- the **controller's handlers and services**: emergency stop, diagnostics, remote
  sessions, scripts, Copilot packets, processing runs, the fleet;
- the **programs of the Raspberry Pis**: A/B slots of Aurum Germ, the Kali Pi's
  rescue boot, keyboard broker, synchronisation and computer registry, adaptive
  drivers and the overnight laboratory.

This directory models these and checks them with TLC on small instances. Every
safety invariant and action property of the passing runs, and the refinement of the
ledger, is also proved with TLAPS, for all values of the constants; liveness is
checked by TLC only.

## Inventory

| Component | State | Operations | Interacts with | What is hard |
|---|---|---|---|---|
| Farmer ledger (`ledger.py`) | SQLite tables `jobs`, `branches`, `attempts`, `future_quarantines`, `last_known_good` | `submit`, `claim_next`, `heartbeat_attempt`, `finish_attempt`, `recover_stale_attempts`, `resume` | supervisors, API and CLI write to the same file | leases that expire while their owner lives, a heartbeat that is two statements, late finishes, budgets across recovery |
| Supervisor (`supervisor.py`) | `supervisor_leases`; the position in `tick`, its threads | `tick`, `_heartbeat_worker`, `run_forever` | ledger, executors, explorer | pauses between lease and claim, crash between claim and finish |
| Decision engine, oracle (`decision_engine.py`, `failure_oracle.py`) | `future_decisions`, through the ledger | `evaluate`, `explore`, `_decide` | ledger, probes | evidence found in one state and used in another |
| Failure explorer, watchdog (`failure_explorer.py`) | frontier, lease and runtime rows; a child process | `Frontier.batch`, `_watch` | supervisor holds claims while it is unhealthy | lease takeover with old cursors, restart rules, corrupt checkpoint |
| Resource governor (`resource_budget.py`) | mode and two counters | `choose` | explorer | hysteresis at thresholds |
| Workflow executor (`executors.py`) | GitHub; evidence of attempts | `execute` | ledger, GitHub | effect done, evidence not stored |
| Operation gate (`operation_gate.py`) | `future_operations` | `begin`, `finish` | middleware, Aurum worker | duplicated requests, lost and late finishes |
| Middleware (`future_branch.py`) | per request: ticket, `finished` | `__call__`, `observe` | gate, handlers | cancellation at any await while threads run on |
| Aurum worker (`aurum_worker.py`, `aurum_hive.py`) | directives, receipts, journal | `drain`, `_dispatch`, `farmer_plan` | gate, tools, wake socket | deaths, lost wakes, parallel items of one plan |
| Emergency stop, audit stream (`task_store.py`) | `controller_state`, `audit_events` | `engage`, `reset` | the handlers of diagnoses and launches | check, then act |
| Diagnostic executor (`diagnostic_executor.py`) | `diagnostic_proposals` | `propose`, `list`, `execute` | stop, targets, SSH | double approval, expiry racing execution |
| Script-first runner, Copilot offload | a log; packet directories | `execute`; `prepare`, `dispatch` | gate, scripts, CLI | look, act, log, with no lock; torn writes |
| Processing store and agents | runs, usage, tasks | `process`, `save`, `save_model_run` | planner, provider | equal requests in parallel |
| Fleet (`fleet.py`) | machines, provisioning runs, steps | `create`, import, `start_provisioning`, `complete_step` | remote targets | each access its own transaction |
| Germ guardian and recovery (`guardian.py`, `reseed.py`, `recovery_poller.py`, `rollback_drill.py`) | link `/opt/aurum`, `slots.json`, two slots | arm, preflight, health check, rollback, regrow, restore | systemd, signed requests | power cuts between two files |
| Rescue boot (`rescue_boot.py`) | `next-boot.json`, `active-boot.json`, images | import, arm, cancel, consume | early service, gadget service | one shot across power cuts |
| HID broker (`hid_kvm.py`) | pressed keys, last use | every request, watchdog | USB host | writes that fail half way |
| Edge sync (`sync.py`) | event queue, action inbox | `run_once` | server, local API | lost answers, repeated actions |
| Computer registry (`links.py`, `link_monitor.py`) | a file per address, a file per machine | `save_link`, `record_computer`, edits | monitor, discovery, console | read, merge and write without a lock while addresses move |
| Adaptive drivers (`adaptive_driver_loop.py`) | `lkg.json`, snapshots | run, promote, roll back | kernel, operator | two runs and a rollback at once |
| Overnight laboratory (`pi3_overnight_lab.py`) | values of the kernel, timers | stages | systemd, `sysctl`, modules | commands that time out, death with a change in place |
| Edge server and console, plugins, organisers, Codelation, installers and others | tables behind one lock, files, none | request by request | API | mostly sequential |

`PROJECT.json` lists every component with its status and the reason where it is
left out, and the hazards at the line where each one bites.

What makes each component correct:

- *ledger*: a job never has two runners, succeeds through exactly one verified
  attempt, never exceeds its attempt budget, never passes a human boundary, a
  closed attempt is never touched again, and to its client the job lives the life
  that `JobLifecycle` promises;
- *supervisor*: a process that was told it leads is the leader for that long, and a
  job always leaves RUNNING even when its process is gone;
- *decision engine*: its verdict on a candidate is that of the independent oracle;
  evidence counts only for the state it was found in; what is selected has passed
  its tier and can be undone;
- *explorer, governor, executor*: the lease holder works on the rows as stored, no
  cursor moves back, shapes are explored to the end, orphans stop; a full budget is
  earned; a retry dispatches again only when the dispatch was lost;
- *gate and clients*: no effect runs again before the outcome of its last run is
  known; the stop is always reachable; a worker files a receipt for everything it
  was woken for;
- *controller services*: an approval starts one command, no diagnosis and no launch
  is in progress under the stop, an answer is given only for work that was done and is
  the same for all who ask; the fleet's status has a run behind it;
- *Pis*: `slots.json` never contradicts itself, a machine at rest runs what it says
  unless commands clashed, and a trial ends; a rescue image is
  shown only as armed; nothing stays pressed; no event, action, machine or edit is
  lost; a promoted driver can be rolled back and a changed kernel is restored.

## Modules

| Module | Models | Run |
|---|---|---|
| `FarmerLedger` | `ledger.py`; arbitrary callers | `ledger` |
| `JobLifecycle` | what a client sees of a job (abstract) | |
| `LedgerLifecycle` | refinement mapping from the ledger to `JobLifecycle` | `ledger` |
| `FarmerSupervisor` | `supervisor.py`, composed with `FarmerLedger` | `supervisor` |
| `FutureBranches` | `decision_engine.py`, `failure_oracle.py`, the ledger's decision records | `controller` |
| `FailureExplorer` | `failure_explorer.py` | `helpers` |
| `ResourceGovernor`, `WorkflowDispatch` | `resource_budget.py`; the GitHub executor | `helpers` |
| `OperationGate` | `operation_gate.py`, `future_branch.py` | `gate` |
| `FarmerWorker` | `aurum_worker.py`, `aurum_hive.py` | `gate` |
| `ControllerActions` | `task_store.py`, `diagnostic_executor.py`, handlers of `api.py` | `controller` |
| `ScriptFirst`, `CopilotWork`, `ProcessingRuns` | the services of those names | `controller` |
| `FleetProvisioning` | `fleet.py` | `controller` |
| `GermGuardian` | `Projects/Aurum/Germ` | `germ` |
| `RescueBoot`, `HidKvm`, `EdgeSync` | the Kali Pi's programs of those names | `pi` |
| `EdgeComputers` | `links.py`, `link_monitor.py` | `controller` |
| `AdaptiveDrivers`, `OvernightLab` | the two experiments on a Pi 3 | `pi` |
| `FarmerLedgerProofs` | theorems about `FarmerLedger` | |
| `FarmerProofs` | the refinement of `LedgerLifecycle`; theorems about `FarmerSupervisor` | |
| `FarmerHelpersProofs` | theorems about `FailureExplorer`, `ResourceGovernor`, `WorkflowDispatch` | |
| `GateProofs` | theorems about `OperationGate`, `FarmerWorker` | |
| `ControllerProofs` | theorems about `ControllerActions`, `ScriptFirst`, `CopilotWork`, `ProcessingRuns` | |
| `GermProofs` | theorems about `GermGuardian` | |
| `PiProofs` | theorems about `RescueBoot`, `HidKvm`, `EdgeSync`, `AdaptiveDrivers`, `OvernightLab` | |
| `RecordsProofs` | theorems about `FleetProvisioning`, `EdgeComputers`, `FutureBranches` | |
| `MC...` | constants and workloads for TLC | |

Components that share no state are checked together: the `MC` module extends all of
them, a variable (`focus`, `part`, `side`) chooses at the start which one the
behaviour follows, and the others rest in their initial state. `MCController` puts
`MCServices` (stop, scripts, packets, processing) and `MCRecords` (fleet, computers,
decision engine) together in this way. Nothing is interleaved that cannot
interact, and each behaviour is one of the component alone. `MCFarmerLedger` and
`MCGateClients` choose a workload in the same way.

### FarmerLedger, JobLifecycle

One variable per table: `job`, `branch`, `attempt` (keyed by branch and attempt
number), `quarantine`, `lkg`. Every writing method of `Ledger` is one
`BEGIN IMMEDIATE` transaction and so one action. The exception is
`heartbeat_attempt`, which runs its SELECT and UPDATEs in autocommit mode; it is
split into `HeartbeatRead` and `HeartbeatWrite`, with the call in between held in
`beat`. `finish_attempt` with `_schedule_or_fail` is one alternative per outcome
(`FinishVerified`, `FinishHumanRequired`, `FinishWaiting`, `FinishRetry`,
`FinishQuarantine`, under `FinishAttempt`).

Abstractions: timestamps are relative to the present, since the code only compares
them with `time.time()`; `Tick` is the clock, and a transaction may wait up to
`MaxLag` for the write lock after it read the clock. The engine's verdict is the
default static tier: a branch is admitted when it passes the time-independent
checks and is open, within budget and without boundary; the best `Score` wins.
Operations, scopes and failures are model values; a receipt is one Boolean. An
owner has at most one heartbeat call under way. RECEIVED, PLANNED and VERIFYING are
entered and left inside one transaction, and nothing enters CANCELLED.

`JobLifecycle` is what a client is promised: one runner at a time, each run spends
one attempt of a fixed budget, the job ends once and from a run. `LedgerLifecycle`
maps the tables to it (RETRYING, WAITING and RECOVERING are *queued*) and
`ImplementsLifecycle` is `JobLifecycle!LifecycleSpec` under that mapping.

### FarmerSupervisor

Each process is a program counter over `tick()`: `TickLead`, `TickRecover`,
`TickHold` or `TickClaim`, then `TickFinish` or `TickFinishRaises`. `KeepLead`,
`ThreadBeat` and `ThreadWrite` are its heartbeat threads. A process may sleep
between any two steps while `TimePasses`; those in `MayCrash` may `Crash`. A
restarted process has a new owner id and is another member of `Owners`. The
failure explorer's health is a free choice. The ledger's actions are used as they
are, so that each step of a supervisor is one of the ledger by construction; a lemma
(`SupervisorUsesLedger`) says so, and no property rests on it.

`supervisor_heartbeat` reads the clock before it waits for the write lock: `MayLead`
and `Lead` take a reading that is up to `MaxLag` old. A thread that renews the lease
may therefore write after another one and shorten it, and `tick` waits only two
seconds for its heartbeat thread, so that a thread may outlive its tick (`"late"`)
and renew once more. Bounds: a late thread does not call `heartbeat_attempt` again,
and by the next claim it has returned or writes nothing more. The history
`led` is how long a process is to lead for certain, the longest of the grants it was
given; `LeaseHeld` says that the row bears this out. What `LeaseHeld` does not say
is that a process leads when it recovers or claims: `tick` does not look at
the lease again, see the remarks below.

### FutureBranches

`evaluate` as operators: `Static` (the reasons in their order, with redundancy),
`Survivors`, `Probed` (one tier: contenders, the best first, halved per tier, within
the probe units), `Deepen` (the four tiers one after the other), `Automatic`,
`Selected`. A *world* is the snapshot and the branches of a job in one state, and a
branch the fields the engine reads of it (`Branches`); `version` stands for the state
id. `ExploreReads`, `ExploreProbes` and `ExploreRecords` are the three parts
of `explore`, in any thread; `Decides` is `_decide` in `claim_next`; `Recorded` is
INSERT OR IGNORE. `ran` and `overtaken` are history variables.
`OracleAgrees` compares the engine with `verify_model` on every catalogue candidate
(a good one with every one and two changes).

Abstractions: estimates in hundredths, confidence times impact is one number; the
clock's verdicts (due, expired) are facts of a candidate, so are verified parents;
the nodes of a report, which carry no authority, are left out.

### FailureExplorer, ResourceGovernor, WorkflowDispatch

`cursor`, `corrupt`, `lease` and `fresh` are the database: frontier rows, rows with
a broken seal, the lease row, and whether the runtime row is younger than ten
seconds. Per supervisor, `pc`, `local`, `todo` and `item` are the worker's batch:
`TakeLease`, `Capture`, `ReadFrontier` or `Reject`, then one `Commit` per case and
`EndSlice` per shape, then `Publish`; `Standby` is a write that finds the lease
gone. Each is one transaction of `Frontier.batch`. `Hold` and `Replace` are a
round of `_watch`, with `blocked` for `blocked_checkpoint`. A row is its cursor,
since counters and receipts follow from it; the order of shapes and the point where
a budget ends a slice are free; clocks are the three questions the code asks (lease
live, status fresh, worker older than its grace), and may outrun a worker that
makes progress at most `MaxSlow` times; a replaced worker has a new owner id, so a
lease of its predecessor belongs to `GONE`. Deaths, hangs, damaged rows (at most
`MaxFaults`) and `Restore` come from outside. `renewed` is a history variable.

`ResourceGovernor` reduces a sample to what the thresholds make of it and keeps the
samples as a history; `FullBudgetEarned` is stated over that history. In
`WorkflowDispatch` an attempt dispatches unless evidence of an earlier one is
found, then adopts the first run that is young enough, since GitHub does not say
which run a dispatch created; `losses` counts the dispatches whose evidence was
lost. Other clients dispatch the same workflow.

### OperationGate, FarmerWorker

`row` is the journal, one row per fingerprint (the digest of operation, input,
observed workspace and implementation). Per request: where the coroutine is
(`pc`), whether its handler runs (`handler`), the `finish` calls its worker threads
still carry (`calls`) and the local flag `finished`. `begin` and `finish` run in
threads that a cancellation does not stop; so do synchronous handlers. `Cancel` may
hit any await; `BeginFails` and `FinishFails` are errors of the database; `Crash`
loses everything but the journal. `recorded` is a history variable.

In `FarmerWorker` a directive is published, then the worker is woken; `Listen`,
`Accept` and `ReadPending` are the socket and `drain`; `AdmissionRaises` is an error
of the database in `begin` or in the event after it; a plan dispatches the items
that are ready in rounds of parallel calls, with dependencies and fallbacks; `Die`
loses the process and what runs in it, and systemd starts it again. A batch of
directives is a set; what is due is worked oldest first (`Before`). Left out: the
bodies of the tools, a refusal by the engine, a plan nested in the `future_branch`
tool, Hive events without a directive, the stop event; the workspace does not
change, and a directive is listed once (the join on tags could list it twice).

### ControllerActions

A request is a thread that runs one handler; `pc` says between which lock,
database access or process launch it is. `control_lock` is the handlers' common
lock; `list` does not take it. `stop`, `event` and `proposal` are tables and
survive `Crash`. `Lapse` is the clock passing a proposal's expiry. `started` is a
history variable. Outcome events carry the generation of the stop in force, which
the code writes only in stop and blocked events, so that `AuditReplays` can relate
them. The audit event of a new proposal is left out.

### ScriptFirst, CopilotWork, ProcessingRuns, FleetProvisioning

`ScriptFirst`: a request passes the gate, looks for an earlier success of its key
in the log, runs the handler, appends a line; an append may be torn, and the next
line then continues the torn one. `CopilotWork`: `prepare` and `dispatch` file by
file, each created with O_EXCL and filled by a second call, with a controller that
dies and clients that disconnect. `ProcessingRuns`: one action per transaction of
the store and one per provider call; what is planned is a function of the input;
memories and projects, written with the tasks, are left out.

`FleetProvisioning`: the machines by name, the runs with the set of pending steps,
and per thread what its request has read. A request is two or more transactions:
the lookup and the insert of an import, the newest run and the new one of a start,
the current step and its completion. Capabilities, notes and texts are left out.

### GermGuardian

What survives a reboot: `link`, `disk` (the file `slots.json`: active, last known
good, trial, counter), `image` (what each slot holds) and the `journal` of recovery
requests. A command reads `slots.json` once and then
changes the disk in steps, the link and the file one after the other; `Reboot` ends
every command between two of them, and `preflight` and `health_check` run at each
boot. Nothing in the code locks `slots.json`, and the model does not either: the
boot's health check, the console and the poller give commands at any time and their
steps interleave. `Together` bounds how many are under way; the run takes two.

Two history variables say when this matters. A command is `overtaken` when another
one has changed link, file or slots since it read what it decided on; a `clash` is a
write by an overtaken command. `GermHolds` has two parts. In every state
`RecordSound` holds: the machine is to run the LKG or the trial, and no trial is the
LKG. Until the first clash, and across any crashes and any overlap without one,
`SlotsAgree`, `LkgThere` and `TrialBounded` hold. `TrialEnds` has the same exception.
The remarks below say what a clash can do. Signatures, the download and the hash
chain are abstracted to whether they hold; the list of quarantined images is left
out.

### RescueBoot, HidKvm, EdgeSync, EdgeComputers

`RescueBoot`: the files as last replaced, and the position of the early service
within a boot; a power cut comes between any two writes. Each arming has a number
that the code does not store. `HidKvm`: what the broker believes and what the host
holds; a request is one step because all of it runs under one lock, and each of its
writes may fail. `EdgeSync`: queue and inbox, one step per transaction, request or
effect; the server is external. The content of a snapshot and the back-off are
abstracted.

`EdgeComputers`: `link` and `computer` are the two directories; a program at
`"record"` reads, merges and writes a computer's file in two steps, whoever called
it. Which machine answers at an address is free. A record is reduced to the
machine, its nickname and whether it is archived. `quiet` and `promised` are
history variables: the program that nobody overlapped, and what it has set.

### AdaptiveDrivers, OvernightLab

A profile stands for the sequence of the profiles it descends from, because it
names its predecessor by the hash of the whole file and snapshots are named by that
hash. Runs and rollbacks are processes without a lock; hardware may change and a
snapshot may rot. In `OvernightLab` a stage arms a timer, changes a resource,
measures, restores and cancels; each command may be refused, time out with or
without its effect, or be the last one before the process is killed. Scores and
measurements are free choices.

## Runs

All bounds are in the `.cfg` files. Deadlock is not checked where the system really
stops: a finite set of requests, samples or explorations is used up.

| Run | Question | Instance | Distinct states |
|---|---|---|---|
| `ledger` | Do two owners ever produce two runners, two successes, an attempt too many, a revived job? Is it the life of a job? | 2 owners (symmetric); jobs j1 and j2 with one operation, or j3 with a fallback branch; budgets 2 and 1; lag 1 | 218 thousand |
| `supervisor` | Is a process that was told it leads the leader that long? Does every running job stop running, and is every scheduled job taken up? | 2 processes, one may crash, 1 job, budget 2, job lease 0, lag 1, supervisor lease 2, fair | 432 thousand |
| `gate` | Can an effect run twice, be unblocked without an outcome, run again after failing? Does every request settle, every wake get its receipts? | 3 equal effects, 2 reads, or a read and the stop, 1 crash; a worker with a direct directive and a plan of 3 items, backlog 2, 1 death | 435 thousand |
| `germ` | After any crash and however commands overlap, is `slots.json` sound? Without a clash, do link and slots agree, is there an LKG, does a trial end? | 2 images, 2 requests, 2 trial boots, 2 commands at a time | 833 thousand |
| `helpers` | Do two workers under a lease that may run out move a cursor back or work on old rows? Is the budget earned, is a workflow dispatched once? | 2 supervisors, 2 shapes of 1 case, 1 fault, 1 slow clock; 6 samples, limits 2 and 3; 2 jobs, clock 3, 3 runs | 326 thousand |
| `pi` | Is a rescue image shown as armed, are keys released, is everything delivered, can changes be undone? | 2 contents, 2 armings, 3 boots; 3 keys, 5 requests; 2 actions, 2 faults; 2 driver runs, 2 hardwares; 4 kernel resources, 2 trials, 2 faults | 161 thousand |
| `controller` | Once-only approval, diagnoses and launches under the stop, audit replay; are answers those of work done, and equal for equal requests? Does a read, merge and write with nothing held lose a machine, an edit, a step or evidence, or count any of them for another? | 2 approvals, 2 engages, reset, launch, listing, 1 crash; 3 script requests with one key; 3 dispatches of one packet; 3 processing requests; 2 fleet requests, 2 names, 2 targets, 3 steps; 1 monitor, 1 console, 1 address, 2 machines, 2 failed writes; 2 explorers, 2 branches, 2 states, 2 tiers | 898 thousand |
| `supervisor_settled`, `actions_expire`, `explorer_retry`, `lab_restored`, `ledger_budget` | findings, below | small | stops at the violation |

Why the bounds are enough for these questions. Two owners are needed for every race
over one row, and the ledger never compares more than two (the row's owner and the
caller). A budget of two has a first, a retry and an exhausted case; with the lag a
lease may be fresh, expiring, or stale when it is committed. Two jobs with one
operation share a quarantine and a last-known-good. The `supervisor` run has a job
lease of 0, with which an attempt may be stale from its claim on and every race with
recovery occurs, and no failed results, which the `ledger` run has; it has one job
only, so that `ScheduledJobMoves` says nothing of a job starved by others that are
always preferred. Three equal requests let a third
one arrive after two have interfered. Two explorer workers with one slow clock let a
holder lose the lease in mid-batch; two shapes let it lose it between slices; a
behaviour has one fault, so two simultaneously hung workers are outside the run,
while the theorems cover any number. Two trial boots and two images give a slot
that was trusted, one on trial and one that was replaced; two commands at a time are
what overtaking and clashing need. Three boots show an arming
that is consumed, one that is left over and one after it. Six samples complete both
counters and start them again. Three steps, of which one is automatic and one
depends on the machine, let an operator's step be first, last, or raced by the same
and by another one. One address with two machines moves, and moves back. Two
explorers and a change of state give a report that is new, stale, or for another
state; two tiers let evidence be deepened. Two failed writes show where
`MachinesRemembered` stops. The theorems lift these bounds for everything but
liveness.

Each property has a mutated definition beside the one it mutates (commented
"Mutation" or by what it gets wrong), a plausible mistake in that code under which
TLC finds the property violated.

### Fairness

- `FarmerSupervisor`: the clock advances; a live process keeps ticking, executors
  return (each runs under a timeout), and the explorer does not hold every claim
  for ever, hence strong fairness of `TickClaim`. Heartbeats, clients, operators
  and crashes owe nothing.
- `OperationGate`: event loop and worker threads run on; handlers and SQLite calls
  (30 second timeout) end. No request owes a cancellation.
- `FarmerWorker`: systemd restarts the worker, the worker goes on, tools end (they
  run under timeouts). Nobody owes a wake, so `WakeDrains` speaks of what the worker
  was woken for.
- `GermGuardian`: the machine boots again, and the preflight that systemd runs at
  every boot gets its rollback through in the end (strongly fair, since a power cut
  may interrupt it any number of times). Health check, commands and requests owe
  nothing.
- `ControllerActions`: a thread runs on and a command ends at its deadline. With
  finitely many requests the fairness of the lock is not in question; starvation
  by an endless stream of requests is outside the model.
- `FailureExplorer`: live workers and watchdogs run on; leases, statuses and the
  start-up grace run out where nobody makes progress. A batch of a healthy worker
  (at most half a second of CPU) is published well within its lease and the twenty
  second grace, except `MaxSlow` times.
- `HidKvm`: the watchdog's thread and time run on. `EdgeSync`: the process, which
  systemd restarts, goes on; faults are finitely many. `OvernightLab`: the lab goes
  on unless it is killed, and systemd fires its timers.

Of the rest of the `controller` run no liveness is stated: requests, probes and
explorations come from outside.

## Findings

| Run | What the code does | What it says |
|---|---|---|
| `supervisor_settled` | when the last permitted attempt answers WAITING, the job is parked and re-parked for ever | README: keeps advancing the job |
| `actions_expire` | a listing overwrites `running` or `succeeded` with `expired` | SECURITY.md: proposals transition atomically out of `pending` |
| `explorer_retry` | the watchdog's digest covers the whole database, so another worker's lease write makes an unchanged corrupt checkpoint look changed, and the worker is started on it again | README: held until its contents change, rather than retried unchanged |
| `ledger_budget` | recovery fails a job whose last attempt was lost with its process and quarantines nothing, so an equivalent job runs the operation with a new budget | README: once the budget is exhausted, resubmitting an equivalent job does not reset it |
| `lab_restored` | the exit code of the restoring `sysctl` is ignored and the timer that would repeat it is stopped | OVERNIGHT_PI3_LAB.md: each candidate is protected by a timer and restored after measurement |

Further differences and weak points met while modelling, without a run of their own.

Farmer:

- a process that sleeps longer than its lease recovers and claims beside the new
  leader (`supervisor.py:83` does not look at the lease again), while `Supervisor`
  calls itself a single-leader scheduler (`supervisor.py:18`). `SupervisorHolds`
  shows that this takes such a pause, and `OneRunner` that the job leases then keep
  two schedulers from running one job twice;
- an attempt that recovery closes as ABANDONED has no receipt, while the Farmer's
  README gives every attempt one; `LkgVerified` shows that none of these is ever
  last-known-good;
- a boundary submitted with a branch that never ran is not cleared by `resume`;
- a checkpoint repaired between the worker's exit and the watchdog's first digest
  stays held; a hung worker on standby is not replaced while another supervisor's
  worker keeps the shared status fresh;
- a late, stale report becomes the latest decision, so probe results about the
  present state, failed ones too, are dropped; and when the probes then repeat a
  report that was recorded before, INSERT OR IGNORE keeps it from becoming the
  latest, and the evidence stays hidden until the state changes. `EvidenceLasts`
  excepts what was overtaken. Exclusive hardware probes of two supervisors may run
  at the same time;
- a workflow attempt may adopt a run that another job dispatched within five
  seconds; a run that failed is found again by every retry; a failed observation
  drops the evidence of the dispatch.

Gate, worker, controller:

- a worker that dies leaves its operation "running", and every later directive for
  it gets the receipt "waiting" for good (`aurum_worker.py:695`), and so does an event
  that cannot be written once the operation was admitted (`aurum_worker.py:328`),
  although the tool never ran; a wake that arrives while the socket is being bound is
  lost;
- the stop bars diagnoses and launches. Scripts, Copilot dispatches and model runs
  (`api.py:475-517`) neither take `control_lock` nor look at the stop, while
  `docs/SECURITY.md:133-145` rejects effectful requests while it is engaged and asks
  all executors to use the same boundary; `ActionsHold` says nothing of them;
- two script requests with one key and different payloads, or with a source file
  edited in between, that overlap both run (`script_first.py:224`), while
  `docs/SCRIPT_FIRST_ROUTING.md:73` says that a successful key is not executed
  twice; `RerunOverlaps` shows that only overlapping or lost lines do this. A torn
  line of the log swallows the next event;
- overlapping equal model requests spend tokens twice
  (`docs/PROCESSING_AGENTS.md:54-56`); they are stored and counted once;
- a crash between creating and filling `response.json` leaves an empty file, and
  the packet is "already dispatched" for ever; the loser of O_EXCL has run the CLI
  without an event in the log; a 503 leaves the gate's outcome "failed" and bars
  equal requests until a source file changes;
- a machine of the fleet may become `ready` while a run is in progress (a late
  completion of the former run's last step after a new start), and two overlapping
  starts give it two runs; a name that is taken ends an import, and later targets
  never get in.

Raspberry Pis:

- commands that clash: a health check that began before a rollback promotes over it
  (`guardian.py:481`, minutes before `540`), while the poller's timer fires every few
  minutes; a regrow beside `restore-previous` writes the slot that has become LKG
  (`reseed.py:384`), which is to remain intact (`reseed.py:7`); a second regrow may
  empty a slot the first one has armed and leave its trial pending without a runtime.
  Without a clash none of these occurs;
- without any overlap, `restore-previous` takes `previous_lkg` for a proven slot and
  asks only whether a runtime is there (`guardian.py:258-261`): a regrow whose trial
  failed, or the drill, has replaced what was proven, and an unproven runtime, even
  the drill's failing one, becomes the LKG;
- a trial armed with a mismatching request survives a crash of the poller
  (`recovery_poller.py:220`); a request is applied again when the crash comes before
  it is marked; a damaged journal leaves trial boots uncounted;
- a rescue image may be shown once more when the early service cannot make its first
  write, and also when it merely could not read `next-boot.json`
  (`rescue_boot.py:271-274` resets that file, leaves `active-boot.json` of the earlier
  boot and raises), while `docs/ONE_SHOT_RESCUE.md:3-7` says one boot, "even when
  rescue preparation fails"; `RescueHolds` excepts both. An image is verified against the registry and
  not against what was armed; the web console may arm while the early service runs;
- the HID broker does not handle SIGTERM. It forgets a key before it writes the report
  (`hid_kvm.py:222-224`, `269-280`), so that after any refused key-up or release the
  host may hold a key the broker does not know of, and the watchdog, which looks at
  what the broker knows (`248`), does not release it. `KvmHolds` and `IdleReleases`
  except an endpoint whose last write was refused, and so all of these;
- the event `action.received` is lost by a crash between recording and queueing; a
  result that was posted but not completed locally is run again; one refused result
  blocks all behind it; the server's state stays "connected" while the local API
  fails;
- an archiving or renaming of a computer that any other program overlaps, and a page
  of the console is enough, is lost or undone; renaming while the address moves names the
  wrong machine (`links.py:284`, the second read); a machine is lost when its own
  record could not be written and then that of whoever takes its address over could
  not either, since the link is written all the same; the
  connections of the former machine go over to the new one;
- two driver runs within one second share a directory; a promotion may overwrite a
  concurrent rollback in two windows (`PromotesOverSeen` names them); hardware is not
  characterised again after a change;
- a module whose load timed out stays loaded; the policy stage may read a value left
  by an earlier stage as the original one.

## Proofs

The theorems hold for every value of the constants: any number of jobs, owners,
requests, threads, addresses, runs, crashes and faults. The bounds of the runs
(`MaxCrashes`, `MaxSamples`, `MaxStarts` and others) are natural numbers of any size.
Each proof module has the same layout: the inductive invariant with its named parts,
one lemma per action (or per kind of action), a lemma that the invariant implies the
property, and the theorem. TLC found out first what an invariant has to say; the
proofs then found what TLC's instance was too small for (below).

| Theorem | Says |
|---|---|
| `LedgerTypeCorrect`, `LedgerOneRunner`, `LedgerAttemptBudget`, `LedgerVerifiedOnce`, `LedgerRecordsHold` | `LedgerSpec => []P` for types, `OneRunner`, `AttemptBudget`, `VerifiedOnce`, `RecordsHold` |
| `LedgerClosedForever` | the action property `ClosedForever` |
| `LedgerImplementsLifecycle` | `LedgerSpec => ImplementsLifecycle` |
| `SupervisorLeaseHeld` | `Spec => []SupervisorHolds` |
| `ExplorerTypeCorrect`, `ExplorerHolderCurrent`, `ExplorerCursorForward` | types, `HolderCurrent`, the action property `CursorForward` |
| `GovernorSafe`, `DispatchSafe`, `HelpersSafe` | `GovernorHolds`, `DispatchHolds`, and both with `HolderCurrent` in the composition |
| `GateSafe`, `GateFailedIsFinal`, `WorkerIsSafe`, `ClientsSafe` | `GateHolds`, the action properties `FailedIsFinal` and `WorkerSafe`, alone and in the composition |
| `ActionsSafe`, `ScriptSafe`, `ScriptRerunOverlaps`, `CopilotSafe`, `ProcessingSafe`, `OffloadSafe`, `ServicesSafe` | `ActionsHold`, `OffloadHolds`, `ProcessingHolds`, `RerunOverlaps`, alone and in the composition |
| `GermSafe` | `GermSpec => []GermHolds`, for any overlap of commands |
| `RescueSafe`, `KvmSafe`, `SyncSafe`, `DriversSafe`, `DriversPromoteOverSeen`, `LabSafe`, `PiSafe` | `RescueHolds`, `KvmHolds`, `SyncHolds`, `AdaptiveHolds`, `PromotesOverSeen`, alone and in the composition |
| `FleetSafe`, `ComputersSafe`, `EngineSafe`, `RecordsSafe` | `FleetHolds`, `ComputersHold`, `EngineHolds`, alone and in the composition |

### Assumptions

Each module names what it assumes of its constants, and TLC evaluates it in its run.
Nearly all say that bounds and limits are natural numbers, that a mapping has its
domain and range, and that a marker (`NULL`, `NONE`, `FREE`, `"somebody"`,
`"operator"`) is not an ordinary value. The others:

- the ledger's jobs and branches are finitely many, as rows of a table are; branches,
  attempts and runs are counted in the proofs;
- `TargetList` is a sequence (a list of the code); steps are numbered, and the last
  one is done by hand and is not the linking (the catalogue of `fleet.py`);
- `EngineAssumption` types the estimates as the range check of `normalize` and
  `evaluate` leaves them, and says of the oracle's catalogue what `failure_oracle.py`
  varies: one candidate, due, in one of three states.

No theorem assumes anything about the order or the overlap of steps.

### The inductive invariants, and why they are needed

*Ledger.* `OneRunner` is not inductive: it says that the running attempt is the newest
of the leased branch, but not that a branch of an idle job has no running attempt
hidden behind its counter, nor that a job about to be claimed has free lease fields.
The strengthening is `RunnerInv`: `LeaseFields` (owner, lease and current branch are
set together, exactly in RUNNING) and `IsRunner`. Each action is summarised once by
its effect on leases and attempts: a step is *quiet*, *starts* one attempt, *returns a
lease*, or *recovers* all stale jobs (`StepKinds`), and each property is preserved by
the four kinds. `RecordsInv` adds, job by job, that a boundary belongs to
BLOCKED_HUMAN and to a branch, and that a job that will retry has an open branch with
attempts left; `LkgInv` ties last-known-good to a verified attempt.

*Lifecycle.* The mapping turns each kind of step into a step of `JobLifecycle` or a
stutter. What is left of a budget is a difference of two cardinalities, so starting an
attempt, which adds one element to `Spent`, is the abstract step that spends one.

*Supervisor.* `LeaseHeld` is inductive only with two more facts: what a process may
count on never exceeds the lease less the wait for the write lock (`PromiseBounded`),
so that a renewal from the oldest reading still covers what was granted before it
(`LeadKeeps`); and lease and promise run down with the same clock (`TimeKeeps`). Another
process gets the row only when the lease is over on a reading that may be `MaxLag` old,
which is the margin the promise leaves. `WorkInv` says that a process that executes, or
whose heartbeat thread lives, holds an attempt: it types the calls it makes.

*Explorer.* `VisitsRead`: a batch visits only rows it has read, and only while it
works; without it a commit could write a number for a row that was absent when the
batch began. Apart from `Capture`, `ReadFrontier`, `Commit` and `EndSlice` a step leaves
rows and batches alone or ends one batch (`ExplorerSteps`), and no step gives the lease
to a worker in mid-batch. That is what makes the fence of the code enough: a worker
that lost the lease gets it back only through `TakeLease`, and then reads again.

*Governor.* Each counter is the length of the run the history ends with (`Trailing`),
so it reaches its limit exactly when the last sample completes a run
(`TrailingRun`). What a sample makes of "the full budget is earned" then depends on
this sample alone (`LastSampleDecides`).

*Workflow.* `RunsAccounted`: a job has at most one run for the dispatch it knows of
(in its attempt or in its evidence) plus one per lost dispatch, and a job that knows of
a dispatch has a run. `StageKept` says which of the two places knows at which stage.

*Gate.* `EffectHeld`: from admission on the row is the request's own, and while its
handler runs it is "running" or "uncertain", both of which bar the fingerprint;
`HandlerOrder`: a finish that overtakes its own handler can only say "uncertain". So a
cancelled request whose thread runs on cannot free its effect. *Worker.*
`JournalTells`: what is open is "running" in the journal, what went badly is "failed"
or "uncertain"; a death cannot separate the two, since the row is written before the
tool starts.

*Controller.* `LockHeld`: past its look at the stop a handler holds the lock and the
stop is clear. `StartSpent`: a proposal that may still start was never started.
`AuditInv`: the generation of the stop is odd exactly while it is engaged, and no event
is ahead of it. *Scripts*: handler returns are counted (`Balanced`) as logged or lost.
*Copilot*: a response has one creator (`OneCreator`), and from O_EXCL to the answer the
file is that dispatch's (`OwnResponse`). *Processing*: one run per input (`OneRun`), and
tokens spent cover each answer that was paid for and perhaps not stored yet (`Paid`).

*Germ.* Two layers. For any overlap, slots.json and each slots.json a command is about
to write are `Sound`, and the commands are `Shaped` (which step writes what). Both
speak of one command at a time, since each was sound when it was prepared. Until a
clash, `Agreement`: every command that was not overtaken `Fits`, that is, the state it
prepared comes from the slots.json that is still on disk, and a regrow writes neither
active nor trusted slot; `LinkAgrees` excepts the one window between link and file, and
`BootsCounted` counts a trial before it comes up. A write makes every other command
overtaken, so the lemma for a write has to say `Fits` of the writer alone; an overtaken
command that writes ends the second layer, and one that decides anew fits again.

*Pis.* Rescue: at most one arming with a number is on its way (`UnderwayFresh`), and
what the early service read was taken away before it is recorded (`ReadIsTaken`). Sync:
a run that is not reported or not stored costs a fault (`RunsAreSpent`). Drivers: every
profile in force, kept or about to be written descends from a reference, with each
ancestor snapshotted (`ProfilesSound`); a run that was not overtaken has seen what is in
force (`NotOvertaken`). Laboratory: in a stage the only change is the one under its
timer (`OneChange`, `TimerArmed`), and what the end leaves changed has a timer
(`LeftGuarded`).

*Fleet.* What a request that is under way may still rely on after others went between
(`Importing`, `Provisioning`): the targets before the present one stay reached, an id is
still unused, no step before the one to be completed is pending, because pending steps
only become fewer and machines are never removed.

*Computers.* Every file or observation a program holds must agree with every promise
made since it was read (`Respects`): a promise is made only to a program that nobody
overlapped, so nobody else holds anything at that moment, and later ones read what was
written. A machine without a record is *secure* while a link names it and whoever is
about to take the address over will record it first (`Minds`); one failed write can take
the record, but only a second one the link as well.

*Engine.* Reports, and what explorers hold, are of probes that ran in the state they
are about (`Sound`, `Found`, `Tested`), and an explorer that is still alone holds at
least the last report about the present state (`Extends`). The budget needs that no more
than `Slots` branches are chosen: the rank of a branch is the number of those ahead of
it, ranks of a finite total order differ, so those of rank below n are at most n.

### What the proofs changed

- `MachinesRemembered` was claimed of one failed write per behaviour. The step of the
  second one cannot be proved, and with `MaxLinkFaults = 2` TLC shows why; the property
  now says how many failures it speaks of.
- The slots of Germ were first proved for commands that do not overlap, which nothing in
  the code enforces. Stating what an overlap may break led to `overtaken` and `clash`,
  and to a theorem without that assumption.
- The governor's cases overlapped for a critical sample that is also the third high one.
  TLC takes the first; the definition now says so.
- The worker's batch is a set worked in the order `Before`, not a sequence; task events
  are replayed by a fold; tiers are four steps, not a recursion. None of
  these loses a behaviour of the code.

### Model-checked only

Liveness, which is out of the prover's reach (fairness and ENABLED): `RunningEnds`,
`ScheduledJobMoves`, `RequestsSettle`, `WakeDrains`, `TrialEnds`, `OrphansEnd`,
`ShapesComplete`, `IdleReleases`, `SyncDelivers`, `LabRestores`, `HandlersEnd`. The
findings are counterexamples and need no proof.

## Plan

Done: every component listed as modelled, with its run; the refinement of the ledger to
the life of a job; a theorem for every safety property and action property of the
passing runs.

Left:

1. sharper safety properties where the models know more than a property says, above all
   what a supervisor's observer may conclude from the abstract status of a job;
2. the lemmas that liveness would rest on: which action is enabled in which state, as
   ordinary invariants.

## Not modelled

Text, formatting and seals of records; HTTP and authentication; what a verifier
compares; the planner and other model calls; user interface and console pages;
installers; enrolment, discovery and diagnostics of the edge, which call the
registry and keep no other state across calls; the edge server's assessment jobs,
one table behind one lock (a restart leaves its queued and running rows as they
are, and a report that cannot be written turns a completed row into a failed one);
plugin processes, a deadline around a pipe (a grandchild that keeps the pipe open
may hold the reader beyond it); experiments that nothing else calls (Codelation,
StateWeave, traits, monitor, chat tree). These are the larger part of the
repository's lines: most of them format, render, probe or measure, keep nothing
between two calls, and have no order of steps to check. `PROJECT.json` names each
with the reason.
