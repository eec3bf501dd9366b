--------------------------- MODULE ProcessingRuns ---------------------------
(***************************************************************************)
(* The processing store of the controller and the two services that fill   *)
(* it.  A request is planned by the local crew; its run is stored once per *)
(* fingerprint of the normalised input, together with the usage, memories  *)
(* and tasks the plan names.  A model request plans locally first, then    *)
(* asks a provider, and stores the answer once per local run.  Each method *)
(* of the store is one transaction under the store's lock; between them    *)
(* threads and, at the provider call, coroutines interleave.               *)
(***************************************************************************)
EXTENDS Naturals, Sequences, FiniteSets

CONSTANTS
  RunRequests,    \* requests; a run is named after the request that made it
  ModelRequests,  \* those that go on to the provider
  Inputs,         \* fingerprints of normalised inputs
  InputOf,        \* [RunRequests -> Inputs]
  TitlesOf,       \* per input: the tasks its plan names
  Tokens,         \* what a provider call uses
  MaxTaskEvents   \* bound of the exploration

Titles == UNION {TitlesOf[i] : i \in Inputs}
TaskStatuses == {"open", "done", "dismissed"}

ASSUME ProcessingAssumption ==
  /\ ModelRequests \subseteq RunRequests
  /\ InputOf \in [RunRequests -> Inputs] /\ Tokens \in Nat \ {0}

VARIABLES
  runPc,       \* per request: where it is
  plan,        \* per request: the local run it answers with, itself a request
  storedRun,   \* processing_runs: per input the set of its runs
  usage,       \* agent_usage_events: the runs it has rows of
  task,        \* agent_tasks: per title the status and the run it came from
  taskEvents,  \* agent_task_events
  modelRun,    \* model_processing_runs: per local run the set of model runs
  modelAnswer, \* per request: the model run it answers with
  spent        \* history: the tokens of every provider call that answered
processingVars == <<runPc, plan, storedRun, usage, task, taskEvents, modelRun, modelAnswer, spent>>

NoTask == [status |-> "absent", source |-> {}]

ProcessingInit ==
  /\ runPc = [r \in RunRequests |-> "lookup"]
  /\ plan = [r \in RunRequests |-> {}]
  /\ storedRun = [i \in Inputs |-> {}] /\ usage = {}
  /\ task = [t \in Titles |-> NoTask] /\ taskEvents = <<>>
  /\ modelRun = [r \in RunRequests |-> {}]
  /\ modelAnswer = [r \in RunRequests |-> {}] /\ spent = 0

RunStep(r, from, to) == runPc[r] = from /\ runPc' = [runPc EXCEPT ![r] = to]

(* Where a request goes once it has its local run.                         *)
AfterPlan(r) == IF r \in ModelRequests THEN "model_lookup" ELSE "answered"

(* process: the fingerprint is known.                                      *)
FindsRun(r) ==
  /\ storedRun[InputOf[r]] # {}
  /\ RunStep(r, "lookup", AfterPlan(r))
  /\ plan' = [plan EXCEPT ![r] = storedRun[InputOf[r]]]
  /\ UNCHANGED <<storedRun, usage, task, taskEvents, modelRun, modelAnswer, spent>>

(* It is not; the crew plans.                                              *)
PlansRun(r) ==
  /\ storedRun[InputOf[r]] = {}
  /\ RunStep(r, "lookup", "save")
  /\ UNCHANGED <<plan, storedRun, usage, task, taskEvents, modelRun, modelAnswer, spent>>

(* _materialize_run: tasks that the project has keep status and source.    *)
Materialized(r) ==
  [t \in Titles |-> IF t \in TitlesOf[InputOf[r]] /\ task[t] = NoTask
                    THEN [status |-> "open", source |-> {r}] ELSE task[t]]

(* Mutation: usage and tasks are written whoever wins.                     *)
SaveMaterializesTwice(r) ==
  /\ RunStep(r, "save", AfterPlan(r))
  /\ storedRun' = [storedRun EXCEPT ![InputOf[r]] = IF @ = {} THEN {r} ELSE @]
  /\ usage' = usage \union {r} /\ task' = Materialized(r)
  /\ plan' = [plan EXCEPT ![r] = storedRun'[InputOf[r]]]
  /\ UNCHANGED <<taskEvents, modelRun, modelAnswer, spent>>

(* save: the second run of a fingerprint meets the UNIQUE constraint, is   *)
(* dropped, and the stored one is the answer.                              *)
Save(r) ==
  /\ RunStep(r, "save", AfterPlan(r))
  /\ IF storedRun[InputOf[r]] = {}
     THEN /\ storedRun' = [storedRun EXCEPT ![InputOf[r]] = {r}]
          /\ usage' = usage \union {r}
          /\ task' = Materialized(r)
     ELSE UNCHANGED <<storedRun, usage, task>>
  /\ plan' = [plan EXCEPT ![r] = storedRun'[InputOf[r]]]
  /\ UNCHANGED <<taskEvents, modelRun, modelAnswer, spent>>

LocalRun(r) == CHOOSE x \in RunRequests : plan[r] = {x}

(* The model's answer for this local run is known.                         *)
FindsModelRun(r) ==
  /\ runPc[r] = "model_lookup" /\ modelRun[LocalRun(r)] # {}
  /\ RunStep(r, "model_lookup", "answered")
  /\ modelAnswer' = [modelAnswer EXCEPT ![r] = modelRun[LocalRun(r)]]
  /\ UNCHANGED <<plan, storedRun, usage, task, taskEvents, modelRun, spent>>

CallsProvider(r) ==
  /\ runPc[r] = "model_lookup" /\ modelRun[LocalRun(r)] = {}
  /\ RunStep(r, "model_lookup", "provider")
  /\ UNCHANGED <<plan, storedRun, usage, task, taskEvents, modelRun, modelAnswer, spent>>

(* The provider answers, or the call raises; an answer that cannot be      *)
(* stored any more (the controller died) was paid for as well.             *)
ProviderAnswers(r) ==
  /\ RunStep(r, "provider", "save_model")
  /\ spent' = spent + Tokens
  /\ UNCHANGED <<plan, storedRun, usage, task, taskEvents, modelRun, modelAnswer>>

ProviderFails(r) ==
  /\ RunStep(r, "provider", "failed")
  /\ UNCHANGED <<plan, storedRun, usage, task, taskEvents, modelRun, modelAnswer, spent>>

(* save_model_run, UNIQUE by local run and model.                          *)
SaveModelRun(r) ==
  /\ RunStep(r, "save_model", "answered")
  /\ modelRun' = [modelRun EXCEPT ![LocalRun(r)] = IF @ = {} THEN {r} ELSE @]
  /\ modelAnswer' = [modelAnswer EXCEPT ![r] = modelRun'[LocalRun(r)]]
  /\ UNCHANGED <<plan, storedRun, usage, task, taskEvents, spent>>

(* update_agent_task: a change of status and its event.                    *)
UpdateTask(t, status) ==
  /\ task[t] # NoTask /\ task[t].status # status /\ Len(taskEvents) < MaxTaskEvents
  /\ task' = [task EXCEPT ![t].status = status]
  /\ taskEvents' = Append(taskEvents,
                     [title |-> t, previous |-> task[t].status, new |-> status])
  /\ UNCHANGED <<runPc, plan, storedRun, usage, modelRun, modelAnswer, spent>>

(* The controller dies; what its requests had not stored is gone.          *)
RequestsDie ==
  /\ \E r \in RunRequests : runPc[r] \in {"save", "provider", "save_model"}
  /\ runPc' = [r \in RunRequests |->
                 IF runPc[r] \in {"lookup", "answered"} THEN runPc[r] ELSE "failed"]
  /\ UNCHANGED <<plan, storedRun, usage, task, taskEvents, modelRun, modelAnswer, spent>>

ProcessingNext ==
  \/ \E r \in RunRequests :
       \/ FindsRun(r) \/ PlansRun(r) \/ Save(r)
       \/ FindsModelRun(r) \/ CallsProvider(r) \/ ProviderAnswers(r)
       \/ ProviderFails(r) \/ SaveModelRun(r)
  \/ \E t \in Titles, status \in TaskStatuses : UpdateTask(t, status)
  \/ RequestsDie

ProcessingSpec == ProcessingInit /\ [][ProcessingNext]_processingVars

-----------------------------------------------------------------------------
StoredRuns == UNION {storedRun[i] : i \in Inputs}

ProcessingTypeOK ==
  /\ runPc \in [RunRequests -> {"lookup", "save", "model_lookup", "provider", "save_model",
                                "answered", "failed"}]
  /\ plan \in [RunRequests -> SUBSET RunRequests] /\ usage \subseteq RunRequests
  /\ storedRun \in [Inputs -> SUBSET RunRequests]
  /\ \A t \in Titles : task[t] = NoTask \/ task[t].status \in TaskStatuses
  /\ modelRun \in [RunRequests -> SUBSET RunRequests]
  /\ modelAnswer \in [RunRequests -> SUBSET RunRequests]

(* Whoever asks about one input is answered with one run, the stored one,  *)
(* however the requests overlapped.                                        *)
AnswersAgree ==
  \A r \in RunRequests :
    /\ plan[r] # {} => plan[r] = storedRun[InputOf[r]]
    /\ modelAnswer[r] # {} => modelAnswer[r] = modelRun[LocalRun(r)]

(* Usage and tasks are those of the stored runs, no more and no less: a    *)
(* run that lost the race leaves nothing.                                  *)
WorkspaceIsOfStoredRuns ==
  /\ usage = StoredRuns
  /\ \A t \in Titles :
       /\ task[t].source \subseteq StoredRuns
       /\ (task[t] # NoTask) <=> \E r \in StoredRuns : t \in TitlesOf[InputOf[r]]

(* What the first n events say of a task's status.                         *)
ReplayedTo(events, t, n, status) ==
  \/ status = "open" /\ \A k \in 1..n : events[k].title # t
  \/ \E k \in 1..n : /\ events[k].title = t /\ events[k].new = status
                      /\ \A j \in (k + 1)..n : events[j].title # t

(* The events of a task replay to its status, and each to the status that  *)
(* the next one names as the previous.                                     *)
TaskEventsReplay ==
  \A t \in Titles : task[t] # NoTask =>
    /\ ReplayedTo(taskEvents, t, Len(taskEvents), task[t].status)
    /\ \A k \in DOMAIN taskEvents : taskEvents[k].title = t =>
         ReplayedTo(taskEvents, t, k - 1, taskEvents[k].previous)

(* The store counts tokens once per model run: never more than were spent. *)
CountedWereSpent ==
  Tokens * Cardinality(UNION {modelRun[r] : r \in RunRequests}) <= spent

ProcessingHolds ==
  /\ ProcessingTypeOK /\ AnswersAgree /\ WorkspaceIsOfStoredRuns
  /\ TaskEventsReplay /\ CountedWereSpent
=============================================================================
