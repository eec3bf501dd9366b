----------------------------- MODULE ScriptFirst -----------------------------
(***************************************************************************)
(* The script-first service of the controller: a request names a script    *)
(* and an idempotency key, and is answered from a log of earlier runs      *)
(* where it can be.  The endpoint is synchronous, so every request runs in *)
(* a thread of its own; the service locks nothing but the append of one    *)
(* line to the log.  The operation gate in front of it refuses a request   *)
(* with the fingerprint of one whose outcome is open; the fingerprint      *)
(* leaves the idempotency key out and takes the workspace in, so requests  *)
(* with one key have different ones when anything else in them differs, or *)
(* a source file was edited in between.                                    *)
(***************************************************************************)
EXTENDS Naturals, Sequences, FiniteSets

CONSTANTS
  ScriptRequests, ScriptKeys,
  KeyOf,        \* [ScriptRequests -> ScriptKeys]
  ScriptPrintOf, \* per request: its fingerprint at the gate
  MaxTorn       \* bound on appends that are cut short

ASSUME ScriptAssumption == KeyOf \in [ScriptRequests -> ScriptKeys]

VARIABLES
  scriptPc,     \* where the thread of each request is
  scriptLog,    \* the lines of script-first-events.jsonl
  tail,         \* "line" when the log ends with a newline, else "torn"
  taskComplete, \* the queue's COMPLETE.md names the task of the requests
  handled,      \* history: the keys' handlers that returned, in that order
  lost,         \* history: the successes that are not in the log
  checkedAt     \* history: how many handlers had returned when a request looked
scriptVars == <<scriptPc, scriptLog, tail, taskComplete, handled, lost, checkedAt>>

Answers == {"succeeded", "duplicate", "escalated", "rejected"}

ScriptInit ==
  /\ scriptPc = [r \in ScriptRequests |-> "new"]
  /\ scriptLog = <<>> /\ tail = "line" /\ taskComplete = FALSE
  /\ handled = <<>> /\ lost = {} /\ checkedAt = [r \in ScriptRequests |-> 0]

(* Mutation: the last run of the key decides, and it may be a duplicate.   *)
SuccessfulRunIfLast(key) ==
  \E i \in DOMAIN scriptLog :
    /\ scriptLog[i] = [key |-> key, status |-> "succeeded"]
    /\ \A k \in (i + 1)..Len(scriptLog) : scriptLog[k].key # key

(* _successful_run reads the log without its lock.                         *)
SuccessfulRun(key) ==
  \E i \in DOMAIN scriptLog : scriptLog[i].key = key /\ scriptLog[i].status = "succeeded"

(* The gate: a request that is in flight, or ended in an exception, bars   *)
(* the others with its fingerprint.                                        *)
Barred(r) ==
  \E q \in ScriptRequests \ {r} :
    ScriptPrintOf[q] = ScriptPrintOf[r] /\ scriptPc[q] \notin {"new", "done", "turned_away"}

TurnedAway(r) ==
  /\ scriptPc[r] = "new" /\ Barred(r)
  /\ scriptPc' = [scriptPc EXCEPT ![r] = "turned_away"]
  /\ UNCHANGED <<scriptLog, tail, taskComplete, handled, lost, checkedAt>>

(* The answer before anything runs: an unknown script escalates, a wrong   *)
(* version or a missing confirmation is rejected, finished work is a       *)
(* duplicate.                                                              *)
Looks(r) ==
  /\ scriptPc[r] = "new" /\ ~Barred(r)
  /\ checkedAt' = [checkedAt EXCEPT ![r] = Len(handled)]
  /\ \/ \E next \in {"escalated", "rejected"} : scriptPc' = [scriptPc EXCEPT ![r] = next]
     \/ scriptPc' = [scriptPc EXCEPT ![r] =
                       IF taskComplete \/ SuccessfulRun(KeyOf[r]) THEN "duplicate" ELSE "handler"]
  /\ UNCHANGED <<scriptLog, tail, taskComplete, handled, lost>>

(* The handler returns, or raises one of the errors execute expects.       *)
HandlerEnds(r) ==
  /\ scriptPc[r] = "handler"
  /\ \E next \in {"succeeded", "escalated"} :
       /\ scriptPc' = [scriptPc EXCEPT ![r] = next]
       /\ handled' = IF next = "succeeded" THEN Append(handled, KeyOf[r]) ELSE handled
  /\ UNCHANGED <<scriptLog, tail, taskComplete, lost, checkedAt>>

(* _append_event: one line.  Behind a line that was cut short it becomes   *)
(* part of that line, which no reader can parse, and is lost with it.      *)
Answered(r) ==
  /\ scriptPc[r] \in Answers
  /\ scriptLog' = IF tail = "torn" THEN scriptLog
                  ELSE Append(scriptLog, [key |-> KeyOf[r], status |-> scriptPc[r]])
  /\ lost' = IF tail = "torn" /\ scriptPc[r] = "succeeded" THEN lost \union {r} ELSE lost
  /\ tail' = "line"
  /\ scriptPc' = [scriptPc EXCEPT ![r] = "done"]
  /\ UNCHANGED <<taskComplete, handled, checkedAt>>

(* The append fails half way (the disk is full, or the machine stops): the *)
(* request has no answer and the log ends in the middle of a line.         *)
AppendTears(r) ==
  /\ scriptPc[r] \in Answers
  /\ Cardinality({q \in ScriptRequests : scriptPc[q] = "unanswered"}) < MaxTorn
  /\ lost' = IF scriptPc[r] = "succeeded" THEN lost \union {r} ELSE lost
  /\ tail' = "torn"
  /\ scriptPc' = [scriptPc EXCEPT ![r] = "unanswered"]
  /\ UNCHANGED <<scriptLog, taskComplete, handled, checkedAt>>

(* External: the operator's queue.                                         *)
TaskCompletes ==
  /\ ~taskComplete /\ taskComplete' = TRUE
  /\ UNCHANGED <<scriptPc, scriptLog, tail, handled, lost, checkedAt>>

ScriptNext ==
  \/ \E r \in ScriptRequests :
       TurnedAway(r) \/ Looks(r) \/ HandlerEnds(r) \/ Answered(r) \/ AppendTears(r)
  \/ TaskCompletes

ScriptSpec == ScriptInit /\ [][ScriptNext]_scriptVars

-----------------------------------------------------------------------------
Successes(key) ==
  {i \in DOMAIN scriptLog : scriptLog[i].key = key /\ scriptLog[i].status = "succeeded"}

ScriptTypeOK ==
  /\ scriptPc \in [ScriptRequests -> Answers \union {"new", "handler", "done", "unanswered",
                                                    "turned_away"}]
  /\ \A i \in DOMAIN scriptLog :
       scriptLog[i].key \in ScriptKeys /\ scriptLog[i].status \in Answers
  /\ tail \in {"line", "torn"} /\ taskComplete \in BOOLEAN
  /\ lost \subseteq ScriptRequests
  /\ checkedAt \in [ScriptRequests -> Nat]

(* A request runs the handler although an earlier run of its key succeeded *)
(* only when that run had not been logged as it looked: its handler was    *)
(* still running, its answer was not appended yet, or its line was lost.   *)
(* Stated at the moment of looking.                                        *)
RerunOverlaps ==
  [][\A r \in ScriptRequests :
       scriptPc[r] = "new" /\ scriptPc'[r] = "handler" =>
         \A i \in DOMAIN handled : handled[i] = KeyOf[r] =>
           \E q \in ScriptRequests \ {r} :
             KeyOf[q] = KeyOf[r] /\ (scriptPc[q] = "succeeded" \/ q \in lost)]_scriptVars

(* A duplicate is only ever answered for work that is done: the task is    *)
(* complete, or a handler of that key returned before the request looked.  *)
DuplicateIsDone ==
  \A r \in ScriptRequests :
    scriptPc[r] = "duplicate" =>
      taskComplete \/ \E i \in 1..checkedAt[r] : handled[i] = KeyOf[r]

(* The log, which the metrics are counted from, names no success that did  *)
(* not happen, and misses only those that were lost or are on their way.   *)
LogCountsSuccesses ==
  \A key \in ScriptKeys :
    Cardinality(Successes(key))
      + Cardinality({r \in ScriptRequests : KeyOf[r] = key
                                            /\ (scriptPc[r] = "succeeded" \/ r \in lost)})
    = Cardinality({i \in DOMAIN handled : handled[i] = key})

ScriptHolds == ScriptTypeOK /\ DuplicateIsDone /\ LogCountsSuccesses
=============================================================================
