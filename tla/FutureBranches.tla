--------------------------- MODULE FutureBranches ---------------------------
(***************************************************************************)
(* The decision engine of the Farmer and the evidence it works with.  For  *)
(* a job in some state the engine rules each branch in or out, deepens the *)
(* evidence about the survivors by probes tier after tier, and selects at  *)
(* most one.  Reports are appended to future_decisions; the last one is    *)
(* the prior whose probe results the next evaluation takes over, if the    *)
(* job's state is still the same.  explore() reads, probes for up to a     *)
(* minute and records, with no transaction around the three, in threads of *)
(* every supervisor; claim_next decides in its own transaction.            *)
(*                                                                         *)
(* Estimates are valid numbers in hundredths, and confidence stands for    *)
(* confidence times impact.  A job runs through the worlds of a given      *)
(* history, each a snapshot and the branches as proposed.                  *)
(***************************************************************************)
EXTENDS Integers, Sequences, FiniteSets

CONSTANTS
  Explorers,     \* threads that run explore()
  Histories,     \* sequences of worlds a job may run through
  Catalogue,     \* worlds of a single candidate, for the oracle
  ProbeTiers,    \* tiers with a configured probe, of 1..4
  ProbeUnits,    \* Budget.probe_units
  TierCosts,     \* Budget.tier_costs, per tier 1..4
  MaxReads       \* explorations in a behaviour

Tiers == 0..4    \* static, unit, vm, hardware_model, canary
UnknownTier == 5
Quality == [t \in Tiers |-> <<25, 50, 75, 85, 100>>[t + 1]]
Results == {"failed", "passed", "rollback"}  \* passed; rollback verified as well

Branches ==
  [state : STRING, attemptsLeft : BOOLEAN, impossible : BOOLEAN, authority : BOOLEAN,
   boundary : BOOLEAN, dependencies : BOOLEAN, due : BOOLEAN, parentsVerified : BOOLEAN,
   expired : BOOLEAN, risk : Nat, reversible : BOOLEAN, irreversible : Nat, evidence : BOOLEAN,
   action : STRING, confidence : Nat, uncertainty : Nat, required : Tiers \union {UnknownTier},
   effect : STRING, rollbackRef : BOOLEAN]
Worlds == [lkg : BOOLEAN, branch : Seq(Branches)]

(* The fault models of the oracle vary these states and no retry time.     *)
ASSUME EngineAssumption ==
  /\ Histories \subseteq Seq(Worlds) \ {<<>>}
  /\ Catalogue \subseteq Worlds
  /\ \A w \in Catalogue :
       /\ Len(w.branch) = 1 /\ w.branch[1].due
       /\ w.branch[1].state \in {"CANDIDATE", "SUCCEEDED", "QUARANTINED"}
  /\ ProbeTiers \subseteq Tiers \ {0} /\ ProbeUnits \in Nat /\ TierCosts \in [1..4 -> Nat \ {0}]

-----------------------------------------------------------------------------
(* evaluate.  A world w is [lkg, branch], a branch a record of what the    *)
(* engine reads of it; ids are in the order of the proposals.              *)
Ids(w) == DOMAIN w.branch
Worth(c, quality) == c.confidence * quality - c.risk - c.irreversible - c.uncertainty

(* The checks that stop at the first reason; a parent must be verified.    *)
OpenBranch(c) ==
  /\ c.state \notin {"QUARANTINED", "SUCCEEDED"} /\ c.attemptsLeft /\ ~c.impossible
  /\ c.authority /\ ~c.boundary /\ c.dependencies /\ c.due /\ c.parentsVerified /\ ~c.expired
  /\ c.risk <= 35 /\ c.reversible /\ c.irreversible = 0 /\ c.evidence

(* A branch with the action of an earlier open one is redundant.           *)
Static(w, b) ==
  /\ OpenBranch(w.branch[b])
  /\ \A o \in Ids(w) : o < b /\ OpenBranch(w.branch[o]) => w.branch[o].action # w.branch[b].action

Changing(c) == c.effect # "read_only"
RequiredTier(c) == IF Changing(c) /\ c.required \notin 1..4 THEN 1 ELSE c.required

Survivors(w) ==
  {b \in Ids(w) : /\ Static(w, b) /\ w.branch[b].required \in Tiers
                  /\ Changing(w.branch[b]) => w.lkg /\ w.branch[b].rollbackRef}

(* tests[b] holds the results of the tiers that were probed.               *)
NoTests(w) == [b \in Ids(w) |-> << >>]
Failed(tests, b) == \E t \in DOMAIN tests[b] : tests[b][t] = "failed"
Passed(w, tests, b) ==
  (IF Static(w, b) THEN {0} ELSE {}) \union {t \in DOMAIN tests[b] : tests[b][t] # "failed"}

(* Those that have passed every lower tier and lack this one, the best     *)
(* first; half as many per tier, and no more than the units pay for.       *)
Contenders(w, tests, level) ==
  {b \in Survivors(w) : /\ ~Failed(tests, b) /\ level \notin DOMAIN tests[b]
                        /\ 0..(level - 1) \subseteq Passed(w, tests, b)}
Ahead(w, level, o, b) ==
  LET worth(i) == Worth(w.branch[i], Quality[level - 1])
  IN worth(o) > worth(b) \/ (worth(o) = worth(b) /\ o < b)
Least(x, y) == IF x <= y THEN x ELSE y
Slots(w, level, spent) ==
  LET share == Cardinality(Survivors(w)) \div <<1, 2, 4, 8>>[level]
  IN Least(IF share = 0 THEN 1 ELSE share, (ProbeUnits - spent) \div TierCosts[level])
Chosen(w, tests, level, spent) ==
  LET contenders == Contenders(w, tests, level)
  IN {b \in contenders :
        Cardinality({o \in contenders : Ahead(w, level, o, b)}) < Slots(w, level, spent)}

(* One tier: out is what the probes answer.  No tier is probed after the   *)
(* first without a probe.                                                  *)
Probed(w, before, level, out) ==
  LET chosen == IF 1..level \subseteq ProbeTiers
                THEN Chosen(w, before.tests, level, before.spent) ELSE {}
  IN [tests |-> [b \in Ids(w) |->
                   IF b \notin chosen THEN before.tests[b]
                   ELSE [t \in DOMAIN before.tests[b] \union {level} |->
                           IF t = level THEN out[b][t] ELSE before.tests[b][t]]],
      spent |-> before.spent + TierCosts[level] * Cardinality(chosen)]

Deepen(w, start, out) ==
  LET unit == Probed(w, [tests |-> start, spent |-> 0], 1, out)
      vm == Probed(w, unit, 2, out)
      model == Probed(w, vm, 3, out)
  IN Probed(w, model, 4, out)

BestQuality(w, tests, b) ==
  LET passed == Passed(w, tests, b) IN Quality[CHOOSE t \in passed : \A u \in passed : u <= t]

Automatic(w, tests) ==
  {b \in Survivors(w) :
     /\ ~Failed(tests, b) /\ RequiredTier(w.branch[b]) \in Passed(w, tests, b)
     /\ Changing(w.branch[b]) => \E t \in DOMAIN tests[b] : tests[b][t] = "rollback"
     /\ Worth(w.branch[b], BestQuality(w, tests, b)) > 0}

(* Near ties wait.                                                         *)
Selected(w, tests) ==
  LET worth(b) == Worth(w.branch[b], BestQuality(w, tests, b))
  IN {b \in Automatic(w, tests) : \A o \in Automatic(w, tests) \ {b} : worth(b) - worth(o) > 1}

(* verify_model of failure_oracle.py, for one candidate and no probes.     *)
Protected(c) ==
  \/ ~c.authority \/ ~c.dependencies \/ c.boundary \/ c.impossible \/ c.state # "CANDIDATE"
  \/ ~c.attemptsLeft \/ c.risk > 35 \/ ~c.reversible \/ c.irreversible > 0 \/ ~c.evidence
  \/ c.expired \/ ~c.parentsVerified \/ Changing(c) \/ c.required # 0
OracleSelects(c) == ~Protected(c) /\ c.confidence * 25 > c.risk + c.uncertainty

-----------------------------------------------------------------------------
VARIABLES
  worlds,     \* the history of this job
  version,    \* the world it is in
  decisions,  \* future_decisions of the job
  explorer,   \* per thread: what it read and what it found
  ran,        \* history: every probe that was run
  reads,      \* explorations begun
  overtaken   \* history: a report was recorded, in this world, by a thread
              \* that another record or a change had overtaken
engineVars == <<worlds, version, decisions, explorer, ran, reads, overtaken>>

Resting == [at |-> "idle"]
World == worlds[version]

(* Mutation: the last report is the prior, whatever state it is about.     *)
PriorOfAnyState(v) ==
  IF decisions = <<>> THEN NoTests(worlds[v]) ELSE decisions[Len(decisions)].tests

Prior(v) ==
  LET n == Len(decisions)
  IN IF n > 0 /\ decisions[n].version = v THEN decisions[n].tests ELSE NoTests(worlds[v])

Recorded(report) ==
  IF \E i \in DOMAIN decisions : decisions[i] = report THEN decisions ELSE Append(decisions, report)

EngineInit ==
  /\ worlds \in Histories /\ version = 1 /\ decisions = <<>>
  /\ explorer = [e \in Explorers |-> Resting] /\ ran = {} /\ reads = 0 /\ overtaken = FALSE

(* A report, and with it a change of the job, overtakes who is under way.  *)
Overtakes(e) ==
  [o \in Explorers |-> IF o = e THEN Resting
                       ELSE IF explorer[o] = Resting THEN Resting
                       ELSE [explorer[o] EXCEPT !.alone = FALSE]]

(* A receipt, a new last-known-good, an attempt: the state is another.     *)
WorldChanges ==
  /\ version < Len(worlds) /\ version' = version + 1
  /\ explorer' = [e \in Explorers |-> IF explorer[e] = Resting THEN Resting
                                      ELSE [explorer[e] EXCEPT !.alone = FALSE]] /\ overtaken' = FALSE
  /\ UNCHANGED <<worlds, decisions, ran, reads>>

ExploreReads(e) ==
  /\ explorer[e] = Resting /\ reads < MaxReads /\ reads' = reads + 1
  /\ explorer' = [explorer EXCEPT ![e] =
       [at |-> "probe", version |-> version, tests |-> Prior(version), alone |-> TRUE]]
  /\ UNCHANGED <<worlds, version, decisions, ran, overtaken>>

ExploreProbes(e) ==
  /\ explorer[e].at = "probe"
  /\ LET v == explorer[e].version
         w == worlds[v]
     IN \E out \in [Ids(w) -> [ProbeTiers -> Results]] :
          LET found == Deepen(w, explorer[e].tests, out) IN
            /\ explorer' = [explorer EXCEPT ![e] =
                 [at |-> "record", alone |-> @.alone,
                  report |-> [version |-> v, tests |-> found.tests, spent |-> found.spent]]]
            /\ ran' = ran \union
                 UNION {{[version |-> v, branch |-> b, tier |-> t, result |-> found.tests[b][t]] :
                           t \in DOMAIN found.tests[b] \ DOMAIN explorer[e].tests[b]} : b \in Ids(w)}
  /\ UNCHANGED <<worlds, version, decisions, reads, overtaken>>

(* INSERT OR IGNORE: a report that was recorded before is not the latest.  *)
ExploreRecords(e) ==
  /\ explorer[e].at = "record"
  /\ decisions' = Recorded(explorer[e].report)
  /\ overtaken' = (overtaken \/ ~explorer[e].alone)
  /\ explorer' = Overtakes(e)
  /\ UNCHANGED <<worlds, version, ran, reads>>

(* The supervisor stops or dies, or a probe raises.                        *)
ExploreEnds(e) ==
  /\ explorer[e] # Resting
  /\ explorer' = [explorer EXCEPT ![e] = Resting]
  /\ UNCHANGED <<worlds, version, decisions, ran, reads, overtaken>>

(* _decide of claim_next: no probes, only the prior.                       *)
Decides ==
  /\ decisions' = Recorded([version |-> version, tests |-> Prior(version), spent |-> 0])
  /\ UNCHANGED <<worlds, version, explorer, ran, reads, overtaken>>

EngineNext ==
  \/ WorldChanges \/ Decides
  \/ \E e \in Explorers :
       ExploreReads(e) \/ ExploreProbes(e) \/ ExploreRecords(e) \/ ExploreEnds(e)

EngineSpec == EngineInit /\ [][EngineNext]_engineVars

-----------------------------------------------------------------------------
EngineTypeOK ==
  /\ version \in DOMAIN worlds /\ overtaken \in BOOLEAN
  /\ \A i \in DOMAIN decisions :
       /\ decisions[i].version \in 1..version
       /\ \A b \in DOMAIN decisions[i].tests :
            /\ DOMAIN decisions[i].tests[b] \subseteq ProbeTiers
            /\ \A t \in DOMAIN decisions[i].tests[b] : decisions[i].tests[b][t] \in Results

(* For a single candidate the engine selects what the independent oracle   *)
(* of the failure explorer expects (failure_oracle.py).                    *)
OracleAgrees ==
  \A w \in Catalogue : 1 \in Selected(w, NoTests(w)) <=> OracleSelects(w.branch[1])

(* Evidence is what a probe found in the state the report is about, tier   *)
(* by tier, and within the budget, whoever else was exploring.             *)
EvidenceSound ==
  \A i \in DOMAIN decisions :
    LET report == decisions[i] IN
      /\ report.spent <= ProbeUnits
      /\ \A b \in DOMAIN report.tests : \A t \in DOMAIN report.tests[b] :
           /\ [version |-> report.version, branch |-> b, tier |-> t,
               result |-> report.tests[b][t]] \in ran
           /\ \A u \in 1..(t - 1) : u \in DOMAIN report.tests[b] /\ report.tests[b][u] # "failed"

(* At most one branch is selected.  It has passed its required tier and    *)
(* failed none, and one that changes something can be undone: a verified   *)
(* rollback and a last-known-good of this very state.                      *)
SelectionSound ==
  \A i \in DOMAIN decisions :
    LET report == decisions[i]
        w == worlds[report.version]
        selected == Selected(w, report.tests)
    IN /\ Cardinality(selected) <= 1
       /\ \A b \in selected :
            /\ \A t \in 1..4 : t <= w.branch[b].required => t \in DOMAIN report.tests[b]
            /\ ~Failed(report.tests, b)
            /\ Changing(w.branch[b]) =>
                 w.lkg /\ \E t \in DOMAIN report.tests[b] : report.tests[b][t] = "rollback"

(* No evidence about the present state is lost, unless a thread recorded   *)
(* that another record or a change had overtaken.                          *)
EvidenceLasts ==
  ~overtaken =>
    \A i \in DOMAIN decisions : decisions[i].version = version =>
      \A b \in Ids(World) : \A t \in DOMAIN decisions[i].tests[b] :
        t \in DOMAIN Prior(version)[b] /\ Prior(version)[b][t] = decisions[i].tests[b][t]

EngineHolds ==
  EngineTypeOK /\ OracleAgrees /\ EvidenceSound /\ SelectionSound /\ EvidenceLasts
=============================================================================
