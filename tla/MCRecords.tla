------------------------------ MODULE MCRecords ------------------------------
(***************************************************************************)
(* Records that several programs read, change and write back, for TLC.     *)
(* The components share no state, so a behaviour follows one of them and   *)
(* the others rest.                                                        *)
(*   fleet      two requests over two names and two remote targets         *)
(*   computers  a link monitor and a console over one address that belongs *)
(*              to one machine and then to another                         *)
(*   engine     two supervisors explore a job with two open branches: one  *)
(*              that only reads, and one that loses its last-known-good on *)
(*              the way or stands level with the first                     *)
(***************************************************************************)
EXTENDS FleetProvisioning, EdgeComputers, FutureBranches

CONSTANTS n1, n2, t1, t2

mcTargetList == <<t1, t2>>
mcTargetName == [x \in {t1, t2} |-> IF x = t1 THEN n1 ELSE n2]
mcTargetKind == [x \in {t1, t2} |-> "other"]

mcTierCosts == <<1, 4, 8, 16>>
Candidate ==
  [state |-> "CANDIDATE", attemptsLeft |-> TRUE, impossible |-> FALSE, authority |-> TRUE,
   boundary |-> FALSE, dependencies |-> TRUE, due |-> TRUE, parentsVerified |-> TRUE,
   expired |-> FALSE, risk |-> 0, reversible |-> TRUE, irreversible |-> 0, evidence |-> TRUE,
   action |-> "read", confidence |-> 1, uncertainty |-> 0, required |-> 0,
   effect |-> "read_only", rollbackRef |-> FALSE]
Reader == [Candidate EXCEPT !.required = 1]
Twin == [Reader EXCEPT !.action = "read_otherwise"]
Changer == [Candidate EXCEPT !.effect = "state_change", !.rollbackRef = TRUE,
                             !.required = 2, !.action = "change"]
mcHistories ==
  {<<[lkg |-> TRUE, branch |-> <<Reader, Twin>>]>>,
   <<[lkg |-> TRUE, branch |-> <<Reader, Changer>>],
     [lkg |-> FALSE, branch |-> <<Reader, Changer>>]>>}

(* A good candidate with every one and two of these changes.               *)
Axes ==
  [state |-> {"SUCCEEDED", "QUARANTINED"}, attemptsLeft |-> {FALSE}, impossible |-> {TRUE},
   authority |-> {FALSE}, boundary |-> {TRUE}, dependencies |-> {FALSE},
   parentsVerified |-> {FALSE}, expired |-> {TRUE}, risk |-> {20, 25, 36},
   reversible |-> {FALSE}, irreversible |-> {10}, evidence |-> {FALSE}, confidence |-> {0},
   uncertainty |-> {5, 50}, required |-> (1..4) \union {UnknownTier}, effect |-> {"state_change"},
   rollbackRef |-> {TRUE}]
Varied(c) == UNION {{[c EXCEPT ![f] = v] : v \in Axes[f]} : f \in DOMAIN Axes}
mcCatalogue ==
  {[lkg |-> lkg, branch |-> <<c>>] :
     lkg \in BOOLEAN, c \in UNION {Varied(d) : d \in {Candidate} \union Varied(Candidate)}}

VARIABLE part
recordsVars == <<fleetVars, computersVars, engineVars, part>>

RecordsInit ==
  /\ FleetInit /\ ComputersInit /\ EngineInit
  /\ part \in {"fleet", "computers", "engine"}
  /\ part # "computers" => \A h \in Hosts : computer[h] = NoRecord
  /\ part # "engine" => Len(worlds) = 1

OnlyPart(p, resting) == part = p /\ UNCHANGED <<resting, part>>

RecordsNext ==
  \/ OnlyPart("fleet", <<computersVars, engineVars>>) /\ FleetNext
  \/ OnlyPart("computers", <<fleetVars, engineVars>>) /\ ComputersNext
  \/ OnlyPart("engine", <<fleetVars, computersVars>>) /\ EngineNext

RecordsSpec == RecordsInit /\ [][RecordsNext]_recordsVars
=============================================================================
