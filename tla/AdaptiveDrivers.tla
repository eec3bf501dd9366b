-------------------------- MODULE AdaptiveDrivers --------------------------
(***************************************************************************)
(* The adaptive driver loop of the Pi 3: a run reads the hardware, tests a *)
(* synthesised candidate against it and may replace the last known good    *)
(* profile in lkg.json; an operator may roll lkg.json back.  Runs and      *)
(* rollbacks are processes without a lock between them, and each of them   *)
(* may die between two of its steps.                                       *)
(*                                                                         *)
(* A profile names its predecessor by the hash of the whole file, and      *)
(* snapshots are named by that hash.  So a profile stands here for the     *)
(* sequence of the profiles it descends from, the reference driver first.  *)
(***************************************************************************)
EXTENDS Naturals, FiniteSets, SequencesExt

CONSTANTS
  Loops,       \* runs of run_adaptive_driver_loop in progress
  Candidates,  \* kinds: "good", "partial", "mismatch", "missing", "broken"
  Hardware,    \* hardware and kernel fingerprints that pass the gate
  MaxTests, MaxChanges  \* bounds of the exploration

ASSUME DriversAssumption ==
  /\ Candidates \subseteq {"good", "partial", "mismatch", "missing", "broken"}
  /\ "operator" \notin Loops
  /\ MaxTests \in Nat /\ MaxChanges \in Nat

VARIABLES
  hardware,    \* the fingerprint of the machine
  lkg,         \* lkg.json, <<>> when there is none
  snapshots,   \* lkg-snapshots: the profiles kept there
  spoiled,     \* the snapshots that no longer have the hash of their name
  at,          \* where each run is
  run,         \* what each run has read
  restoring,   \* the snapshot a rollback has read, <<>> for none
  overtaken,   \* runs past a check of lkg.json when another process wrote it
  tests, changes

driverVars == <<hardware, lkg, snapshots, spoiled, at, run, restoring, overtaken,
                tests, changes>>

NoFacts == [kind |-> "broken", print |-> "none", seen |-> <<>>, before |-> <<>>,
            allow |-> FALSE, steady |-> FALSE]
Profile(kind, print) == [kind |-> kind, print |-> print]

DriversInit ==
  /\ hardware \in Hardware
  /\ lkg = <<>> /\ snapshots = {} /\ spoiled = {} /\ restoring = <<>>
  /\ at = [r \in Loops |-> "idle"] /\ run = [r \in Loops |-> NoFacts]
  /\ overtaken = {} /\ tests = 0 /\ changes = 0

(* A step of r, with what the run knows after it.                          *)
Goes(r, from, to, facts) ==
  /\ at[r] = from
  /\ at' = [at EXCEPT ![r] = to]
  /\ run' = [run EXCEPT ![r] = IF to = "idle" THEN NoFacts ELSE facts]

(* A write of lkg.json by r (or by the operator): the runs between the     *)
(* reading of the profile and of its hash, and those past the last check,  *)
(* do not learn of it.                                                     *)
Writes(r, profile) ==
  /\ lkg' = profile
  /\ overtaken' = (overtaken \cup {o \in Loops : at[o] \in {"hash", "snapshot", "write"}})
                  \ {r}

-----------------------------------------------------------------------------
(* run_adaptive_driver_loop.                                               *)

(* collect_hardware_fingerprint and the gate; the baseline is read here.   *)
Fingerprint(r, kind, allow) ==
  /\ tests < MaxTests
  /\ Goes(r, "idle", "ensure", [NoFacts EXCEPT !.kind = kind, !.print = hardware,
                                               !.allow = allow])
  /\ overtaken' = overtaken \ {r}
  /\ tests' = tests + 1
  /\ UNCHANGED <<hardware, lkg, snapshots, spoiled, restoring, changes>>

(* ensure_lkg: the profile that is there.                                  *)
EnsureReads(r) ==
  /\ Goes(r, "ensure", IF lkg = <<>> THEN "create" ELSE "hash",
          [run[r] EXCEPT !.seen = lkg])
  /\ UNCHANGED <<hardware, lkg, snapshots, spoiled, restoring, overtaken, tests,
                 changes>>

(* ensure_lkg found none: the reference driver, whatever came meanwhile.   *)
EnsureCreates(r) ==
  LET reference == <<Profile("reference", run[r].print)>> IN
  /\ Goes(r, "create", "hash", [run[r] EXCEPT !.seen = reference])
  /\ Writes(r, reference)
  /\ UNCHANGED <<hardware, snapshots, spoiled, restoring, tests, changes>>

(* lkg_before_hash is taken from the file in a second reading.  A profile  *)
(* of other hardware ends the run as "quarantined".                        *)
HashLkg(r) ==
  /\ at[r] = "hash"
  /\ LET known == Last(run[r].seen).print = run[r].print IN
     Goes(r, "hash", IF known THEN "test" ELSE "idle", [run[r] EXCEPT !.before = lkg])
  /\ UNCHANGED <<hardware, lkg, snapshots, spoiled, restoring, overtaken, tests,
                 changes>>

(* Build, three repetitions in a subprocess, and a second fingerprint: a   *)
(* broken build ends the run.                                              *)
Test(r) ==
  /\ Goes(r, "test", IF run[r].kind = "broken" THEN "idle" ELSE "decide",
          [run[r] EXCEPT !.steady = hardware = run[r].print])
  /\ UNCHANGED <<hardware, lkg, snapshots, spoiled, restoring, overtaken, tests,
                 changes>>

(* Full marks: the observation matched and covers every field, and the     *)
(* hardware was the same before and after.                                 *)
FullScore(facts) == facts.kind = "good" /\ facts.steady

(* The decision without the comparison of lkg.json.                        *)
PromotesUnchecked(r) == FullScore(run[r]) /\ run[r].allow

(* lkg.json is still the file that was hashed; what the test missed or did *)
(* not match, or scored below the reference, ends as quarantined or        *)
(* rejected, and without --allow-promotion as held.                        *)
Promotes(r) == lkg = run[r].before /\ FullScore(run[r]) /\ run[r].allow

Decide(r) ==
  /\ Goes(r, "decide", IF Promotes(r) THEN "snapshot" ELSE "idle", run[r])
  /\ UNCHANGED <<hardware, lkg, snapshots, spoiled, restoring, overtaken, tests,
                 changes>>

(* promote_candidate, first half: the profile it read is kept and read     *)
(* back; a spoiled snapshot of that name raises.                           *)
PromoteSnapshot(r) ==
  /\ Goes(r, "snapshot", IF run[r].seen \in spoiled THEN "idle" ELSE "write", run[r])
  /\ snapshots' = snapshots \cup {run[r].seen}
  /\ UNCHANGED <<hardware, lkg, spoiled, restoring, overtaken, tests, changes>>

PromoteWrite(r) ==
  /\ Goes(r, "write", "idle", NoFacts)
  /\ Writes(r, Append(run[r].seen, Profile(run[r].kind, run[r].print)))
  /\ UNCHANGED <<hardware, snapshots, spoiled, restoring, tests, changes>>

(* A run dies, or raises, anywhere.                                        *)
RunDies(r) ==
  /\ at[r] # "idle"
  /\ Goes(r, at[r], "idle", NoFacts)
  /\ UNCHANGED <<hardware, lkg, snapshots, spoiled, restoring, overtaken, tests, changes>>

-----------------------------------------------------------------------------
(* rollback_to_previous: reads lkg.json, then the snapshot it names, whose *)
(* hash it checks, then replaces lkg.json.                                 *)

RollbackReads ==
  /\ restoring = <<>>
  /\ Len(lkg) > 1
  /\ Front(lkg) \in snapshots \ spoiled
  /\ restoring' = Front(lkg)
  /\ UNCHANGED <<hardware, lkg, snapshots, spoiled, at, run, overtaken, tests, changes>>

RollbackWrites ==
  /\ restoring # <<>>
  /\ Writes("operator", restoring)
  /\ restoring' = <<>>
  /\ UNCHANGED <<hardware, snapshots, spoiled, at, run, tests, changes>>

(* The environment: another kernel or board, a snapshot file that rots.    *)
HardwareChanges ==
  /\ changes < MaxChanges /\ changes' = changes + 1
  /\ hardware' \in Hardware \ {hardware}
  /\ UNCHANGED <<lkg, snapshots, spoiled, at, run, restoring, overtaken, tests>>

SnapshotRots ==
  /\ changes < MaxChanges /\ changes' = changes + 1
  /\ \E s \in snapshots \ spoiled : spoiled' = spoiled \cup {s}
  /\ UNCHANGED <<hardware, lkg, snapshots, at, run, restoring, overtaken, tests>>

DriversNext ==
  \/ \E r \in Loops :
       \/ \E kind \in Candidates, allow \in BOOLEAN : Fingerprint(r, kind, allow)
       \/ EnsureReads(r) \/ EnsureCreates(r) \/ HashLkg(r) \/ Test(r)
       \/ Decide(r) \/ PromoteSnapshot(r) \/ PromoteWrite(r) \/ RunDies(r)
  \/ RollbackReads \/ RollbackWrites \/ HardwareChanges \/ SnapshotRots

DriversSpec == DriversInit /\ [][DriversNext]_driverVars

-----------------------------------------------------------------------------
Profiles == [kind : Candidates \cup {"reference"}, print : Hardware \cup {"none"}]
IsProfile(p) == \A i \in DOMAIN p : p[i] \in Profiles

DriversTypeOK ==
  /\ hardware \in Hardware
  /\ IsProfile(lkg) /\ IsProfile(restoring) /\ (\A s \in snapshots : IsProfile(s))
  /\ spoiled \subseteq snapshots
  /\ at \in [Loops -> {"idle", "ensure", "create", "hash", "test", "decide", "snapshot", "write"}]
  /\ overtaken \subseteq Loops /\ tests \in 0..MaxTests /\ changes \in 0..MaxChanges

(* Whatever raced or died: the profile in force, and every one a rollback  *)
(* can reach from it, leads back to the reference driver through snapshots *)
(* that were written before they were needed.                              *)
RollbackReachesReference ==
  lkg # <<>> =>
    /\ Head(lkg).kind = "reference"
    /\ \A n \in 1..(Len(lkg) - 1) : SubSeq(lkg, 1, n) \in snapshots

(* Every profile after the reference passed its test, on the hardware the  *)
(* reference was taken from.                                               *)
ActiveWasProven ==
  \A i \in DOMAIN lkg : i > 1 => lkg[i] = Profile("good", lkg[1].print)

DriversHold == DriversTypeOK /\ RollbackReachesReference /\ ActiveWasProven

(* A promotion replaces the profile its run has tested against.  Another   *)
(* writer is overwritten only in the two windows the check leaves open:    *)
(* between reading the profile and its hash, and between the last          *)
(* comparison and the write.                                               *)
PromotesOverSeen ==
  [][\A r \in Loops : PromoteWrite(r) => (lkg = run[r].seen \/ r \in overtaken)]_driverVars
=============================================================================
