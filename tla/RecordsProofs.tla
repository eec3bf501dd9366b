---------------------------- MODULE RecordsProofs ----------------------------
(***************************************************************************)
(* Theorems about the components of MCRecords, for any number of requests, *)
(* programs and threads, names, targets, machines and branches.            *)
(***************************************************************************)
EXTENDS MCRecords, FiniteSetTheorems, WellFoundedInduction, TLAPS

-----------------------------------------------------------------------------
(* FleetProvisioning.                                                      *)

MachineRows ==
  [status : {"detected", "provisioning", "ready"}, kind : MachineKinds,
   targets : {{}} \union {{x} : x \in Targets}]
RunRows ==
  [status : {"in_progress", "completed"}, machine : Names, pending : SUBSET ProvisioningSteps]

FleetRows ==
  /\ machine \in [Names -> {Absent} \union MachineRows]
  /\ run \in [RunIds -> {Absent} \union RunRows]
  /\ \A x \in Runs : run[x].machine \in Machines
  /\ startedRuns \in 0..MaxStarts

OneMachineEach == \A x \in Targets : \A m, n \in LinkedTo(x) : m = n

FleetData == FleetRows /\ StepsInOrder /\ StatusBacked /\ OneMachineEach

(* The target has its machine, of its kind.                                *)
Reached(x) == \E n \in LinkedTo(x) : machine[n].kind = TargetKind[x]

(* What a request that is under way knows, whatever others did since it    *)
(* read: an import has the targets before the present one behind it, an id *)
(* is not used yet, and no step before the one to be completed is pending. *)
Importing(t) ==
  fleetThread[t].at \in {"lookup", "sync", "create"} =>
    /\ fleetThread[t].i \in DOMAIN TargetList
    /\ \A k \in 1..(fleetThread[t].i - 1) : Reached(TargetList[k])
    /\ fleetThread[t].at = "sync" =>
         fleetThread[t].name \in LinkedTo(TargetList[fleetThread[t].i])
Provisioning(t) ==
  /\ fleetThread[t].at \in {"newest", "insert"} => fleetThread[t].name \in Machines
  /\ fleetThread[t].at = "insert" =>
       fleetThread[t].id \in 1..startedRuns /\ run[fleetThread[t].id] = Absent
  /\ fleetThread[t].at = "complete" =>
       /\ fleetThread[t].id \in Runs /\ fleetThread[t].step \in ProvisioningSteps
       /\ \A u \in run[fleetThread[t].id].pending : fleetThread[t].step <= u

FleetThreadsKnow ==
  /\ DOMAIN fleetThread = FleetThreads
  /\ \A t \in FleetThreads : Importing(t) /\ Provisioning(t)
  /\ \A t, u \in FleetThreads :
       fleetThread[t].at = "insert" /\ fleetThread[u].at = "insert"
         /\ fleetThread[t].id = fleetThread[u].id => t = u
  /\ \A x \in Runs : x <= startedRuns

ImportComplete == imported => \A x \in Targets : Reached(x)

FleetInv == FleetData /\ FleetThreadsKnow /\ imported \in BOOLEAN /\ ImportComplete

(* No step loses a machine, its targets, a run or a target's machine, or   *)
(* adds to what a run has pending.                                         *)
FleetKept ==
  /\ \A n \in Machines : n \in Machines' /\ machine'[n].targets = machine[n].targets
  /\ \A x \in Targets : LinkedTo(x) \subseteq LinkedTo(x)'
  /\ \A x \in Targets : Reached(x) => Reached(x)'
  /\ \A x \in Runs : x \in Runs' /\ run'[x].pending \subseteq run[x].pending
  /\ startedRuns <= startedRuns'

LEMMA MachineRow ==
  ASSUME FleetRows, NEW n \in Machines
  PROVE  n \in Names /\ machine[n] \in MachineRows
BY DEF FleetRows, Machines

LEMMA RunRow ==
  ASSUME FleetRows, NEW x \in Runs
  PROVE  x \in RunIds /\ run[x] \in RunRows /\ run[x].machine \in Machines
BY DEF FleetRows, Runs

(* StatusBacked for a machine with that status and runs of those statuses. *)
RunStatuses(n) == {run[x].status : x \in {y \in Runs : run[y].machine = n}}
Backed(status, statuses) ==
  /\ status = "detected" => statuses = {}
  /\ status = "provisioning" => "in_progress" \in statuses
  /\ status = "ready" => "completed" \in statuses

LEMMA StatusIsBacked ==
  ASSUME FleetRows
  PROVE  StatusBacked <=> \A n \in Machines : Backed(machine[n].status, RunStatuses(n))
<1>1. \A n \in Machines : machine[n].status \in {"detected", "provisioning", "ready"}
  BY MachineRow DEF MachineRows
<1> QED
  BY <1>1, Zenon DEF StatusBacked, Backed, RunStatuses

LEMMA StatusIsBackedNext ==
  ASSUME FleetRows'
  PROVE  StatusBacked' <=> \A n \in Machines' : Backed(machine'[n].status, RunStatuses(n)')
<1>1. \A n \in Machines' : machine'[n].status \in {"detected", "provisioning", "ready"}
  BY DEF FleetRows, Machines, MachineRows
<1> QED
  BY <1>1, Zenon DEF StatusBacked, Backed, RunStatuses

(* StepsInOrder for a run with that row.                                   *)
AutomaticIn(x) == AutomaticFor(run[x].machine)
InOrder(row, automatic) ==
  /\ row.status = "completed" <=> row.pending = {}
  /\ \A s \in ProvisioningSteps \ (row.pending \union automatic) : \A u \in row.pending : s < u

LEMMA RunsInOrder ==
  /\ StepsInOrder <=> \A x \in Runs : InOrder(run[x], AutomaticIn(x))
  /\ StepsInOrder' <=> \A x \in Runs' : InOrder(run'[x], AutomaticIn(x)')
BY DEF StepsInOrder, InOrder, AutomaticIn

LEMMA DataStays ==
  ASSUME FleetData, UNCHANGED <<machine, run>>, startedRuns' \in 0..MaxStarts, startedRuns <= startedRuns'
  PROVE  FleetData' /\ FleetKept
<1>1. Machines' = Machines /\ Runs' = Runs /\ \A x \in Targets : LinkedTo(x)' = LinkedTo(x)
  BY DEF Machines, Runs, LinkedTo, Absent
<1>2. FleetRows'
  BY <1>1 DEF FleetData, FleetRows, MachineRows, RunRows, Absent
<1>3. StepsInOrder'
  BY <1>1 DEF FleetData, StepsInOrder, AutomaticFor
<1>4. StatusBacked'
  BY <1>1 DEF FleetData, StatusBacked
<1>5. OneMachineEach'
  BY <1>1 DEF FleetData, OneMachineEach
<1>6. FleetKept
  BY <1>1 DEF FleetKept, Reached
<1> QED
  BY <1>2, <1>3, <1>4, <1>5, <1>6 DEF FleetData

(* A row of machines that was free, with a target that no machine had.     *)
LEMMA DataInserted ==
  ASSUME FleetData, NEW n \in Names, NEW kind \in MachineKinds,
         NEW targets \in {{}} \union {{x} : x \in Targets},
         Free(n, targets), machine' = Inserted(n, kind, targets), UNCHANGED <<run, startedRuns>>
  PROVE  /\ FleetData' /\ FleetKept
         /\ \A x \in targets : n \in LinkedTo(x)' /\ machine'[n].kind = kind
<1> DEFINE row == [status |-> "detected", kind |-> kind, targets |-> targets]
<1>1. row \in MachineRows /\ row # Absent /\ row.targets = targets /\ row.kind = kind
        /\ row.status = "detected"
  BY DEF MachineRows, Absent
<1> HIDE DEF row
<1>2. machine' = [machine EXCEPT ![n] = row] /\ machine[n] = Absent
  BY DEF Inserted, Free, row
<1>3. machine \in [Names -> {Absent} \union MachineRows]
  BY DEF FleetData, FleetRows
<1>4. machine'[n] = row /\ \A m \in Names : m # n => machine'[m] = machine[m]
  BY <1>2, <1>3
<1>5. Machines' = Machines \union {n} /\ n \notin Machines /\ Runs' = Runs
  BY <1>1, <1>2, <1>4 DEF Machines, Runs, Absent
<1>6. ASSUME NEW x \in Targets
      PROVE  LinkedTo(x)' = LinkedTo(x) \union (IF targets = {x} THEN {n} ELSE {})
  BY <1>1, <1>4, <1>5 DEF LinkedTo, Machines
<1>7. \A x \in targets : targets = {x} /\ x \in Targets /\ LinkedTo(x) = {}
  BY DEF Free
<1>8. FleetRows'
  <2>1. machine' \in [Names -> {Absent} \union MachineRows]
    BY <1>1, <1>2, <1>3
  <2> QED
    BY <2>1, <1>5 DEF FleetData, FleetRows, MachineRows, RunRows, Absent
<1>9. ASSUME NEW x \in Runs PROVE run[x].machine \in Machines /\ run[x].machine # n
  BY <1>5, RunRow DEF FleetData
<1>10. StepsInOrder'
  <2>1. \A x \in Runs : AutomaticFor(run[x].machine)' = AutomaticFor(run[x].machine)
    BY <1>4, <1>9, MachineRow DEF AutomaticFor, FleetData
  <2> QED
    BY <2>1, <1>5 DEF FleetData, StepsInOrder
<1>11. StatusBacked'
  <2>1. RunStatuses(n) = {} /\ \A m : RunStatuses(m)' = RunStatuses(m)
    BY <1>5, <1>9 DEF RunStatuses
  <2>2. Backed(machine'[n].status, RunStatuses(n)')
    BY <2>1, <1>1, <1>4 DEF Backed
  <2>3. ASSUME NEW m \in Machines
        PROVE  Backed(machine'[m].status, RunStatuses(m)')
    <3>1. machine'[m] = machine[m]
      BY <1>4, <1>5 DEF Machines
    <3> QED
      BY <3>1, <2>1, StatusIsBacked DEF FleetData
  <2> QED
    BY <2>2, <2>3, <1>5, <1>8, StatusIsBackedNext
<1>12. OneMachineEach'
  BY <1>6, <1>7 DEF FleetData, OneMachineEach
<1>13. FleetKept
  <2>1. \A m \in Machines : m \in Machines' /\ machine'[m] = machine[m]
    BY <1>4, <1>5 DEF Machines
  <2>2. \A x \in Targets : LinkedTo(x) \subseteq LinkedTo(x)' /\ LinkedTo(x) \subseteq Machines
    BY <1>6 DEF LinkedTo
  <2>3. \A x \in Targets : Reached(x) => Reached(x)'
    BY <2>1, <2>2 DEF Reached
  <2>4. startedRuns <= startedRuns'
    BY FleetAssumption DEF FleetData, FleetRows
  <2> QED
    BY <2>1, <2>2, <2>3, <2>4, <1>5 DEF FleetKept
<1>14. \A x \in targets : n \in LinkedTo(x)' /\ machine'[n].kind = kind
  BY <1>1, <1>4, <1>6, <1>7
<1> QED
  BY <1>8, <1>10, <1>11, <1>12, <1>13, <1>14 DEF FleetData

LEMMA DataSynced ==
  ASSUME FleetData, NEW x \in Targets, NEW n \in LinkedTo(x),
         machine' = [machine EXCEPT ![n].kind = TargetKind[x]], UNCHANGED <<run, startedRuns>>
  PROVE  FleetData' /\ FleetKept /\ Reached(x)'
<1>1. n \in Machines /\ n \in Names /\ machine[n] \in MachineRows /\ machine[n].targets = {x}
  BY MachineRow DEF LinkedTo, FleetData
<1> DEFINE row == [machine[n] EXCEPT !.kind = TargetKind[x]]
<1>2. row \in MachineRows /\ row # Absent /\ row.targets = machine[n].targets
        /\ row.kind = TargetKind[x] /\ row.status = machine[n].status
  BY <1>1, FleetAssumption DEF MachineRows, Absent
<1>3. machine \in [Names -> {Absent} \union MachineRows]
  BY DEF FleetData, FleetRows
<1>4. machine' = [machine EXCEPT ![n] = row]
  BY <1>1, <1>3
<1> HIDE DEF row
<1>5. machine'[n] = row /\ \A m \in Names : m # n => machine'[m] = machine[m]
  BY <1>1, <1>4, <1>3
<1>6. Machines' = Machines /\ Runs' = Runs
  BY <1>1, <1>2, <1>5 DEF Machines, Runs, Absent
<1>7. \A m \in Machines : /\ machine'[m].targets = machine[m].targets
                          /\ machine'[m].status = machine[m].status
  BY <1>2, <1>5 DEF Machines
<1>8. \A y \in Targets : LinkedTo(y)' = LinkedTo(y)
  BY <1>6, <1>7 DEF LinkedTo
<1>9. FleetRows'
  <2>1. machine' \in [Names -> {Absent} \union MachineRows]
    BY <1>2, <1>3, <1>4
  <2> QED
    BY <2>1, <1>6 DEF FleetData, FleetRows, MachineRows, RunRows, Absent
<1>10. StepsInOrder'
  <2>1. \A y \in Runs : AutomaticFor(run[y].machine)' = AutomaticFor(run[y].machine)
    BY <1>7, RunRow DEF AutomaticFor, FleetData
  <2> QED
    BY <2>1, <1>6 DEF FleetData, StepsInOrder
<1>11. StatusBacked'
  <2>1. \A m : RunStatuses(m)' = RunStatuses(m)
    BY <1>6 DEF RunStatuses
  <2> QED
    BY <2>1, <1>6, <1>7, <1>9, StatusIsBacked, StatusIsBackedNext DEF FleetData
<1>12. OneMachineEach'
  BY <1>8 DEF FleetData, OneMachineEach
<1>13. \A y \in Targets : Reached(y) => Reached(y)'
  <2>1. ASSUME NEW y \in Targets, NEW m \in LinkedTo(y), machine[m].kind = TargetKind[y]
        PROVE  machine'[m].kind = TargetKind[y]
    <3>1. CASE m = n
      <4>1. y = x
        BY <3>1, <1>1 DEF LinkedTo
      <4> QED
        BY <3>1, <4>1, <1>2, <1>5
    <3>2. CASE m # n
      BY <2>1, <3>2, <1>5 DEF LinkedTo, Machines
    <3> QED
      BY <3>1, <3>2
  <2> QED
    BY <2>1, <1>8 DEF Reached
<1>14. FleetKept
  <2>1. startedRuns <= startedRuns'
    BY FleetAssumption DEF FleetData, FleetRows
  <2> QED
    BY <2>1, <1>6, <1>7, <1>8, <1>13 DEF FleetKept
<1>15. Reached(x)'
  BY <1>2, <1>5, <1>8 DEF Reached
<1> QED
  BY <1>9, <1>10, <1>11, <1>12, <1>14, <1>15 DEF FleetData

(* A new run under an id that was not used, and its machine.               *)
LEMMA DataStarted ==
  ASSUME FleetData, NEW n \in Machines, NEW x \in RunIds, run[x] = Absent,
         NEW new \in RunRows, NEW row \in MachineRows,
         new.status = "in_progress", new.machine = n,
         new.pending = ProvisioningSteps \ AutomaticFor(n),
         row.targets = machine[n].targets, row.kind = machine[n].kind,
         row.status = "provisioning",
         run' = [run EXCEPT ![x] = new], machine' = [machine EXCEPT ![n] = row],
         UNCHANGED startedRuns
  PROVE  FleetData' /\ FleetKept /\ Runs' = Runs \union {x}
<1>1. n \in Names
  BY DEF Machines
<1>2. new # Absent /\ row # Absent
  BY DEF RunRows, MachineRows, Absent
<1>4. machine \in [Names -> {Absent} \union MachineRows] /\ run \in [RunIds -> {Absent} \union RunRows]
  BY DEF FleetData, FleetRows
<1>6. machine'[n] = row /\ \A m \in Names : m # n => machine'[m] = machine[m]
  BY <1>1, <1>4
<1>7. run'[x] = new /\ \A y \in RunIds : y # x => run'[y] = run[y]
  BY <1>4
<1>8. Machines' = Machines /\ Runs' = Runs \union {x} /\ x \notin Runs
  BY <1>1, <1>2, <1>6, <1>7 DEF Machines, Runs, Absent
<1>9. \A m \in Machines : /\ machine'[m].targets = machine[m].targets
                          /\ machine'[m].kind = machine[m].kind
  BY <1>6 DEF Machines
<1>10. \A y \in Targets : LinkedTo(y)' = LinkedTo(y)
  BY <1>8, <1>9 DEF LinkedTo
<1>11. \A y \in Runs : y # x /\ run'[y] = run[y]
  BY <1>7, <1>8 DEF Runs
<1>12. FleetRows'
  <2>1. machine' \in [Names -> {Absent} \union MachineRows]
    BY <1>4
  <2>2. run' \in [RunIds -> {Absent} \union RunRows]
    BY <1>4
  <2>3. \A y \in Runs' : run'[y].machine \in Machines'
    BY <1>7, <1>8, <1>11, RunRow DEF FleetData
  <2> QED
    BY <2>1, <2>2, <2>3 DEF FleetData, FleetRows, MachineRows, RunRows, Absent
<1>13. StepsInOrder'
  <2>1. \A m \in Machines : AutomaticFor(m)' = AutomaticFor(m)
    BY <1>9 DEF AutomaticFor
  <2>2. new.pending # {}
    <3>1. StepCount \in ProvisioningSteps /\ StepCount \notin AutomaticFor(n)
      BY FleetAssumption DEF ProvisioningSteps, AutomaticFor
    <3> QED
      BY <3>1
  <2>3. InOrder(new, AutomaticFor(n))
    BY <2>2 DEF InOrder
  <2>4. AutomaticIn(x)' = AutomaticFor(n)
    <3>1. AutomaticIn(x)' = AutomaticFor(n)'
      BY <1>7 DEF AutomaticIn, AutomaticFor
    <3> QED
      BY <3>1, <2>1
  <2>5. ASSUME NEW y \in Runs PROVE AutomaticIn(y)' = AutomaticIn(y)
    <3>1. run[y].machine \in Machines
      BY RunRow DEF FleetData
    <3> QED
      BY <3>1, <1>9, <1>11 DEF AutomaticIn, AutomaticFor
  <2> QED
    BY <2>3, <2>4, <2>5, <1>7, <1>8, <1>11, RunsInOrder DEF FleetData
<1>14. StatusBacked'
  <2>1. Backed(machine'[n].status, RunStatuses(n)')
    BY <1>6, <1>7, <1>8 DEF Backed, RunStatuses
  <2>2. ASSUME NEW m \in Machines, m # n
        PROVE  Backed(machine'[m].status, RunStatuses(m)')
    <3>1. RunStatuses(m)' = RunStatuses(m)
      BY <2>2, <1>7, <1>8, <1>11 DEF RunStatuses
    <3>2. machine'[m] = machine[m]
      BY <2>2, <1>6 DEF Machines
    <3> QED
      BY <3>1, <3>2, StatusIsBacked DEF FleetData
  <2> QED
    BY <2>1, <2>2, <1>8, <1>12, StatusIsBackedNext
<1>15. OneMachineEach'
  BY <1>10 DEF FleetData, OneMachineEach
<1>16. FleetKept
  <2>1. startedRuns <= startedRuns'
    BY FleetAssumption DEF FleetData, FleetRows
  <2>2. \A y \in Targets : Reached(y) => Reached(y)'
    BY <1>9, <1>10 DEF Reached, LinkedTo
  <2>3. \A y \in Runs : y \in Runs' /\ run'[y].pending \subseteq run[y].pending
    BY <1>8, <1>11
  <2> QED
    BY <2>1, <2>2, <2>3, <1>8, <1>9, <1>10 DEF FleetKept
<1> QED
  BY <1>8, <1>12, <1>13, <1>14, <1>15, <1>16 DEF FleetData

(* The first of a run's pending steps is done, or was done before.         *)
LEMMA DataCompleted ==
  ASSUME FleetData, NEW x \in Runs, NEW n, n = run[x].machine, NEW s \in ProvisioningSteps,
         \A u \in run[x].pending : s <= u,
         NEW new \in RunRows, NEW row \in MachineRows,
         new.machine = n, new.pending = run[x].pending \ {s},
         new.status = IF new.pending = {} THEN "completed" ELSE run[x].status,
         row.targets = machine[n].targets, row.kind = machine[n].kind,
         row.status = IF new.pending = {} THEN "ready" ELSE machine[n].status,
         run' = [run EXCEPT ![x] = new], machine' = [machine EXCEPT ![n] = row],
         UNCHANGED startedRuns
  PROVE  FleetData' /\ FleetKept /\ Runs' = Runs
<1>1. n \in Names /\ n \in Machines /\ x \in RunIds /\ run[x] \in RunRows
  BY MachineRow, RunRow DEF FleetData
<1>2. new # Absent /\ row # Absent
  BY DEF RunRows, MachineRows, Absent
<1>4. machine \in [Names -> {Absent} \union MachineRows] /\ run \in [RunIds -> {Absent} \union RunRows]
  BY DEF FleetData, FleetRows
<1>6. machine'[n] = row /\ \A m \in Names : m # n => machine'[m] = machine[m]
  BY <1>1, <1>4
<1>7. run'[x] = new /\ \A y \in RunIds : y # x => run'[y] = run[y]
  BY <1>1, <1>4
<1>8. Machines' = Machines /\ Runs' = Runs
  BY <1>1, <1>2, <1>6, <1>7 DEF Machines, Runs, Absent
<1>9. \A m \in Machines : /\ machine'[m].targets = machine[m].targets
                          /\ machine'[m].kind = machine[m].kind
  BY <1>6 DEF Machines
<1>10. \A y \in Targets : LinkedTo(y)' = LinkedTo(y)
  BY <1>8, <1>9 DEF LinkedTo
<1>11. \A y \in Runs : /\ y # x => run'[y] = run[y]
                       /\ run'[y].machine = run[y].machine
  BY <1>7 DEF Runs
<1>12. FleetRows'
  <2>1. machine' \in [Names -> {Absent} \union MachineRows]
    BY <1>4
  <2>2. run' \in [RunIds -> {Absent} \union RunRows]
    BY <1>4
  <2>3. \A y \in Runs' : run'[y].machine \in Machines'
    <3>1. \A y \in Runs : run[y].machine \in Machines
      BY RunRow DEF FleetData
    <3> QED
      BY <3>1, <1>8, <1>11
  <2> QED
    BY <2>1, <2>2, <2>3 DEF FleetData, FleetRows, MachineRows, RunRows, Absent
<1>13. StepsInOrder'
  <2>1. ASSUME NEW y \in Runs PROVE AutomaticIn(y)' = AutomaticIn(y)
    <3>1. run[y].machine \in Machines
      BY RunRow DEF FleetData
    <3> QED
      BY <3>1, <1>9, <1>11 DEF AutomaticIn, AutomaticFor
  <2>2. InOrder(run[x], AutomaticIn(x))
    BY RunsInOrder DEF FleetData
  <2>3. ASSUME NEW y \in ProvisioningSteps \ (new.pending \union AutomaticIn(x)), NEW u \in new.pending
        PROVE  y < u
    <3>1. u \in run[x].pending /\ u # s /\ s <= u /\ u \in ProvisioningSteps
      BY <1>1 DEF RunRows
    <3>2. CASE y = s
      BY <3>1, <3>2, FleetAssumption DEF ProvisioningSteps
    <3>3. CASE y # s
      BY <3>1, <3>3, <2>2 DEF InOrder
    <3> QED
      BY <3>2, <3>3
  <2>4. InOrder(new, AutomaticIn(x))
    <3>1. new.status = "completed" <=> new.pending = {}
      BY <2>2 DEF InOrder
    <3> QED
      BY <3>1, <2>3 DEF InOrder
  <2>5. ASSUME NEW y \in Runs PROVE InOrder(run'[y], AutomaticIn(y)')
    BY <2>1, <2>4, <1>7, <1>11, RunsInOrder DEF FleetData
  <2> QED
    BY <2>5, <1>8, RunsInOrder
<1>14. StatusBacked'
  <2>1. CASE new.pending = {}
    <3>1. "completed" \in RunStatuses(n)'
      BY <2>1, <1>7, <1>8 DEF RunStatuses
    <3>2. Backed(machine'[n].status, RunStatuses(n)')
      BY <3>1, <2>1, <1>6 DEF Backed
    <3>3. ASSUME NEW m \in Machines, m # n
          PROVE  Backed(machine'[m].status, RunStatuses(m)')
      <4>1. RunStatuses(m)' = RunStatuses(m)
        BY <3>3, <1>8, <1>11 DEF RunStatuses
      <4>2. machine'[m] = machine[m]
        BY <3>3, <1>6 DEF Machines
      <4> QED
        BY <4>1, <4>2, StatusIsBacked DEF FleetData
    <3> QED
      BY <3>2, <3>3, <1>8, <1>12, StatusIsBackedNext
  <2>2. CASE new.pending # {}
    <3>1. \A y \in Runs : run'[y].status = run[y].status
      BY <2>2, <1>7, <1>11
    <3>2. \A m : RunStatuses(m)' = RunStatuses(m)
      BY <3>1, <1>8, <1>11 DEF RunStatuses
    <3>3. \A m \in Machines : machine'[m].status = machine[m].status
      BY <2>2, <1>6 DEF Machines
    <3> QED
      BY <3>2, <3>3, <1>8, <1>12, StatusIsBacked, StatusIsBackedNext DEF FleetData
  <2> QED
    BY <2>1, <2>2
<1>15. OneMachineEach'
  BY <1>10 DEF FleetData, OneMachineEach
<1>16. FleetKept
  <2>1. startedRuns <= startedRuns'
    BY FleetAssumption DEF FleetData, FleetRows
  <2>2. \A y \in Targets : Reached(y) => Reached(y)'
    BY <1>9, <1>10 DEF Reached, LinkedTo
  <2>3. \A y \in Runs : y \in Runs' /\ run'[y].pending \subseteq run[y].pending
    BY <1>7, <1>8, <1>11
  <2> QED
    BY <2>1, <2>2, <2>3, <1>8, <1>9, <1>10 DEF FleetKept
<1> QED
  BY <1>8, <1>12, <1>13, <1>14, <1>15, <1>16 DEF FleetData

ThreadMoves(t, to) ==
  /\ DOMAIN fleetThread' = FleetThreads /\ fleetThread'[t] = to
  /\ \A u \in FleetThreads \ {t} : fleetThread'[u] = fleetThread[u]

LEMMA GoesMoves ==
  ASSUME FleetThreadsKnow, NEW t \in FleetThreads, NEW from, NEW to, Goes(t, from, to)
  PROVE  ThreadMoves(t, to) /\ fleetThread[t].at = from
BY DEF FleetThreadsKnow, Goes, ThreadMoves

(* A step of one request takes nothing from what the others know.          *)
LEMMA ThreadsGoOn ==
  ASSUME FleetInv, FleetData', FleetKept, NEW t \in FleetThreads, NEW to, ThreadMoves(t, to),
         Importing(t)', Provisioning(t)',
         \A u \in FleetThreads \ {t} : fleetThread[u].at = "insert" =>
           /\ run'[fleetThread[u].id] = Absent
           /\ to.at = "insert" => fleetThread[u].id # to.id,
         \A x \in Runs' : x <= startedRuns'
  PROVE  FleetThreadsKnow'
<1>1. ASSUME NEW u \in FleetThreads, u # t
      PROVE  Importing(u)' /\ Provisioning(u)'
  <2>1. fleetThread'[u] = fleetThread[u] /\ Importing(u) /\ Provisioning(u)
    BY <1>1 DEF ThreadMoves, FleetInv, FleetThreadsKnow
  <2>2. Importing(u)'
    <3> SUFFICES ASSUME fleetThread[u].at \in {"lookup", "sync", "create"}
                 PROVE  Importing(u)'
      BY <2>1 DEF Importing
    <3>1. fleetThread[u].i \in DOMAIN TargetList /\ fleetThread[u].i \in Nat
      BY <2>1, FleetAssumption DEF Importing
    <3>2. \A k \in 1..(fleetThread[u].i - 1) : TargetList[k] \in Targets /\ Reached(TargetList[k])
      BY <2>1, <3>1, FleetAssumption DEF Importing, Targets
    <3>3. \A k \in 1..(fleetThread[u].i - 1) : Reached(TargetList[k])'
      BY <3>2 DEF FleetKept
    <3>4. TargetList[fleetThread[u].i] \in Targets
      BY <3>1 DEF Targets
    <3>5. fleetThread[u].at = "sync" =>
            fleetThread[u].name \in LinkedTo(TargetList[fleetThread[u].i])'
      BY <2>1, <3>4 DEF Importing, FleetKept
    <3> QED
      BY <2>1, <3>1, <3>3, <3>5 DEF Importing
  <2>3. Provisioning(u)'
    <3>1. fleetThread[u].at \in {"newest", "insert"} => fleetThread[u].name \in Machines'
      BY <2>1 DEF Provisioning, FleetKept
    <3>2. fleetThread[u].at = "insert" =>
            fleetThread[u].id \in 1..startedRuns' /\ run'[fleetThread[u].id] = Absent
      BY <1>1, <2>1, FleetAssumption
      DEF Provisioning, FleetKept, FleetInv, FleetData, FleetRows
    <3>3. fleetThread[u].at = "complete" =>
            /\ fleetThread[u].id \in Runs' /\ fleetThread[u].step \in ProvisioningSteps
            /\ \A k \in run'[fleetThread[u].id].pending : fleetThread[u].step <= k
      BY <2>1 DEF Provisioning, FleetKept
    <3> QED
      BY <2>1, <3>1, <3>2, <3>3 DEF Provisioning, Absent
  <2> QED
    BY <2>2, <2>3
<1>2. ASSUME NEW u \in FleetThreads, NEW v \in FleetThreads,
             fleetThread'[u].at = "insert", fleetThread'[v].at = "insert",
             fleetThread'[u].id = fleetThread'[v].id
      PROVE  u = v
  BY <1>2 DEF ThreadMoves, FleetInv, FleetThreadsKnow
<1> QED
  BY <1>1, <1>2 DEF FleetThreadsKnow, ThreadMoves

(* Targets before i have their machines; the import turns to i.            *)
LEMMA ImportKnows ==
  ASSUME NEW t \in FleetThreads, NEW i \in Nat, fleetThread'[t] = ImportTakes(i),
         \A k \in 1..(i - 1) : Reached(TargetList[k])'
  PROVE  Importing(t)' /\ Provisioning(t)' /\ ImportTakes(i).at # "insert"
BY DEF ImportTakes, Importing, Provisioning, IdleThread

LEMMA FleetQuiet ==
  ASSUME FleetInv, FleetData', FleetKept, NEW t \in FleetThreads, NEW to, ThreadMoves(t, to),
         Importing(t)', Provisioning(t)', to.at # "insert", UNCHANGED startedRuns, Runs' = Runs
  PROVE  FleetThreadsKnow'
<1>1. \A u \in FleetThreads \ {t} : fleetThread[u].at = "insert" =>
        /\ run'[fleetThread[u].id] = Absent
        /\ to.at = "insert" => fleetThread[u].id # to.id
  <2>1. ASSUME NEW u \in FleetThreads, fleetThread[u].at = "insert"
        PROVE  fleetThread[u].id \in RunIds /\ run[fleetThread[u].id] = Absent
    BY <2>1, FleetAssumption
    DEF FleetInv, FleetData, FleetRows, FleetThreadsKnow, Provisioning, RunIds
  <2>2. \A x \in RunIds : run[x] = Absent => run'[x] = Absent
    BY DEF Runs, Absent
  <2> QED
    BY <2>1, <2>2
<1>2. \A x \in Runs' : x <= startedRuns'
  BY DEF FleetInv, FleetThreadsKnow
<1> QED
  BY <1>1, <1>2, ThreadsGoOn

LEMMA CompleteLater ==
  ASSUME FleetInv, FleetData', FleetKept, UNCHANGED imported
  PROVE  ImportComplete' /\ imported' \in BOOLEAN
BY DEF FleetInv, FleetKept, ImportComplete

LEMMA RegisterSafe ==
  ASSUME FleetInv, NEW t \in FleetThreads, NEW n \in Names, NEW kind \in MachineKinds,
         NEW targets \in {{}} \union {{x} : x \in Targets}, Register(t, n, kind, targets)
  PROVE  FleetInv'
<1>1. FleetData' /\ FleetKept
  BY DataInserted DEF Register, FleetInv
<1>2. ThreadMoves(t, IdleThread) /\ IdleThread.at = "idle"
  BY DEF FleetInv, FleetThreadsKnow, Register, ThreadMoves, IdleThread
<1>3. Importing(t)' /\ Provisioning(t)' /\ Runs' = Runs
  BY <1>2 DEF ThreadMoves, Importing, Provisioning, Register, Runs, Absent
<1>4. FleetThreadsKnow'
  BY <1>1, <1>2, <1>3, FleetQuiet DEF Register
<1> QED
  BY <1>1, <1>4, CompleteLater DEF FleetInv, Register

(* The import has dealt with its i-th target.                              *)
LEMMA AdvancesSafe ==
  ASSUME FleetInv, FleetData', FleetKept, NEW t \in FleetThreads, NEW from, NEW i,
         i = fleetThread[t].i, fleetThread[t].at \in {"lookup", "sync", "create"},
         Advances(t, from, i), Reached(TargetList[i])', UNCHANGED startedRuns, Runs' = Runs
  PROVE  FleetInv'
<1>1. i \in DOMAIN TargetList /\ \A k \in 1..(i - 1) : Reached(TargetList[k])
  BY DEF FleetInv, FleetThreadsKnow, Importing
<1>2. i \in Nat /\ Len(TargetList) \in Nat /\ DOMAIN TargetList = 1..Len(TargetList)
  BY <1>1, FleetAssumption
<1>3. \A k \in 1..i : Reached(TargetList[k])'
  <2>1. ASSUME NEW k \in 1..i PROVE k = i \/ (k \in 1..(i - 1) /\ TargetList[k] \in Targets)
    BY <1>1, <1>2 DEF Targets
  <2>2. \A k \in 1..(i - 1) : TargetList[k] \in Targets => Reached(TargetList[k])'
    BY <1>1 DEF FleetKept
  <2> QED
    BY <2>1, <2>2
<1>4. ThreadMoves(t, ImportTakes(i + 1))
  BY GoesMoves DEF Advances, FleetInv
<1>5. Importing(t)' /\ Provisioning(t)' /\ ImportTakes(i + 1).at # "insert"
  <2>1. \A k \in 1..((i + 1) - 1) : Reached(TargetList[k])'
    BY <1>2, <1>3
  <2> QED
    BY <2>1, <1>2, <1>4, ImportKnows DEF ThreadMoves
<1>6. FleetThreadsKnow'
  BY <1>4, <1>5, FleetQuiet
<1>7. ImportComplete'
  <2>1. CASE imported
    BY <2>1 DEF FleetInv, ImportComplete, FleetKept
  <2>2. CASE i = Len(TargetList)
    <3>1. \A x \in Targets : \E k \in 1..i : x = TargetList[k]
      BY <2>2, <1>2 DEF Targets
    <3> QED
      BY <3>1, <1>3 DEF ImportComplete
  <2>3. CASE ~imported /\ i # Len(TargetList)
    BY <2>3 DEF ImportComplete, Advances
  <2> QED
    BY <2>1, <2>2, <2>3 DEF FleetInv
<1>8. imported' \in BOOLEAN
  BY DEF Advances
<1> QED
  BY <1>6, <1>7, <1>8 DEF FleetInv

LEMMA ImportBeginsSafe ==
  ASSUME FleetInv, NEW t \in FleetThreads, ImportBegins(t)
  PROVE  FleetInv'
<1>1. FleetData' /\ FleetKept
  BY DataStays, FleetAssumption DEF ImportBegins, FleetInv, FleetData, FleetRows
<1>2. ThreadMoves(t, ImportTakes(1)) /\ Runs' = Runs /\ UNCHANGED <<startedRuns, imported>>
  BY GoesMoves DEF ImportBegins, FleetInv, Runs, Absent
<1>3. Importing(t)' /\ Provisioning(t)' /\ ImportTakes(1).at # "insert"
  BY <1>2, ImportKnows DEF ThreadMoves
<1> QED
  BY <1>1, <1>2, <1>3, FleetQuiet, CompleteLater DEF FleetInv

(* Where an import is.                                                     *)
LEMMA ImportAt ==
  ASSUME FleetInv, NEW t \in FleetThreads, fleetThread[t].at \in {"lookup", "sync", "create"}
  PROVE  /\ fleetThread[t].i \in DOMAIN TargetList /\ TargetList[fleetThread[t].i] \in Targets
         /\ \A k \in 1..(fleetThread[t].i - 1) : Reached(TargetList[k]) /\ TargetList[k] \in Targets
         /\ fleetThread[t].at = "sync" =>
              fleetThread[t].name \in LinkedTo(TargetList[fleetThread[t].i])
<1>1. Importing(t)
  BY DEF FleetInv, FleetThreadsKnow
<1> QED
  BY <1>1, FleetAssumption DEF Importing, Targets

LEMMA ImportLooksUpSafe ==
  ASSUME FleetInv, NEW t \in FleetThreads, ImportLooksUp(t)
  PROVE  FleetInv'
<1>1. FleetData' /\ FleetKept
  BY DataStays, FleetAssumption DEF ImportLooksUp, FleetInv, FleetData, FleetRows
<1>2. fleetThread[t].at = "lookup" /\ UNCHANGED <<machine, run, startedRuns>> /\ Runs' = Runs
  BY DEF ImportLooksUp, Runs, Absent
<1>3. PICK i : i = fleetThread[t].i
  OBVIOUS
<1>4. PICK x : x = TargetList[i]
  OBVIOUS
<1>5. /\ i \in DOMAIN TargetList /\ x \in Targets
      /\ \A k \in 1..(i - 1) : Reached(TargetList[k])'
  BY <1>1, <1>2, <1>3, <1>4, ImportAt DEF FleetKept
<1>6. ASSUME NEW n \in LinkedTo(x), machine[n].kind = TargetKind[x], Advances(t, "lookup", i)
      PROVE  FleetInv'
  <2>1. Reached(x)'
    BY <1>1, <1>5, <1>6 DEF FleetKept, Reached
  <2> QED
    BY <2>1, <1>1, <1>2, <1>3, <1>4, <1>6, AdvancesSafe
<1>7. ASSUME NEW to, Goes(t, "lookup", to), UNCHANGED imported,
             to.at \in {"sync", "create"}, to.i = i, to.at = "sync" => to.name \in LinkedTo(x)
      PROVE  FleetInv'
  <2>1. ThreadMoves(t, to)
    BY <1>7, GoesMoves DEF FleetInv
  <2>2. Importing(t)' /\ Provisioning(t)'
    <3>1. to.at = "sync" => to.name \in LinkedTo(x)'
      BY <1>1, <1>5, <1>7 DEF FleetKept
    <3> QED
      BY <2>1, <3>1, <1>4, <1>5, <1>7 DEF ThreadMoves, Importing, Provisioning
  <2> QED
    BY <2>1, <2>2, <1>1, <1>2, <1>7, FleetQuiet, CompleteLater DEF FleetInv
<1>8. \/ \E n \in LinkedTo(x) : machine[n].kind = TargetKind[x] /\ Advances(t, "lookup", i)
      \/ \E n \in LinkedTo(x) : /\ Goes(t, "lookup", [at |-> "sync", i |-> i, name |-> n])
                                /\ UNCHANGED imported
      \/ Goes(t, "lookup", [at |-> "create", i |-> i]) /\ UNCHANGED imported
  BY <1>3, <1>4 DEF ImportLooksUp
<1> QED
  BY <1>6, <1>7, <1>8

LEMMA ImportSyncsSafe ==
  ASSUME FleetInv, NEW t \in FleetThreads, ImportSyncs(t)
  PROVE  FleetInv'
<1>1. PICK i : i = fleetThread[t].i
  OBVIOUS
<1>2. PICK x, n : x = TargetList[i] /\ n = fleetThread[t].name
  OBVIOUS
<1>3. /\ fleetThread[t].at = "sync" /\ UNCHANGED <<run, startedRuns>>
      /\ machine' = [machine EXCEPT ![n].kind = TargetKind[x]]
      /\ Advances(t, "sync", i)
  BY <1>1, <1>2 DEF ImportSyncs
<1>4. x \in Targets /\ n \in LinkedTo(x)
  BY <1>1, <1>2, <1>3, ImportAt
<1>5. FleetData' /\ FleetKept /\ Reached(x)'
  BY <1>3, <1>4, DataSynced DEF FleetInv
<1>6. Runs' = Runs
  BY <1>3 DEF Runs, Absent
<1> QED
  BY <1>1, <1>2, <1>3, <1>5, <1>6, AdvancesSafe

LEMMA ImportCreatesSafe ==
  ASSUME FleetInv, NEW t \in FleetThreads, ImportCreates(t)
  PROVE  FleetInv'
<1>1. fleetThread[t].at = "create" /\ UNCHANGED <<run, startedRuns>> /\ Runs' = Runs
  BY DEF ImportCreates, Runs, Absent
<1>2. PICK i : i = fleetThread[t].i
  OBVIOUS
<1>3. PICK x : x = TargetList[i]
  OBVIOUS
<1>4. x \in Targets /\ TargetName[x] \in Names /\ TargetKind[x] \in MachineKinds
  BY <1>1, <1>2, <1>3, ImportAt, FleetAssumption
<1>5. CASE Free(TargetName[x], {x})
  <2>1. machine' = Inserted(TargetName[x], TargetKind[x], {x}) /\ Advances(t, "create", i)
    BY <1>2, <1>3, <1>5 DEF ImportCreates
  <2>2. /\ FleetData' /\ FleetKept /\ TargetName[x] \in LinkedTo(x)'
        /\ machine'[TargetName[x]].kind = TargetKind[x]
    <3>1. {x} \in {{}} \union {{y} : y \in Targets} /\ x \in {x}
      BY <1>4
    <3> QED
      BY <3>1, <2>1, <1>1, <1>4, <1>5, DataInserted DEF FleetInv
  <2>3. Reached(x)'
    BY <2>2 DEF Reached
  <2> QED
    BY <2>1, <2>2, <2>3, <1>1, <1>2, <1>3, AdvancesSafe
<1>6. CASE ~Free(TargetName[x], {x})
  <2>1. Goes(t, "create", IdleThread) /\ UNCHANGED <<machine, imported>>
    BY <1>2, <1>3, <1>6 DEF ImportCreates
  <2>2. FleetData' /\ FleetKept
    BY <2>1, <1>1, DataStays, FleetAssumption DEF FleetInv, FleetData, FleetRows
  <2>3. ThreadMoves(t, IdleThread) /\ IdleThread.at = "idle"
    BY <2>1, GoesMoves DEF FleetInv, IdleThread
  <2>4. Importing(t)' /\ Provisioning(t)'
    BY <2>3 DEF ThreadMoves, Importing, Provisioning
  <2> QED
    BY <2>1, <2>2, <2>3, <2>4, <1>1, FleetQuiet, CompleteLater DEF FleetInv
<1> QED
  BY <1>5, <1>6

LEMMA LeastExists ==
  ASSUME NEW T, T \subseteq Nat, T # {}
  PROVE  \E x \in T : \A y \in T : x <= y
<1>1. PICK less : IsWellFoundedOn(less, Nat) /\ \A x, y \in Nat : y < x => <<y, x>> \in less
  <2>1. \A x, y \in Nat : y < x => <<y, x>> \in OpToRel(<, Nat)
    BY DEF OpToRel
  <2> QED
    BY <2>1, NatLessThanWellFounded, Zenon
<1>2. PICK x \in T : \A y \in T : <<y, x>> \notin less
  BY <1>1, WFMin
<1>3. \A y \in T : ~(y < x)
  BY <1>1, <1>2
<1>4. x \in Nat /\ \A y \in T : y \in Nat
  OBVIOUS
<1> QED
  BY <1>3, <1>4

(* A request that only reads: the tables are as they were.                 *)
LEMMA FleetReads ==
  ASSUME FleetInv, NEW t \in FleetThreads, NEW to, ThreadMoves(t, to),
         Importing(t)', Provisioning(t)', to.at # "insert",
         UNCHANGED <<machine, run, startedRuns, imported>>
  PROVE  FleetInv'
<1>1. FleetData' /\ FleetKept
  BY DataStays, FleetAssumption DEF FleetInv, FleetData, FleetRows
<1>2. Runs' = Runs
  BY DEF Runs, Absent
<1> QED
  BY <1>1, <1>2, FleetQuiet, CompleteLater DEF FleetInv

LEMMA StartReadsNewestSafe ==
  ASSUME FleetInv, NEW t \in FleetThreads, NEW n \in Names, StartReadsNewest(t, n)
  PROVE  FleetInv'
<1> DEFINE to == [at |-> "newest", name |-> n, newest |-> Newest(n)]
<1>1. to.at = "newest" /\ to.name = n
  OBVIOUS
<1>2. n \in Machines' /\ ThreadMoves(t, to) /\ UNCHANGED <<machine, run, startedRuns, imported>>
  BY GoesMoves DEF StartReadsNewest, FleetInv, Machines, Absent
<1> HIDE DEF to
<1>3. Importing(t)' /\ Provisioning(t)'
  BY <1>1, <1>2 DEF ThreadMoves, Importing, Provisioning
<1> QED
  BY <1>1, <1>2, <1>3, FleetReads

LEMMA StartAnswersSafe ==
  ASSUME FleetInv, NEW t \in FleetThreads, StartAnswers(t)
  PROVE  FleetInv'
<1>1. ThreadMoves(t, IdleThread) /\ IdleThread.at = "idle"
  BY GoesMoves DEF StartAnswers, FleetInv, IdleThread
<1>2. Importing(t)' /\ Provisioning(t)'
  BY <1>1 DEF ThreadMoves, Importing, Provisioning
<1> QED
  BY <1>1, <1>2, FleetReads DEF StartAnswers

LEMMA CompleteReadsSafe ==
  ASSUME FleetInv, NEW t \in FleetThreads, NEW x \in RunIds, NEW s \in ProvisioningSteps,
         CompleteReads(t, x, s)
  PROVE  FleetInv'
<1> DEFINE to == [at |-> "complete", id |-> x, step |-> s]
<1>1. to.at = "complete" /\ to.id = x /\ to.step = s
  OBVIOUS
<1>2. /\ x \in Runs' /\ x \in Runs /\ ThreadMoves(t, to)
      /\ UNCHANGED <<machine, run, startedRuns, imported>>
  BY GoesMoves DEF CompleteReads, FleetInv, Runs, Absent
<1> HIDE DEF to
<1>3. \A u \in run[x].pending : s <= u
  <2>1. run[x].pending \subseteq ProvisioningSteps /\ ProvisioningSteps \subseteq Nat
    BY <1>2, RunRow, FleetAssumption DEF FleetInv, FleetData, RunRows, ProvisioningSteps
  <2>2. run[x].pending # {}
    BY <1>2 DEF CompleteReads, FleetInv, FleetData, StepsInOrder
  <2>3. \E v \in run[x].pending : \A u \in run[x].pending : v <= u
    BY <2>1, <2>2, LeastExists
  <2> QED
    BY <2>3 DEF CompleteReads, CurrentStep
<1>4. Importing(t)' /\ Provisioning(t)'
  BY <1>1, <1>2, <1>3 DEF ThreadMoves, Importing, Provisioning
<1> QED
  BY <1>1, <1>2, <1>4, FleetReads

LEMMA StartDecidesSafe ==
  ASSUME FleetInv, NEW t \in FleetThreads, StartDecides(t)
  PROVE  FleetInv'
<1>1. PICK n : n = fleetThread[t].name
  OBVIOUS
<1> DEFINE to == [at |-> "insert", name |-> n, id |-> startedRuns + 1]
<1>2. to.at = "insert" /\ to.id = startedRuns + 1 /\ to.name = n
  OBVIOUS
<1>3. /\ ThreadMoves(t, to) /\ fleetThread[t].at = "newest"
      /\ UNCHANGED <<machine, run, imported>> /\ startedRuns' = startedRuns + 1 /\ startedRuns < MaxStarts
  BY <1>1, GoesMoves DEF StartDecides, FleetInv
<1> HIDE DEF to
<1>4. startedRuns \in Nat /\ startedRuns' \in 0..MaxStarts /\ startedRuns + 1 \in RunIds
  BY <1>3, FleetAssumption DEF FleetInv, FleetData, FleetRows, RunIds
<1>5. FleetData' /\ FleetKept
  BY <1>3, <1>4, DataStays DEF FleetInv
<1>6. Runs' = Runs /\ \A x \in Runs : x \in Nat /\ x <= startedRuns
  BY <1>3 DEF FleetInv, FleetThreadsKnow, Runs, RunIds, Absent
<1>7. run[startedRuns + 1] = Absent
  BY <1>4, <1>6 DEF Runs
<1>8. n \in Machines'
  BY <1>1, <1>3, <1>5 DEF FleetInv, FleetThreadsKnow, Provisioning, FleetKept
<1>9. Importing(t)' /\ Provisioning(t)'
  BY <1>2, <1>3, <1>4, <1>7, <1>8 DEF ThreadMoves, Importing, Provisioning, Absent
<1>10. \A u \in FleetThreads \ {t} : fleetThread[u].at = "insert" =>
         run'[fleetThread[u].id] = Absent /\ fleetThread[u].id # to.id
  BY <1>2, <1>3, <1>4 DEF FleetInv, FleetThreadsKnow, Provisioning
<1>11. \A x \in Runs' : x <= startedRuns'
  BY <1>3, <1>4, <1>6
<1>12. FleetThreadsKnow'
  BY <1>3, <1>5, <1>9, <1>10, <1>11, ThreadsGoOn
<1> QED
  BY <1>3, <1>5, <1>12, CompleteLater DEF FleetInv

LEMMA StartInsertsSafe ==
  ASSUME FleetInv, NEW t \in FleetThreads, StartInserts(t)
  PROVE  FleetInv'
<1>1. PICK n, x : n = fleetThread[t].name /\ x = fleetThread[t].id
  OBVIOUS
<1> DEFINE new == [status |-> "in_progress", machine |-> n,
                   pending |-> ProvisioningSteps \ AutomaticFor(n)]
           row == [machine[n] EXCEPT !.status = "provisioning"]
<1>2. /\ ThreadMoves(t, IdleThread) /\ IdleThread.at = "idle" /\ fleetThread[t].at = "insert"
      /\ run' = [run EXCEPT ![x] = new] /\ machine' = [machine EXCEPT ![n].status = "provisioning"]
      /\ UNCHANGED <<startedRuns, imported>>
  BY <1>1, GoesMoves DEF StartInserts, FleetInv, IdleThread
<1>3. /\ n \in Machines /\ x \in 1..startedRuns /\ run[x] = Absent /\ x \in RunIds
      /\ startedRuns \in Nat
  BY <1>1, <1>2, FleetAssumption
  DEF FleetInv, FleetThreadsKnow, Provisioning, FleetData, FleetRows, RunIds
<1>4. n \in Names /\ machine[n] \in MachineRows
  BY <1>3, MachineRow DEF FleetInv, FleetData
<1>5. /\ new \in RunRows /\ new.status = "in_progress" /\ new.machine = n
      /\ new.pending = ProvisioningSteps \ AutomaticFor(n)
  BY <1>4 DEF RunRows
<1>6. /\ row \in MachineRows /\ row.targets = machine[n].targets
      /\ row.kind = machine[n].kind /\ row.status = "provisioning"
  BY <1>4 DEF MachineRows
<1>7. machine' = [machine EXCEPT ![n] = row]
  BY <1>2, <1>4 DEF FleetInv, FleetData, FleetRows
<1> HIDE DEF new, row
<1>8. FleetData' /\ FleetKept /\ Runs' = Runs \union {x}
  BY <1>2, <1>3, <1>5, <1>6, <1>7, DataStarted DEF FleetInv
<1>9. Importing(t)' /\ Provisioning(t)'
  BY <1>2 DEF ThreadMoves, Importing, Provisioning
<1>10. \A u \in FleetThreads \ {t} : fleetThread[u].at = "insert" =>
         run'[fleetThread[u].id] = Absent
  <2>1. ASSUME NEW u \in FleetThreads, u # t, fleetThread[u].at = "insert"
        PROVE  /\ fleetThread[u].id # x /\ fleetThread[u].id \in RunIds
               /\ run[fleetThread[u].id] = Absent
    BY <1>1, <1>2, <2>1, FleetAssumption
    DEF FleetInv, FleetThreadsKnow, Provisioning, FleetData, FleetRows, RunIds
  <2>2. \A y \in RunIds : y # x => run'[y] = run[y]
    BY <1>2, <1>3 DEF FleetInv, FleetData, FleetRows
  <2> QED
    BY <2>1, <2>2
<1>11. \A y \in Runs' : y <= startedRuns'
  BY <1>2, <1>3, <1>8 DEF FleetInv, FleetThreadsKnow
<1>12. FleetThreadsKnow'
  BY <1>2, <1>8, <1>9, <1>10, <1>11, ThreadsGoOn
<1> QED
  BY <1>2, <1>8, <1>12, CompleteLater DEF FleetInv

LEMMA CompleteWritesSafe ==
  ASSUME FleetInv, NEW t \in FleetThreads, CompleteWrites(t)
  PROVE  FleetInv'
<1>1. PICK x, s : x = fleetThread[t].id /\ s = fleetThread[t].step
  OBVIOUS
<1>2. PICK n, left : n = run[x].machine /\ left = run[x].pending \ {s}
  OBVIOUS
<1>3. /\ ThreadMoves(t, IdleThread) /\ IdleThread.at = "idle" /\ fleetThread[t].at = "complete"
      /\ run' = [run EXCEPT ![x].pending = left,
                            ![x].status = IF left = {} THEN "completed" ELSE @]
      /\ machine' = [machine EXCEPT ![n].status = IF left = {} THEN "ready" ELSE @]
      /\ UNCHANGED <<startedRuns, imported>>
  BY <1>1, <1>2, GoesMoves DEF CompleteWrites, FleetInv, IdleThread
<1>4. x \in Runs /\ s \in ProvisioningSteps /\ \A u \in run[x].pending : s <= u
  BY <1>1, <1>3 DEF FleetInv, FleetThreadsKnow, Provisioning
<1>5. n \in Machines /\ x \in RunIds /\ run[x] \in RunRows /\ n \in Names /\ machine[n] \in MachineRows
  BY <1>2, <1>4, RunRow, MachineRow DEF FleetInv, FleetData
<1> DEFINE new == [run[x] EXCEPT !.pending = left,
                                 !.status = IF left = {} THEN "completed" ELSE run[x].status]
           row == [machine[n] EXCEPT !.status = IF left = {} THEN "ready" ELSE machine[n].status]
<1>6. /\ new \in RunRows /\ new.machine = n /\ new.pending = left
      /\ new.status = IF left = {} THEN "completed" ELSE run[x].status
  BY <1>2, <1>5 DEF RunRows
<1>7. /\ row \in MachineRows /\ row.targets = machine[n].targets /\ row.kind = machine[n].kind
      /\ row.status = IF left = {} THEN "ready" ELSE machine[n].status
  BY <1>5 DEF MachineRows
<1>8. run' = [run EXCEPT ![x] = new] /\ machine' = [machine EXCEPT ![n] = row]
  BY <1>3, <1>5 DEF FleetInv, FleetData, FleetRows
<1> HIDE DEF new, row
<1>9. FleetData' /\ FleetKept /\ Runs' = Runs
  <2>1. /\ new.pending = run[x].pending \ {s}
        /\ new.status = IF new.pending = {} THEN "completed" ELSE run[x].status
        /\ row.status = IF new.pending = {} THEN "ready" ELSE machine[n].status
    BY <1>2, <1>6, <1>7
  <2>2. /\ FleetData /\ x \in Runs /\ n = run[x].machine /\ new \in RunRows /\ new.machine = n
        /\ row \in MachineRows /\ row.targets = machine[n].targets /\ row.kind = machine[n].kind
        /\ UNCHANGED startedRuns
    BY <1>2, <1>3, <1>4, <1>6, <1>7 DEF FleetInv
  <2> QED
    BY <2>1, <2>2, <1>4, <1>8, DataCompleted
<1>10. Importing(t)' /\ Provisioning(t)'
  BY <1>3 DEF ThreadMoves, Importing, Provisioning
<1> QED
  BY <1>3, <1>9, <1>10, FleetQuiet, CompleteLater DEF FleetInv

LEMMA FleetStarts == FleetInit => FleetInv
<1> SUFFICES ASSUME FleetInit PROVE FleetInv
  OBVIOUS
<1>1. Machines = {} /\ Runs = {}
  BY DEF FleetInit, Machines, Runs
<1>2. FleetData
  BY <1>1, FleetAssumption
  DEF FleetInit, FleetData, FleetRows, StepsInOrder, StatusBacked, OneMachineEach, LinkedTo
<1>3. FleetThreadsKnow
  BY <1>1 DEF FleetInit, FleetThreadsKnow, Importing, Provisioning, IdleThread
<1> QED
  BY <1>2, <1>3 DEF FleetInit, FleetInv, ImportComplete

LEMMA FleetMoves == FleetInv /\ [FleetNext]_fleetVars => FleetInv'
<1> SUFFICES ASSUME FleetInv, [FleetNext]_fleetVars PROVE FleetInv'
  OBVIOUS
<1>1. CASE UNCHANGED fleetVars
  <2>1. FleetData' /\ FleetKept
    BY <1>1, DataStays, FleetAssumption DEF fleetVars, FleetInv, FleetData, FleetRows
  <2>2. Runs' = Runs /\ Machines' = Machines /\ \A x : LinkedTo(x)' = LinkedTo(x)
    BY <1>1 DEF fleetVars, Runs, Machines, LinkedTo, Absent
  <2>3. \A x : Reached(x)' <=> Reached(x)
    BY <1>1, <2>2 DEF fleetVars, Reached
  <2>4. FleetThreadsKnow'
    BY <1>1, <2>2, <2>3
    DEF fleetVars, FleetInv, FleetThreadsKnow, Importing, Provisioning, Absent
  <2> QED
    BY <1>1, <2>1, <2>4, CompleteLater DEF fleetVars, FleetInv
<1>2. ASSUME NEW t \in FleetThreads, NEW n \in Names, NEW kind \in MachineKinds,
             NEW targets \in {{}} \union {{x} : x \in Targets}, Register(t, n, kind, targets)
      PROVE  FleetInv'
  BY <1>2, RegisterSafe
<1>3. ASSUME NEW t \in FleetThreads,
             ImportBegins(t) \/ ImportLooksUp(t) \/ ImportSyncs(t) \/ ImportCreates(t)
      PROVE  FleetInv'
  BY <1>3, ImportBeginsSafe, ImportLooksUpSafe, ImportSyncsSafe, ImportCreatesSafe
<1>4. ASSUME NEW t \in FleetThreads,
             \/ \E n \in Names : StartReadsNewest(t, n)
             \/ StartAnswers(t) \/ StartDecides(t) \/ StartInserts(t)
      PROVE  FleetInv'
  BY <1>4, StartReadsNewestSafe, StartAnswersSafe, StartDecidesSafe, StartInsertsSafe
<1>5. ASSUME NEW t \in FleetThreads,
             \/ \E x \in RunIds, s \in ProvisioningSteps : CompleteReads(t, x, s)
             \/ CompleteWrites(t)
      PROVE  FleetInv'
  BY <1>5, CompleteReadsSafe, CompleteWritesSafe
<1> QED
  BY <1>1, <1>2, <1>3, <1>4, <1>5 DEF FleetNext

LEMMA FleetConcludes == FleetInv => FleetHolds
<1> SUFFICES ASSUME FleetInv PROVE FleetHolds
  OBVIOUS
<1>1. \A n \in Machines : /\ machine[n].status \in {"detected", "provisioning", "ready"}
                          /\ machine[n].kind \in MachineKinds /\ machine[n].targets \subseteq Targets
  BY MachineRow DEF MachineRows, FleetInv, FleetData
<1>2. \A x \in Runs : /\ run[x].status \in {"in_progress", "completed"} /\ run[x].machine \in Machines
                      /\ run[x].pending \subseteq ProvisioningSteps
  BY RunRow DEF RunRows, FleetInv, FleetData
<1>3. FleetTypeOK
  BY <1>1, <1>2 DEF FleetTypeOK, FleetInv, FleetData, FleetRows
<1>4. TargetsInFleet
  BY DEF TargetsInFleet, FleetInv, FleetData, OneMachineEach, ImportComplete, Reached
<1> QED
  BY <1>3, <1>4 DEF FleetHolds, FleetInv, FleetData

(* However requests overlap: steps of a run are completed in their order,  *)
(* the status of a machine has a run behind it, and each target gets one   *)
(* machine, of its kind once an import has succeeded (fleet.py).           *)
THEOREM FleetSafe == FleetSpec => []FleetHolds
BY FleetStarts, FleetMoves, FleetConcludes, PTL DEF FleetSpec

-----------------------------------------------------------------------------
(* EdgeComputers.                                                          *)

LinkRows == [host : Hosts, nick : Nicknames \union {NoNick}]
ComputerRows ==
  [host : Hosts, nick : Nicknames \union {FirstNickname, NoNick}, archived : {"unset", "yes", "no"}]
Fields == {"nick", "archived"}

Archivings == [field : {"archived"}, value : {"yes", "no"}]

(* Where a program goes on once it has recorded, and all it can be doing.  *)
NextStates ==
  UNION {[at : {"saved"}, host : Hosts],
         [at : {"edited"}, host : Hosts, edit : Archivings],
         [at : {"match"}, host : Hosts, value : Nicknames],
         [at : {"link"}, address : Addresses, file : LinkRows],
         [at : {"import"}, links : SUBSET LinkRows, host : {"none"}, edit : {View}],
         [at : {"import"}, links : SUBSET LinkRows, host : Hosts, edit : Edits]}
RelinkStates == [at : {"relink"}, host : Hosts, value : Nicknames, paths : SUBSET Addresses]
IsState(s) ==
  \/ s = IdleProgram
  \/ s \in [at : {"probe"}, address : Addresses, previous : LinkRows \union {NoRecord}]
  \/ s \in [at : {"save"}, address : Addresses, found : LinkRows]
  \/ s \in NextStates /\ s.at \in {"match", "link", "import"}
  \/ s \in RelinkStates
  \/ s \in [at : {"rename"}, address : Addresses, file : LinkRows, next : RelinkStates]
  \/ s \in [at : {"record"}, obs : ComputerRows, next : NextStates]
  \/ s \in [at : {"write"}, new : ComputerRows, next : NextStates]

(* What is about to be written is about the machine the program goes on    *)
(* with, and holds the edit.                                               *)
Recording(s) == s.at \in {"record", "write"}
Got(s) == IF s.at = "record" THEN s.obs ELSE s.new
Carries(s) ==
  Recording(s) =>
    /\ s.next.at \in {"saved", "edited", "match"} => Got(s).host = s.next.host
    /\ s.next.at = "edited" => Got(s)[s.next.edit.field] = s.next.edit.value
    /\ s.next.at = "match" => Got(s).nick = s.next.value

(* The edit a program is in the middle of, and the link files and          *)
(* observations it holds.                                                  *)
Core(s) == IF s.at \in {"record", "write", "rename"} THEN s.next ELSE s
Editing(s, h, field) ==
  \/ Core(s).at \in {"import", "edited"} /\ Core(s).host = h /\ Core(s).edit.field = field
  \/ Core(s).at \in {"match", "relink"} /\ Core(s).host = h /\ field = "nick"
Holds(s, file) ==
  \/ Core(s).at = "probe" /\ file = Core(s).previous
  \/ Core(s).at = "save" /\ file = Core(s).found
  \/ Core(s).at = "link" /\ file = Core(s).file
  \/ Core(s).at = "import" /\ file \in Core(s).links

(* Nothing a program holds contradicts what was promised.                  *)
Respects(s, promises) ==
  \A h \in Hosts :
    /\ \A field \in Fields : Editing(s, h, field) => promises[h][field] = Unpromised
    /\ promises[h].nick # Unpromised =>
         /\ \A nick : Holds(s, [host |-> h, nick |-> nick]) => nick \in {NoNick, promises[h].nick}
         /\ s.at = "record" /\ s.obs.host = h => s.obs.nick \in {NoNick, promises[h].nick}
    /\ promises[h].archived # Unpromised =>
         (s.at = "record" /\ s.obs.host = h => s.obs.archived \in {"unset", promises[h].archived})
    /\ s.at = "write" /\ s.new.host = h =>
         \A field \in Fields : promises[h][field] # Unpromised => s.new[field] = promises[h][field]

(* What a renaming goes through are files.                                 *)
Linked(s) == s.at \in {"relink", "rename"} => \A a \in Core(s).paths : link[a] # NoRecord

(* What a program that nobody has overlapped may rely on.                  *)
Sure(s) ==
  /\ Recording(s) /\ s.next.at = "saved" => \E a \in Addresses : link[a].host = s.next.host
  /\ s.at \in {"match", "relink", "rename"} =>
       computer[Core(s).host] # NoRecord /\ computer[Core(s).host].nick = Core(s).value
  /\ s.at \in {"relink", "rename"} =>
       \A a \in Addresses : link[a].host = Core(s).host =>
         \/ a \in Core(s).paths \/ link[a].nick = Core(s).value
         \/ s.at = "rename" /\ a = s.address
  /\ s.at = "rename" => s.file.nick = Core(s).value

(* The address a is not taken from h before h has been recorded.           *)
Minds(s, h, a) ==
  /\ s.at \in {"link", "rename"} /\ s.address = a => s.file.host = h
  /\ Recording(s) /\ s.next.at = "link" /\ s.next.address = a =>
       h \in {s.next.file.host, Got(s).host}
Secure(h) == \E a \in Addresses : link[a].host = h /\ \A p \in Programs : Minds(program[p], h, a)

Promises == [nick : Nicknames \union {FirstNickname, Unpromised}, archived : {"yes", "no", Unpromised}]
ComputerFiles ==
  /\ link \in [Addresses -> LinkRows \union {NoRecord}]
  /\ computer \in [Hosts -> ComputerRows \union {NoRecord}]
  /\ promised \in [Hosts -> Promises]
  /\ \A h \in Hosts : computer[h] # NoRecord => computer[h].host = h
  /\ saved \subseteq Hosts /\ linkFaults \in Nat
NicksFit ==
  \A h \in Hosts : promised[h].nick # Unpromised =>
    \A a \in Addresses : link[a].host = h => link[a].nick \in {NoNick, promised[h].nick}
Remembered ==
  \A h \in saved : computer[h] = NoRecord => linkFaults >= 1 /\ (linkFaults = 1 => Secure(h))
ProgramsKnow ==
  /\ DOMAIN program = Programs /\ quiet \subseteq Programs
  /\ \A p \in Programs :
       /\ IsState(program[p]) /\ Carries(program[p]) /\ Linked(program[p])
       /\ Respects(program[p], promised)
  /\ \A p \in quiet : OthersIdle(p) /\ Sure(program[p])

ComputersInv == ComputerFiles /\ ProgramsKnow /\ NicksFit /\ Remembered /\ EditsKept

-----------------------------------------------------------------------------
LEMMA NextState ==
  ASSUME NEW s \in NextStates
  PROVE  /\ s.at \in {"saved", "edited", "match", "link", "import"}
         /\ s.at \in {"saved", "edited", "match"} => s.host \in Hosts
         /\ s.at = "edited" => s.edit \in Archivings
         /\ s.at = "match" => s.value \in Nicknames
         /\ s.at = "link" => s.address \in Addresses /\ s.file \in LinkRows
         /\ s.at = "import" =>
              /\ s.links \subseteq LinkRows
              /\ \/ s.edit = View /\ s.host = "none"
                 \/ s.edit \in Edits /\ s.host \in Hosts
<1>1. CASE s \in [at : {"saved"}, host : Hosts] \/ s \in [at : {"edited"}, host : Hosts, edit : Archivings]
  BY <1>1
<1>2. CASE s \in [at : {"match"}, host : Hosts, value : Nicknames]
  BY <1>2
<1>3. CASE s \in [at : {"link"}, address : Addresses, file : LinkRows]
  BY <1>3
<1>4. CASE \/ s \in [at : {"import"}, links : SUBSET LinkRows, host : {"none"}, edit : {View}]
            \/ s \in [at : {"import"}, links : SUBSET LinkRows, host : Hosts, edit : Edits]
  BY <1>4
<1> QED
  BY <1>1, <1>2, <1>3, <1>4 DEF NextStates

LEMMA StateAt ==
  ASSUME NEW s, IsState(s)
  PROVE  /\ s.at \in {"idle", "probe", "save", "match", "link", "import", "relink", "rename",
                      "record", "write"}
         /\ s.at = "idle" => s = IdleProgram
         /\ s.at = "probe" => s.address \in Addresses /\ s.previous \in LinkRows \union {NoRecord}
         /\ s.at = "save" => s.address \in Addresses /\ s.found \in LinkRows
         /\ s.at \in {"match", "link", "import"} => s \in NextStates
         /\ s.at = "relink" => s \in RelinkStates
         /\ s.at = "rename" => s.address \in Addresses /\ s.file \in LinkRows /\ s.next \in RelinkStates
         /\ s.at = "record" => s.obs \in ComputerRows /\ s.next \in NextStates
         /\ s.at = "write" => s.new \in ComputerRows /\ s.next \in NextStates
<1>1. CASE s = IdleProgram
  BY <1>1 DEF IdleProgram
<1>2. CASE s \in NextStates /\ s.at \in {"match", "link", "import"}
  BY <1>2
<1>3. CASE s \in RelinkStates
  BY <1>3 DEF RelinkStates
<1> QED
  BY <1>1, <1>2, <1>3 DEF IsState

LEMMA RelinkAt ==
  ASSUME NEW s \in RelinkStates
  PROVE  s.at = "relink" /\ s.host \in Hosts /\ s.value \in Nicknames /\ s.paths \subseteq Addresses
BY DEF RelinkStates

LEMMA IdleIsNothing ==
  ASSUME NEW promises
  PROVE  /\ IsState(IdleProgram) /\ Carries(IdleProgram) /\ Respects(IdleProgram, promises)
         /\ IdleProgram.at = "idle"
BY DEF IsState, Carries, Respects, Recording, Editing, Holds, Core, IdleProgram

LEMMA IdleMinds ==
  ASSUME NEW h, NEW a
  PROVE  Minds(IdleProgram, h, a)
BY DEF Minds, Recording, IdleProgram

(* Who respects the promises respects fewer of them.                       *)
LEMMA RespectsFewer ==
  ASSUME NEW s, NEW old, NEW new, Respects(s, old),
         \A h \in Hosts : /\ \A field \in Fields : new[h][field] \in {old[h][field], Unpromised}
                          /\ new[h].nick \in {old[h].nick, Unpromised}
                          /\ new[h].archived \in {old[h].archived, Unpromised}
  PROVE  Respects(s, new)
BY DEF Respects

(* The step of one program, with what it leaves behind.                    *)
ProgramMoves(p, s) ==
  /\ DOMAIN program' = Programs /\ program'[p] = s
  /\ \A o \in Programs \ {p} : program'[o] = program[o]

LEMMA BecomesMoves ==
  ASSUME ProgramsKnow, NEW p \in Programs, NEW s, Becomes(p, s)
  PROVE  ProgramMoves(p, s)
BY DEF ProgramsKnow, Becomes, ProgramMoves

(* OnlyPart a program that is not idle can be the one not overlapped.          *)
LEMMA QuietIsTheOneAtWork ==
  ASSUME ProgramsKnow, NEW p \in Programs, program[p] # IdleProgram
  PROVE  quiet \subseteq {p}
BY DEF ProgramsKnow, OthersIdle

LEMMA StartIsQuiet ==
  ASSUME ProgramsKnow, NEW p \in Programs, NEW s, Starts(p, s)
  PROVE  ProgramMoves(p, s) /\ quiet' \subseteq {p} /\ (p \in quiet' => OthersIdle(p))
BY BecomesMoves DEF Starts

LEMMA ProgramsGoOn ==
  ASSUME ProgramsKnow, NEW p \in Programs, NEW s, ProgramMoves(p, s),
         IsState(s), Carries(s), Linked(s)', Respects(s, promised'), quiet' \subseteq {p},
         p \in quiet' => OthersIdle(p) /\ Sure(s)',
         \A a \in Addresses : link[a] # NoRecord => link'[a] # NoRecord,
         \A o \in Programs \ {p} : Respects(program[o], promised')
  PROVE  ProgramsKnow'
<1>1. ASSUME NEW o \in Programs \ {p}
      PROVE  IsState(program[o]) /\ Carries(program[o]) /\ Linked(program[o])'
  <2>1. PICK before : before = program[o] /\ before = program'[o]
    BY DEF ProgramMoves
  <2>2. IsState(before) /\ Carries(before) /\ Linked(before)
    BY <2>1 DEF ProgramsKnow
  <2>3. before.at \in {"relink", "rename"} => Core(before).paths \subseteq Addresses
    BY <2>2, StateAt, RelinkAt DEF Core
  <2>4. Linked(before)'
    BY <2>2, <2>3 DEF Linked
  <2> QED
    BY <2>1, <2>2, <2>4 DEF Linked
<1>2. \A o \in Programs :
        /\ IsState(program'[o]) /\ Carries(program'[o]) /\ Linked(program[o])'
        /\ Respects(program'[o], promised')
  BY <1>1 DEF ProgramMoves, Linked
<1>3. \A o \in quiet' : OthersIdle(o)' /\ Sure(program[o])'
  BY DEF ProgramMoves, OthersIdle, Sure
<1> QED
  BY <1>2, <1>3 DEF ProgramsKnow, ProgramMoves

(* Nobody takes an address of a machine that is to be recorded.            *)
MindsOn(p, s) ==
  \A h \in Hosts, a \in Addresses :
    computer'[h] = NoRecord /\ link[a].host = h /\ Minds(program[p], h, a) =>
      link'[a].host = h /\ Minds(s, h, a)

LEMMA RememberedGoesOn ==
  ASSUME ComputerFiles, Remembered, NEW p \in Programs, NEW s, ProgramMoves(p, s), MindsOn(p, s),
         UNCHANGED linkFaults, saved' \subseteq Hosts,
         \A h \in saved' : computer'[h] = NoRecord => h \in saved /\ computer[h] = NoRecord
  PROVE  Remembered'
<1>1. ASSUME NEW h \in Hosts, computer'[h] = NoRecord, Secure(h)
      PROVE  Secure(h)'
  <2>1. PICK a \in Addresses : link[a].host = h /\ \A o \in Programs : Minds(program[o], h, a)
    BY <1>1 DEF Secure
  <2>2. link'[a].host = h /\ Minds(s, h, a)
    BY <1>1, <2>1 DEF MindsOn
  <2>3. \A o \in Programs : Minds(program'[o], h, a)
    BY <2>1, <2>2 DEF ProgramMoves
  <2> QED
    BY <2>2, <2>3 DEF Secure, Minds, Recording, Got
<1> QED
  BY <1>1 DEF Remembered

(* A step that only takes a program further.                               *)
LEMMA JustGoesOn ==
  ASSUME ComputersInv, NEW p \in Programs, NEW s, ProgramMoves(p, s),
         UNCHANGED <<link, computer, linkFaults, saved, promised>>,
         IsState(s), Carries(s), Linked(s), Respects(s, promised), quiet' \subseteq {p},
         p \in quiet' => OthersIdle(p) /\ Sure(s),
         \A h \in Hosts, a \in Addresses :
           link[a].host = h /\ Minds(program[p], h, a) => Minds(s, h, a)
  PROVE  ComputersInv'
<1>1. ComputerFiles' /\ NicksFit' /\ EditsKept'
  BY DEF ComputersInv, ComputerFiles, NicksFit, EditsKept
<1>2. Linked(s)' /\ (Sure(s) => Sure(s)')
  BY DEF Linked, Sure
<1>3. ProgramsKnow'
  BY <1>2, ProgramsGoOn DEF ComputersInv, ProgramsKnow
<1>4. MindsOn(p, s)
  BY DEF MindsOn
<1>5. Remembered'
  BY <1>4, RememberedGoesOn DEF ComputersInv, ComputerFiles
<1> QED
  BY <1>1, <1>3, <1>5 DEF ComputersInv

LEMMA LinkFile ==
  ASSUME ComputersInv, NEW a \in Addresses
  PROVE  /\ link[a] \in LinkRows \union {NoRecord}
         /\ link[a] # NoRecord => link[a].host \in Hosts /\ link[a].nick \in Nicknames \union {NoNick}
         /\ link[a].host \in Hosts => link[a] # NoRecord
         /\ \A h \in Hosts : \A nick :
              link[a] = [host |-> h, nick |-> nick] /\ promised[h].nick # Unpromised =>
                nick \in {NoNick, promised[h].nick}
BY ComputersAssumption DEF ComputersInv, ComputerFiles, LinkRows, NoRecord, NicksFit

LEMMA LinkRow ==
  ASSUME NEW file \in LinkRows
  PROVE  /\ file.host \in Hosts /\ file.nick \in Nicknames \union {NoNick} /\ file # NoRecord
         /\ file = [host |-> file.host, nick |-> file.nick]
         /\ Observed(file).host = file.host /\ Observed(file).nick = file.nick
         /\ Observed(file).archived = "unset" /\ Observed(file) \in ComputerRows
BY ComputersAssumption DEF LinkRows, NoRecord, Observed, ComputerRows

LEMMA ProgramAt ==
  ASSUME ComputersInv, NEW p \in Programs
  PROVE  /\ IsState(program[p]) /\ Carries(program[p]) /\ Linked(program[p])
         /\ Respects(program[p], promised)
         /\ p \in quiet => OthersIdle(p) /\ Sure(program[p])
         /\ program[p].at # "idle" => quiet \subseteq {p}
<1> program[p].at # "idle" => program[p] # IdleProgram
  BY DEF IdleProgram
<1> QED
  BY QuietIsTheOneAtWork DEF ComputersInv, ProgramsKnow

LEMMA MovesOn ==
  ASSUME ComputersInv, NEW p \in Programs, NEW s, Becomes(p, s)
  PROVE  ProgramMoves(p, s)
BY BecomesMoves DEF ComputersInv

LEMMA RoundMoves ==
  ASSUME ComputersInv, NEW p \in Programs, NEW a \in Addresses, RoundBegins(p, a)
  PROVE  ComputersInv'
<1>1. PICK s : s = [at |-> "probe", address |-> a, previous |-> link[a]]
  OBVIOUS
<1>2. s.at = "probe" /\ s.previous = link[a]
  BY <1>1
<1>3. IsState(s)
  BY <1>1, LinkFile DEF IsState
<1>4. Carries(s) /\ Linked(s) /\ Sure(s) /\ \A h \in Hosts, x \in Addresses : Minds(s, h, x)
  BY <1>2 DEF Carries, Linked, Sure, Minds, Recording
<1>5. Respects(s, promised)
  BY <1>2, LinkFile DEF Respects, Editing, Holds, Core
<1>6. ProgramMoves(p, s) /\ quiet' \subseteq {p} /\ (p \in quiet' => OthersIdle(p))
  BY <1>1, StartIsQuiet DEF RoundBegins, ComputersInv
<1> QED
  BY <1>3, <1>4, <1>5, <1>6, JustGoesOn DEF RoundBegins

(* A program at rest.                                                      *)
LEMMA Rests ==
  ASSUME ComputersInv, NEW p \in Programs, ProgramMoves(p, IdleProgram), program[p].at # "idle",
         UNCHANGED <<link, computer, linkFaults, saved, quiet, promised>>
  PROVE  ComputersInv'
<1>1. Carries(IdleProgram) /\ Linked(IdleProgram) /\ Sure(IdleProgram)
  BY DEF Carries, Linked, Sure, Recording, IdleProgram
<1>2. quiet' \subseteq {p} /\ (p \in quiet' => OthersIdle(p))
  BY ProgramAt
<1> QED
  BY <1>1, <1>2, IdleIsNothing, IdleMinds, JustGoesOn

LEMMA ProbeMoves ==
  ASSUME ComputersInv, NEW p \in Programs, Probes(p)
  PROVE  ComputersInv'
<1> program[p].at = "probe" /\ UNCHANGED <<link, computer, linkFaults, saved, quiet, promised>>
  BY DEF Probes
<1>1. /\ program[p].address \in Addresses
      /\ program[p].previous \in LinkRows \union {NoRecord}
  BY ProgramAt, StateAt
<1>2. CASE Becomes(p, IdleProgram)
  BY <1>2, MovesOn, Rests
<1>3. ASSUME NEW found \in LinkRows,
             found.nick = NoNick \/ found = program[p].previous,
             Becomes(p, [at |-> "save", address |-> program[p].address, found |-> found])
      PROVE  ComputersInv'
  <2>1. PICK s : s = [at |-> "save", address |-> program[p].address, found |-> found]
    OBVIOUS
  <2>2. s.at = "save" /\ s.found = found
    BY <2>1
  <2>3. IsState(s)
    BY <1>1, <2>1 DEF IsState
  <2>4. Carries(s) /\ Linked(s) /\ Sure(s) /\ \A h \in Hosts, x \in Addresses : Minds(s, h, x)
    BY <2>2 DEF Carries, Linked, Sure, Minds, Recording
  <2>5. Respects(program[p], promised)
    BY ProgramAt
  <2>6. Respects(s, promised)
    BY <1>3, <2>2, <2>5 DEF Respects, Editing, Holds, Core
  <2>7. ProgramMoves(p, s)
    BY <1>3, <2>1, MovesOn
  <2> QED
    BY <2>3, <2>4, <2>6, <2>7, ProgramAt, JustGoesOn
<1>4. CASE program[p].previous # NoRecord /\
           Becomes(p, [at |-> "save", address |-> program[p].address, found |-> program[p].previous])
  BY <1>1, <1>3, <1>4
<1>5. ASSUME NEW h \in Hosts,
             Becomes(p, [at |-> "save", address |-> program[p].address,
                         found |-> [host |-> h, nick |-> NoNick]])
      PROVE  ComputersInv'
  <2>1. [host |-> h, nick |-> NoNick] \in LinkRows
    BY DEF LinkRows
  <2> QED
    BY <1>3, <1>5, <2>1
<1> QED
  BY <1>2, <1>4, <1>5 DEF Probes

LEMMA DeathMoves ==
  ASSUME ComputersInv, NEW p \in Programs, ProgramDies(p)
  PROVE  ComputersInv'
<1>1. program[p].at # "idle"
  BY ProgramAt, StateAt DEF ProgramDies
<1> QED
  BY <1>1, MovesOn, Rests DEF ProgramDies

(* The states a program goes through.                                      *)
LEMMA LinkState ==
  ASSUME NEW a \in Addresses, NEW file \in LinkRows, NEW s,
         s = [at |-> "link", address |-> a, file |-> file]
  PROVE  /\ s \in NextStates /\ s.at = "link" /\ s.address = a /\ s.file = file
         /\ IsState(s) /\ Carries(s) /\ Linked(s) /\ Sure(s)
<1>1. s \in NextStates
  BY DEF NextStates
<1> QED
  BY <1>1 DEF IsState, Carries, Linked, Sure, Recording

LEMMA RecordState ==
  ASSUME NEW obs \in ComputerRows, NEW next \in NextStates, NEW s, s = Record(obs, next),
         next.at # "saved",
         next.at \in {"edited", "match"} => obs.host = next.host,
         next.at = "edited" => obs[next.edit.field] = next.edit.value,
         next.at = "match" => obs.nick = next.value
  PROVE  /\ s.at = "record" /\ s.obs = obs /\ s.next = next /\ Core(s) = next
         /\ IsState(s) /\ Carries(s) /\ Linked(s) /\ Sure(s)
<1>1. s.at = "record" /\ s.obs = obs /\ s.next = next
  BY DEF Record
<1>2. s \in [at : {"record"}, obs : ComputerRows, next : NextStates]
  BY DEF Record
<1> QED
  BY <1>1, <1>2 DEF IsState, Carries, Linked, Sure, Recording, Got, Core

LEMMA SaveMoves ==
  ASSUME ComputersInv, NEW p \in Programs, SaveReads(p)
  PROVE  ComputersInv'
<1>1. /\ program[p].at = "save"
      /\ UNCHANGED <<link, computer, linkFaults, saved, quiet, promised>>
  BY DEF SaveReads
<1>2. PICK a \in Addresses : a = program[p].address
  BY <1>1, ProgramAt, StateAt
<1>3. PICK found \in LinkRows : found = program[p].found
  BY <1>1, ProgramAt, StateAt
<1>4. quiet' \subseteq {p} /\ (p \in quiet => OthersIdle(p))
  BY <1>1, ProgramAt
<1>5. Respects(program[p], promised)
  BY ProgramAt
<1>6. PICK existing : existing = link[a]
  OBVIOUS
<1>7. PICK same : same = [found EXCEPT !.nick = Named(@, existing.nick)]
  OBVIOUS
<1>8. CASE existing.host = found.host
  <2>1. existing \in LinkRows
    BY <1>6, <1>8, LinkFile, LinkRow
  <2>2. same \in LinkRows /\ same.host = found.host /\ same.nick \in {found.nick, existing.nick}
    BY <1>7, <2>1 DEF LinkRows, Named
  <2>3. PICK s : s = [at |-> "link", address |-> a, file |-> same]
    OBVIOUS
  <2>4. /\ s.at = "link" /\ s.address = a /\ s.file = same
        /\ IsState(s) /\ Carries(s) /\ Linked(s) /\ Sure(s)
    BY <2>2, <2>3, LinkState
  <2>5. Becomes(p, s)
    BY <1>2, <1>3, <1>6, <1>7, <1>8, <2>3 DEF SaveReads
  <2>6. \A h \in Hosts : \A nick : Holds(s, [host |-> h, nick |-> nick]) =>
          \/ Holds(program[p], [host |-> h, nick |-> nick])
          \/ existing = [host |-> h, nick |-> nick]
    BY <1>1, <1>3, <1>8, <2>1, <2>2, <2>4, LinkRow DEF Holds, Core
  <2>7. Respects(s, promised)
    BY <1>1, <1>5, <1>6, <2>4, <2>6, LinkFile DEF Respects, Editing, Core
  <2>8. \A h \in Hosts, x \in Addresses : link[x].host = h => Minds(s, h, x)
    BY <1>6, <1>8, <2>2, <2>4 DEF Minds, Recording
  <2> QED
    BY <1>1, <1>4, <2>4, <2>5, <2>7, <2>8, MovesOn, JustGoesOn
<1>9. PICK go : go = [at |-> "link", address |-> a, file |-> found]
  OBVIOUS
<1>10. /\ go \in NextStates /\ go.at = "link" /\ go.address = a /\ go.file = found
       /\ IsState(go) /\ Carries(go) /\ Linked(go) /\ Sure(go)
  BY <1>9, LinkState
<1>11. CASE existing.host # found.host /\ existing = NoRecord
  <2>1. Becomes(p, go)
    BY <1>2, <1>3, <1>6, <1>9, <1>11 DEF SaveReads
  <2>2. Respects(go, promised)
    BY <1>1, <1>3, <1>5, <1>10 DEF Respects, Editing, Holds, Core
  <2>3. \A h \in Hosts, x \in Addresses : link[x].host = h => Minds(go, h, x)
    BY <1>6, <1>10, <1>11, LinkFile DEF Minds, Recording
  <2> QED
    BY <1>1, <1>4, <1>10, <2>1, <2>2, <2>3, MovesOn, JustGoesOn
<1>12. CASE existing.host # found.host /\ existing # NoRecord
  <2>1. existing \in LinkRows
    BY <1>6, <1>12, LinkFile
  <2>2. PICK obs \in ComputerRows :
          obs = Observed(existing) /\ obs.host = existing.host /\ obs.nick = existing.nick /\ obs.archived = "unset"
    BY <2>1, LinkRow
  <2>3. PICK s : s = Record(obs, go)
    OBVIOUS
  <2>4. /\ s.at = "record" /\ s.obs = obs /\ s.next = go /\ Core(s) = go
        /\ IsState(s) /\ Carries(s) /\ Linked(s) /\ Sure(s)
    BY <1>10, <2>3, RecordState
  <2>5. Becomes(p, s)
    BY <1>2, <1>3, <1>6, <1>9, <1>12, <2>2, <2>3 DEF SaveReads
  <2>6. existing = [host |-> existing.host, nick |-> existing.nick]
    BY <2>1, LinkRow
  <2>7. Respects(s, promised)
    BY <1>1, <1>3, <1>5, <1>6, <1>10, <2>2, <2>4, <2>6, LinkFile DEF Respects, Editing, Holds, Core
  <2>8. \A h \in Hosts, x \in Addresses : link[x].host = h => Minds(s, h, x)
    BY <1>6, <1>10, <2>2, <2>4 DEF Minds, Recording, Got
  <2> QED
    BY <1>1, <1>4, <2>4, <2>5, <2>7, <2>8, MovesOn, JustGoesOn
<1> QED
  BY <1>8, <1>11, <1>12

(* What the computer's file holds is kept where the observation is silent. *)
LEMMA RecordReadMoves ==
  ASSUME ComputersInv, NEW p \in Programs, RecordReads(p)
  PROVE  ComputersInv'
<1>1. /\ program[p].at = "record"
      /\ UNCHANGED <<link, computer, linkFaults, saved, quiet, promised>>
  BY DEF RecordReads
<1>2. PICK obs \in ComputerRows : obs = program[p].obs
  BY <1>1, ProgramAt, StateAt
<1>3. PICK next \in NextStates : next = program[p].next
  BY <1>1, ProgramAt, StateAt
<1>4. /\ quiet' \subseteq {p} /\ (p \in quiet => OthersIdle(p))
      /\ Respects(program[p], promised) /\ Carries(program[p]) /\ (p \in quiet => Sure(program[p]))
  BY <1>1, ProgramAt
<1>5. PICK new : new = Merged(computer[obs.host], obs)
  OBVIOUS
<1>6. obs.host \in Hosts /\ computer[obs.host] \in ComputerRows \union {NoRecord}
  BY DEF ComputersInv, ComputerFiles, ComputerRows
<1>7. /\ new \in ComputerRows /\ new.host = obs.host
      /\ new.nick = IF obs.nick = NoNick /\ computer[obs.host] # NoRecord
                    THEN computer[obs.host].nick ELSE obs.nick
      /\ new.archived = IF obs.archived = "unset" /\ computer[obs.host] # NoRecord
                        THEN computer[obs.host].archived ELSE obs.archived
  BY <1>5, <1>6 DEF Merged, Named, ComputerRows
<1>8. PICK s : s = [at |-> "write", next |-> next, new |-> new]
  OBVIOUS
<1>9. s.at = "write" /\ s.next = next /\ s.new = new /\ IsState(s)
  BY <1>7, <1>8 DEF IsState
<1>10. Carries(s)
  <2>1. next.at = "edited" => next.edit.field = "archived" /\ next.edit.value \in {"yes", "no"}
    BY NextState DEF Archivings
  <2>2. next.at = "match" => next.value # NoNick
    BY NextState, ComputersAssumption
  <2> QED
    BY <1>1, <1>2, <1>3, <1>4, <1>7, <1>9, <2>1, <2>2 DEF Carries, Recording, Got
<1>11. Linked(s) /\ (p \in quiet => Sure(s))
  BY <1>1, <1>3, <1>4, <1>9 DEF Linked, Sure, Recording
<1>12. \A h \in Hosts : new.host = h =>
         \A field \in Fields : promised[h][field] # Unpromised => new[field] = promised[h][field]
  BY <1>1, <1>2, <1>4, <1>7 DEF Respects, Fields, ComputersInv, EditsKept
<1>13. \A h \in Hosts :
         /\ \A field \in Fields : Editing(s, h, field) => promised[h][field] = Unpromised
         /\ promised[h].nick # Unpromised =>
              \A nick : Holds(s, [host |-> h, nick |-> nick]) => nick \in {NoNick, promised[h].nick}
  BY <1>1, <1>3, <1>4, <1>9 DEF Respects, Editing, Holds, Core
<1>14. Respects(s, promised)
  BY <1>9, <1>12, <1>13 DEF Respects
<1>15. \A h \in Hosts, x \in Addresses : Minds(program[p], h, x) => Minds(s, h, x)
  BY <1>1, <1>2, <1>3, <1>7, <1>9 DEF Minds, Recording, Got
<1>16. Becomes(p, s)
  BY <1>2, <1>3, <1>5, <1>8 DEF RecordReads
<1> QED
  BY <1>1, <1>4, <1>9, <1>10, <1>11, <1>14, <1>15, <1>16, MovesOn, JustGoesOn

(* Every link is to be recorded, then perhaps an edit.                     *)
LEMMA ImportState ==
  ASSUME ComputersInv, NEW h, NEW edit, (h = "none" /\ edit = View) \/ (h \in Hosts /\ edit \in Edits),
         NEW links \in SUBSET LinkRows, NEW s,
         s = [at |-> "import", links |-> links, host |-> h, edit |-> edit]
  PROVE  /\ s \in NextStates /\ s.at = "import" /\ s.links = links /\ s.host = h /\ s.edit = edit
         /\ IsState(s) /\ Carries(s) /\ Linked(s) /\ Sure(s) /\ Core(s) = s
         /\ \A g \in Hosts, x \in Addresses : Minds(s, g, x)
<1>1. s.at = "import" /\ s.links = links /\ s.host = h /\ s.edit = edit
  OBVIOUS
<1>2. s \in NextStates
  <2>1. CASE h = "none" /\ edit = View
    BY <2>1 DEF NextStates
  <2>2. CASE h \in Hosts /\ edit \in Edits
    BY <2>2 DEF NextStates
  <2> QED
    BY <2>1, <2>2
<1> QED
  BY <1>1, <1>2 DEF IsState, Carries, Linked, Sure, Recording, Core, Minds

LEMMA FilesAreRows ==
  ASSUME ComputersInv
  PROVE  /\ LinkFiles \subseteq LinkRows
         /\ \A h \in Hosts : \A nick :
              [host |-> h, nick |-> nick] \in LinkFiles /\ promised[h].nick # Unpromised =>
                nick \in {NoNick, promised[h].nick}
BY LinkFile DEF LinkFiles

LEMMA ViewMoves ==
  ASSUME ComputersInv, NEW p \in Programs, ViewBegins(p)
  PROVE  ComputersInv'
<1>1. PICK s : s = [at |-> "import", links |-> LinkFiles, host |-> "none", edit |-> View]
  OBVIOUS
<1>2. /\ s.at = "import" /\ s.links = LinkFiles /\ s.host = "none"
      /\ IsState(s) /\ Carries(s) /\ Linked(s) /\ Sure(s) /\ Core(s) = s
      /\ \A h \in Hosts, x \in Addresses : Minds(s, h, x)
  <2>1. LinkFiles \in SUBSET LinkRows
    BY FilesAreRows
  <2> QED
    BY <1>1, <2>1, ImportState
<1>3. Respects(s, promised)
  BY <1>2, FilesAreRows, ComputersAssumption DEF Respects, Editing, Holds
<1>4. ProgramMoves(p, s) /\ quiet' \subseteq {p} /\ (p \in quiet' => OthersIdle(p))
  BY <1>1, StartIsQuiet DEF ViewBegins, Imports, ComputersInv
<1> QED
  BY <1>2, <1>3, <1>4, JustGoesOn DEF ViewBegins

(* An edit takes back what was promised of what it sets.                   *)
LEMMA EditMoves ==
  ASSUME ComputersInv, NEW p \in Programs, NEW h \in Hosts, NEW edit \in Edits, EditBegins(p, h, edit)
  PROVE  ComputersInv'
<1> UNCHANGED <<link, computer, linkFaults, saved>>
  BY DEF EditBegins
<1>1. PICK s : s = [at |-> "import", links |-> LinkFiles, host |-> h, edit |-> edit]
  OBVIOUS
<1>2. /\ s.at = "import" /\ s.links = LinkFiles /\ s.host = h /\ s.edit = edit
      /\ IsState(s) /\ Carries(s) /\ Linked(s) /\ Sure(s) /\ Core(s) = s
      /\ \A g \in Hosts, x \in Addresses : Minds(s, g, x)
  <2>1. LinkFiles \in SUBSET LinkRows
    BY FilesAreRows
  <2> QED
    BY <1>1, <2>1, ImportState
<1>3. edit.field \in Fields
  BY DEF Edits, Fields
<1>4. /\ promised' \in [Hosts -> Promises]
      /\ promised'[h][edit.field] = Unpromised
      /\ \A g \in Hosts : /\ \A field \in Fields : promised'[g][field] \in {promised[g][field], Unpromised}
                          /\ promised'[g].nick \in {promised[g].nick, Unpromised}
                          /\ promised'[g].archived \in {promised[g].archived, Unpromised}
  <2>1. promised \in [Hosts -> Promises] /\ promised' = [promised EXCEPT ![h][edit.field] = Unpromised]
    BY DEF EditBegins, ComputersInv, ComputerFiles
  <2>2. CASE edit.field = "nick"
    BY <2>1, <2>2 DEF Promises, Fields
  <2>3. CASE edit.field = "archived"
    BY <2>1, <2>3 DEF Promises, Fields
  <2> QED
    BY <1>3, <2>2, <2>3 DEF Fields
<1>5. Respects(s, promised')
  <2>1. \A g \in Hosts, field \in Fields : Editing(s, g, field) => g = h /\ field = edit.field
    BY <1>2 DEF Editing
  <2>2. \A g \in Hosts : promised'[g].nick # Unpromised =>
          \A nick : Holds(s, [host |-> g, nick |-> nick]) => nick \in {NoNick, promised'[g].nick}
    BY <1>2, <1>4, FilesAreRows DEF Holds
  <2> QED
    BY <1>2, <1>4, <2>1, <2>2 DEF Respects
<1>6. /\ ProgramMoves(p, s) /\ quiet' \subseteq {p} /\ (p \in quiet' => OthersIdle(p))
      /\ Linked(s)' /\ Sure(s)'
  <2>1. Linked(s)' /\ Sure(s)' /\ (p \in quiet' => OthersIdle(p))
    BY <1>2 DEF Linked, Sure, EditBegins, Starts, Recording
  <2> QED
    BY <1>1, <2>1, StartIsQuiet DEF EditBegins, Imports, ComputersInv
<1>7. ProgramsKnow'
  <2>1. \A o \in Programs \ {p} : Respects(program[o], promised')
    BY <1>4, RespectsFewer, ProgramAt
  <2> QED
    BY <1>2, <1>5, <1>6, <2>1, ProgramsGoOn DEF ComputersInv
<1>8. ComputerFiles' /\ NicksFit' /\ EditsKept'
  <2>1. ComputerFiles'
    BY <1>4 DEF ComputersInv, ComputerFiles
  <2>2. NicksFit' /\ EditsKept'
    BY <1>4 DEF ComputersInv, NicksFit, EditsKept, Fields
  <2> QED
    BY <2>1, <2>2
<1>9. MindsOn(p, s)
  BY <1>2 DEF MindsOn
<1>10. Remembered'
  BY <1>6, <1>9, RememberedGoesOn DEF ComputersInv, ComputerFiles
<1> QED
  BY <1>7, <1>8, <1>10 DEF ComputersInv

LEMMA ImportMoves ==
  ASSUME ComputersInv, NEW p \in Programs, ImportsNext(p)
  PROVE  ComputersInv'
<1>1. /\ program[p].at = "import"
      /\ UNCHANGED <<link, computer, linkFaults, saved, quiet, promised>>
  BY DEF ImportsNext
<1>2. PICK me \in NextStates : me = program[p] /\ me.at = "import"
  BY <1>1, ProgramAt, StateAt
<1>3. /\ me.links \subseteq LinkRows
      /\ (me.host = "none" /\ me.edit = View) \/ (me.host \in Hosts /\ me.edit \in Edits)
  BY <1>2, NextState
<1>4. me \in [at : {"import"}, links : SUBSET LinkRows, host : {me.host}, edit : {me.edit}]
  <2>1. CASE me \in [at : {"saved"}, host : Hosts] \/ me \in [at : {"edited"}, host : Hosts, edit : Archivings]
             \/ me \in [at : {"match"}, host : Hosts, value : Nicknames]
             \/ me \in [at : {"link"}, address : Addresses, file : LinkRows]
    BY <1>2, <2>1
  <2>2. CASE \/ me \in [at : {"import"}, links : SUBSET LinkRows, host : {"none"}, edit : {View}]
             \/ me \in [at : {"import"}, links : SUBSET LinkRows, host : Hosts, edit : Edits]
    BY <2>2
  <2> QED
    BY <2>1, <2>2 DEF NextStates
<1>5. PICK file \in me.links : Becomes(p, Record(Observed(file), [me EXCEPT !.links = @ \ {file}]))
  BY <1>2 DEF ImportsNext
<1>6. PICK rest : rest = [me EXCEPT !.links = @ \ {file}]
  OBVIOUS
<1>7. rest = [at |-> "import", links |-> me.links \ {file}, host |-> me.host, edit |-> me.edit]
  BY <1>4, <1>6
<1>8. /\ rest \in NextStates /\ rest.at = "import" /\ rest.links = me.links \ {file}
      /\ rest.host = me.host /\ rest.edit = me.edit
  <2>1. me.links \ {file} \in SUBSET LinkRows
    BY <1>3
  <2> QED
    BY <1>3, <1>7, <2>1, ImportState
<1>9. PICK obs \in ComputerRows :
         obs = Observed(file) /\ obs.host = file.host /\ obs.nick = file.nick /\ obs.archived = "unset"
  BY <1>3, <1>5, LinkRow
<1>10. PICK s : s = Record(obs, rest)
  OBVIOUS
<1>11. /\ s.at = "record" /\ s.obs = obs /\ s.next = rest /\ Core(s) = rest
       /\ IsState(s) /\ Carries(s) /\ Linked(s) /\ Sure(s)
  BY <1>8, <1>10, RecordState
<1>12. Core(me) = me /\ file = [host |-> file.host, nick |-> file.nick]
  BY <1>2, <1>3, <1>5, LinkRow DEF Core
<1>13. /\ \A h \in Hosts : \A field : Editing(s, h, field) => Editing(me, h, field)
       /\ \A x : Holds(s, x) => Holds(me, x)
       /\ Holds(me, [host |-> obs.host, nick |-> obs.nick])
  BY <1>2, <1>5, <1>8, <1>9, <1>11, <1>12 DEF Editing, Holds
<1>14. Respects(me, promised)
  BY <1>2, ProgramAt
<1>15. Respects(s, promised)
  BY <1>9, <1>11, <1>13, <1>14 DEF Respects
<1>16. \A h \in Hosts, x \in Addresses : Minds(s, h, x)
  BY <1>8, <1>11 DEF Minds, Recording
<1>17. Becomes(p, s) /\ quiet' \subseteq {p} /\ (p \in quiet => OthersIdle(p))
  BY <1>1, <1>5, <1>6, <1>9, <1>10, ProgramAt
<1> QED
  BY <1>1, <1>11, <1>15, <1>16, <1>17, MovesOn, JustGoesOn

(* What an edit records is the computer's file with the edit, and for what *)
(* it leaves alone the file is what was promised.                          *)
LEMMA EditReadMoves ==
  ASSUME ComputersInv, NEW p \in Programs, EditReads(p)
  PROVE  ComputersInv'
<1>1. /\ program[p].at = "import"
      /\ UNCHANGED <<link, computer, linkFaults, saved, quiet, promised>>
  BY DEF EditReads
<1>2. PICK me \in NextStates : me = program[p] /\ me.at = "import"
  BY <1>1, ProgramAt, StateAt
<1>3. PICK h : h = me.host
  OBVIOUS
<1>4. PICK edit : edit = me.edit
  OBVIOUS
<1>5. (h = "none" /\ edit = View) \/ (h \in Hosts /\ edit \in Edits)
  BY <1>2, <1>3, <1>4, NextState
<1>6. CASE edit = View \/ computer[h] = NoRecord
  <2>1. Becomes(p, IdleProgram)
    BY <1>2, <1>3, <1>4, <1>6 DEF EditReads
  <2> QED
    BY <1>1, <2>1, MovesOn, Rests
<1>7. CASE edit # View /\ computer[h] # NoRecord
  <2>1. h \in Hosts /\ edit \in Edits /\ edit.field \in Fields
    BY <1>5, <1>7 DEF Edits, Fields
  <2>2. computer[h] \in ComputerRows /\ computer[h].host = h
    BY <1>7, <2>1 DEF ComputersInv, ComputerFiles
  <2>3. PICK obs : obs = [computer[h] EXCEPT ![edit.field] = edit.value]
    OBVIOUS
  <2>4. /\ obs \in ComputerRows /\ obs.host = h /\ obs[edit.field] = edit.value
        /\ \A field \in Fields \ {edit.field} : obs[field] = computer[h][field]
    <3>1. CASE edit.field = "nick"
      <4>1. edit.value \in Nicknames
        BY <2>1, <3>1 DEF Edits
      <4> QED
        BY <2>2, <2>3, <3>1, <4>1 DEF ComputerRows, Fields
    <3>2. CASE edit.field = "archived"
      <4>1. edit.value \in {"yes", "no"}
        BY <2>1, <3>2 DEF Edits
      <4> QED
        BY <2>2, <2>3, <3>2, <4>1 DEF ComputerRows, Fields
    <3> QED
      BY <2>1, <3>1, <3>2 DEF Fields
  <2>5. PICK next : next = IF edit.field = "nick" THEN [at |-> "match", host |-> h, value |-> edit.value]
                           ELSE Edited(h, edit)
    OBVIOUS
  <2>6. /\ next \in NextStates /\ next.at \in {"match", "edited"} /\ next.host = h
        /\ next.at = "match" => edit.field = "nick" /\ next.value = edit.value
        /\ next.at = "edited" => next.edit = edit
    <3>1. CASE edit.field = "nick"
      <4>1. edit.value \in Nicknames
        BY <2>1, <3>1 DEF Edits
      <4>2. next \in [at : {"match"}, host : Hosts, value : Nicknames]
        BY <2>1, <2>5, <3>1, <4>1
      <4> QED
        BY <2>5, <3>1, <4>2 DEF NextStates
    <3>2. CASE edit.field = "archived"
      <4>1. edit \in Archivings
        BY <2>1, <3>2 DEF Edits, Archivings
      <4>2. next = [at |-> "edited", host |-> h, edit |-> edit]
        BY <2>5, <3>2 DEF Edited
      <4>3. next \in [at : {"edited"}, host : Hosts, edit : Archivings]
        BY <2>1, <4>1, <4>2
      <4> QED
        BY <4>2, <4>3 DEF NextStates
    <3> QED
      BY <2>1, <3>1, <3>2 DEF Fields
  <2>7. PICK s : s = Record(obs, next)
    OBVIOUS
  <2>8. /\ s.at = "record" /\ s.obs = obs /\ s.next = next /\ Core(s) = next
        /\ IsState(s) /\ Carries(s) /\ Linked(s) /\ Sure(s)
    BY <2>4, <2>6, <2>7, RecordState
  <2>9. Becomes(p, s)
    BY <1>2, <1>3, <1>4, <1>7, <2>3, <2>5, <2>7 DEF EditReads
  <2>10. promised[h][edit.field] = Unpromised
    <3>1. Respects(me, promised) /\ Core(me) = me
      BY <1>2, ProgramAt DEF Core
    <3>2. Editing(me, h, edit.field)
      BY <1>2, <1>3, <1>4, <3>1 DEF Editing
    <3> QED
      BY <2>1, <3>1, <3>2 DEF Respects
  <2>11. \A field \in Fields : promised[h][field] # Unpromised => obs[field] = promised[h][field]
    BY <2>1, <2>4, <2>10 DEF ComputersInv, EditsKept, Fields
  <2>12. /\ promised[h].nick # Unpromised => obs.nick = promised[h].nick
         /\ promised[h].archived # Unpromised => obs.archived = promised[h].archived
    BY <2>11 DEF Fields
  <2>13. /\ \A g \in Hosts : \A field : Editing(s, g, field) => g = h /\ field = edit.field
         /\ \A x : ~Holds(s, x)
    BY <2>6, <2>8 DEF Editing, Holds
  <2>14. Respects(s, promised)
    BY <2>4, <2>8, <2>10, <2>12, <2>13 DEF Respects
  <2>15. \A g \in Hosts, x \in Addresses : Minds(s, g, x)
    BY <2>6, <2>8 DEF Minds, Recording
  <2>16. quiet' \subseteq {p} /\ (p \in quiet => OthersIdle(p))
    BY <1>1, ProgramAt
  <2> QED
    BY <1>1, <2>8, <2>9, <2>14, <2>15, <2>16, MovesOn, JustGoesOn
<1> QED
  BY <1>6, <1>7

LEMMA MatchState ==
  ASSUME NEW s \in NextStates, s.at = "match"
  PROVE  s = [at |-> "match", host |-> s.host, value |-> s.value] /\ s.host \in Hosts /\ s.value \in Nicknames
<1>1. CASE s \in [at : {"match"}, host : Hosts, value : Nicknames]
  BY <1>1
<1>2. CASE s \in [at : {"saved"}, host : Hosts] \/ s \in [at : {"edited"}, host : Hosts, edit : Archivings]
           \/ s \in [at : {"link"}, address : Addresses, file : LinkRows]
  BY <1>2
<1>3. CASE \/ s \in [at : {"import"}, links : SUBSET LinkRows, host : {"none"}, edit : {View}]
           \/ s \in [at : {"import"}, links : SUBSET LinkRows, host : Hosts, edit : Edits]
  BY <1>3
<1> QED
  BY <1>1, <1>2, <1>3 DEF NextStates

LEMMA RenameMatchMoves ==
  ASSUME ComputersInv, NEW p \in Programs, RenameMatches(p)
  PROVE  ComputersInv'
<1>1. /\ program[p].at = "match"
      /\ UNCHANGED <<link, computer, linkFaults, saved, quiet, promised>>
  BY DEF RenameMatches
<1>2. PICK me \in NextStates : me = program[p] /\ me.at = "match"
  BY <1>1, ProgramAt, StateAt
<1>3. /\ quiet' \subseteq {p} /\ (p \in quiet => OthersIdle(p) /\ Sure(me))
      /\ Respects(me, promised) /\ Core(me) = me
  BY <1>1, <1>2, ProgramAt DEF Core
<1>4. me.host \in Hosts /\ me.value \in Nicknames
  BY <1>2, MatchState
<1>5. PICK paths : paths = {a \in Addresses : link[a].host = me.host}
  OBVIOUS
<1>6. PICK s : s = [at |-> "relink", host |-> me.host, value |-> me.value, paths |-> paths]
  OBVIOUS
<1>7. /\ s \in RelinkStates /\ s.at = "relink" /\ s.host = me.host /\ s.value = me.value
      /\ s.paths = paths /\ Core(s) = s
  BY <1>4, <1>5, <1>6 DEF RelinkStates, Core
<1>8. IsState(s) /\ Carries(s)
  BY <1>7 DEF IsState, Carries, Recording
<1>9. Linked(s)
  BY <1>4, <1>5, <1>7, LinkFile DEF Linked
<1>10. p \in quiet => Sure(s)
  BY <1>2, <1>3, <1>5, <1>7 DEF Sure, Recording
<1>11. Respects(s, promised)
  BY <1>2, <1>3, <1>7 DEF Respects, Editing, Holds
<1>12. \A h \in Hosts, x \in Addresses : Minds(s, h, x)
  BY <1>7 DEF Minds, Recording
<1>13. Becomes(p, s)
  BY <1>2, <1>5, <1>6 DEF RenameMatches, Relink
<1> QED
  BY <1>1, <1>3, <1>8, <1>9, <1>10, <1>11, <1>12, <1>13, MovesOn, JustGoesOn

LEMMA RenameState ==
  ASSUME NEW a \in Addresses, NEW file \in LinkRows, NEW next \in RelinkStates, NEW s,
         s = [at |-> "rename", address |-> a, file |-> file, next |-> next]
  PROVE  /\ s.at = "rename" /\ s.address = a /\ s.file = file /\ s.next = next /\ Core(s) = next
         /\ IsState(s) /\ Carries(s)
BY DEF IsState, Carries, Core, Recording

LEMMA RenameReadMoves ==
  ASSUME ComputersInv, NEW p \in Programs, RenameReads(p)
  PROVE  ComputersInv'
<1>1. /\ program[p].at = "relink"
      /\ UNCHANGED <<link, computer, linkFaults, saved, quiet, promised>>
  BY DEF RenameReads
<1>2. PICK me \in RelinkStates : me = program[p] /\ me.at = "relink"
  BY <1>1, ProgramAt, StateAt
<1>3. /\ quiet' \subseteq {p} /\ (p \in quiet => OthersIdle(p) /\ Sure(me))
      /\ Respects(me, promised) /\ Linked(me) /\ Core(me) = me
  BY <1>1, <1>2, ProgramAt DEF Core
<1>4. me.host \in Hosts /\ me.value \in Nicknames /\ me.paths \subseteq Addresses
  BY <1>2, RelinkAt
<1>5. PICK a \in me.paths : Becomes(p, [at |-> "rename", address |-> a,
                                        file |-> [link[a] EXCEPT !.nick = me.value],
                                        next |-> [me EXCEPT !.paths = @ \ {a}]])
  BY <1>2 DEF RenameReads
<1>6. a \in Addresses /\ link[a] \in LinkRows
  BY <1>2, <1>3, <1>4, <1>5, LinkFile DEF Linked
<1>7. PICK file : file = [link[a] EXCEPT !.nick = me.value]
  OBVIOUS
<1>8. file \in LinkRows /\ file.host = link[a].host /\ file.nick = me.value
  BY <1>4, <1>6, <1>7 DEF LinkRows
<1>9. PICK next : next = [me EXCEPT !.paths = @ \ {a}]
  OBVIOUS
<1>10. /\ next \in RelinkStates /\ next.at = "relink" /\ next.host = me.host
       /\ next.value = me.value /\ next.paths = me.paths \ {a}
  BY <1>4, <1>9 DEF RelinkStates
<1>11. PICK s : s = [at |-> "rename", address |-> a, file |-> file, next |-> next]
  OBVIOUS
<1>12. /\ s.at = "rename" /\ s.address = a /\ s.file = file /\ s.next = next /\ Core(s) = next
       /\ IsState(s) /\ Carries(s)
  BY <1>6, <1>8, <1>10, <1>11, RenameState
<1>13. Linked(s)
  BY <1>2, <1>3, <1>10, <1>12 DEF Linked
<1>14. p \in quiet => Sure(s)
  BY <1>2, <1>3, <1>8, <1>10, <1>12 DEF Sure, Recording
<1>15. Respects(s, promised)
  BY <1>2, <1>3, <1>10, <1>12 DEF Respects, Editing, Holds
<1>16. \A h \in Hosts, x \in Addresses : link[x].host = h => Minds(s, h, x)
  BY <1>8, <1>12 DEF Minds, Recording
<1>17. Becomes(p, s)
  BY <1>5, <1>7, <1>9, <1>11
<1> QED
  BY <1>1, <1>3, <1>12, <1>13, <1>14, <1>15, <1>16, <1>17, MovesOn, JustGoesOn

(* The link goes to the machine found, and who had it was recorded.        *)
LEMMA LinkMoves ==
  ASSUME ComputersInv, NEW p \in Programs, LinkWrites(p)
  PROVE  ComputersInv'
<1> /\ program[p].at = "link"
    /\ UNCHANGED <<computer, linkFaults, saved, quiet, promised>>
  BY DEF LinkWrites
<1>1. PICK me \in NextStates : me = program[p] /\ me.at = "link"
  BY ProgramAt, StateAt
<1>2. PICK a \in Addresses : a = me.address
  BY <1>1, NextState
<1>3. PICK file \in LinkRows : file = me.file
  BY <1>1, NextState
<1>4. /\ quiet' \subseteq {p} /\ (p \in quiet => OthersIdle(p))
      /\ Respects(me, promised) /\ Core(me) = me
  BY <1>1, ProgramAt DEF Core
<1>5. PICK obs \in ComputerRows :
        obs = Observed(file) /\ obs.host = file.host /\ obs.nick = file.nick /\ obs.archived = "unset"
  BY LinkRow
<1>6. PICK next : next = [at |-> "saved", host |-> file.host]
  OBVIOUS
<1>7. next \in NextStates /\ next.at = "saved" /\ next.host = file.host
  BY <1>6, LinkRow DEF NextStates
<1>8. PICK s : s = [at |-> "record", obs |-> obs, next |-> next]
  OBVIOUS
<1>9. /\ s.at = "record" /\ s.obs = obs /\ s.next = next /\ Core(s) = next
      /\ IsState(s) /\ Carries(s) /\ Linked(s)'
  BY <1>5, <1>7, <1>8 DEF IsState, Carries, Linked, Recording, Got, Core
<1>10. link' = [link EXCEPT ![a] = file] /\ Becomes(p, s)
  BY <1>1, <1>2, <1>3, <1>5, <1>6, <1>8 DEF LinkWrites, Record
<1>11. /\ link' \in [Addresses -> LinkRows \union {NoRecord}]
       /\ link'[a] = file /\ \A x \in Addresses \ {a} : link'[x] = link[x]
       /\ \A x \in Addresses : link[x] # NoRecord => link'[x] # NoRecord
  BY <1>10, LinkRow DEF ComputersInv, ComputerFiles
<1>12. Sure(s)'
  BY <1>7, <1>9, <1>11 DEF Sure, Recording
<1>13. /\ \A nick : file = [host |-> file.host, nick |-> nick] => nick = file.nick
       /\ file = [host |-> file.host, nick |-> file.nick]
       /\ Holds(me, file) /\ file.host \in Hosts
  BY <1>1, <1>3, <1>4, LinkRow DEF Holds
<1>14. promised[file.host].nick # Unpromised => file.nick \in {NoNick, promised[file.host].nick}
  BY <1>4, <1>13 DEF Respects
<1>15. Respects(s, promised)
  BY <1>5, <1>7, <1>9, <1>14 DEF Respects, Editing, Holds
<1>16. ProgramMoves(p, s)
  BY <1>10, MovesOn
<1>17. ProgramsKnow'
  BY <1>4, <1>9, <1>11, <1>12, <1>15, <1>16, ProgramsGoOn, ProgramAt DEF ComputersInv
<1>18. MindsOn(p, s)
  <2>1. ASSUME NEW h \in Hosts, NEW x \in Addresses, link[x].host = h, Minds(me, h, x)
        PROVE  link'[x].host = h /\ Minds(s, h, x)
    <3>1. x = a => file.host = h
      BY <1>1, <1>2, <1>3, <2>1 DEF Minds
    <3> QED
      BY <1>7, <1>9, <1>11, <2>1, <3>1 DEF Minds, Recording
  <2> QED
    BY <1>1, <2>1 DEF MindsOn
<1>19. Remembered'
  BY <1>16, <1>18, RememberedGoesOn DEF ComputersInv, ComputerFiles
<1>20. ComputerFiles' /\ EditsKept' /\ NicksFit'
  BY <1>11, <1>14 DEF ComputersInv, ComputerFiles, EditsKept, NicksFit
<1> QED
  BY <1>17, <1>19, <1>20 DEF ComputersInv

(* An edit of a nickname reaches the link file it has read again.          *)
LEMMA RenameWriteMoves ==
  ASSUME ComputersInv, NEW p \in Programs, RenameWrites(p)
  PROVE  ComputersInv'
<1> /\ program[p].at = "rename"
    /\ UNCHANGED <<computer, linkFaults, saved, quiet>>
  BY DEF RenameWrites
<1>1. PICK me : me = program[p]
  OBVIOUS
<1>2. PICK a \in Addresses : a = me.address
  BY <1>1, ProgramAt, StateAt
<1>3. PICK file \in LinkRows : file = me.file
  BY <1>1, ProgramAt, StateAt
<1>4. PICK s \in RelinkStates : s = me.next
  BY <1>1, ProgramAt, StateAt
<1>5. /\ quiet' \subseteq {p} /\ (p \in quiet => OthersIdle(p) /\ Sure(me))
      /\ Respects(me, promised) /\ Linked(me) /\ Core(me) = s
  BY <1>1, <1>4, ProgramAt DEF Core
<1>6. s.at = "relink" /\ s.host \in Hosts /\ s.paths \subseteq Addresses /\ Core(s) = s
  BY RelinkAt DEF Core
<1>7. IsState(s) /\ Carries(s)
  BY <1>6 DEF IsState, Carries, Recording
<1>8. file.host \in Hosts /\ file # NoRecord
  BY LinkRow
<1>9. /\ link' = [link EXCEPT ![a] = file] /\ Becomes(p, s)
      /\ promised' = IF file.host = s.host THEN promised
                     ELSE [promised EXCEPT ![file.host].nick = Unpromised]
  BY <1>1, <1>2, <1>3, <1>4 DEF RenameWrites
<1>10. /\ link' \in [Addresses -> LinkRows \union {NoRecord}]
       /\ link'[a] = file /\ \A x \in Addresses \ {a} : link'[x] = link[x]
       /\ \A x \in Addresses : link[x] # NoRecord => link'[x] # NoRecord
  BY <1>8, <1>9 DEF ComputersInv, ComputerFiles
<1>11. /\ promised' \in [Hosts -> Promises]
       /\ \A g \in Hosts : promised'[g].nick \in {promised[g].nick, Unpromised}
                           /\ promised'[g].archived = promised[g].archived
       /\ file.host # s.host => promised'[file.host].nick = Unpromised
       /\ file.host = s.host => promised' = promised
  BY <1>8, <1>9 DEF ComputersInv, ComputerFiles, Promises
<1>12. \A g \in Hosts : \A field \in Fields : promised'[g][field] \in {promised[g][field], Unpromised}
  BY <1>11 DEF Fields
<1>13. promised[s.host].nick = Unpromised
  <2>1. Editing(me, s.host, "nick")
    BY <1>1, <1>5, <1>6 DEF Editing
  <2> QED
    BY <1>5, <1>6, <2>1 DEF Respects, Fields
<1>14. Linked(s)'
  BY <1>1, <1>5, <1>6, <1>10 DEF Linked
<1>15. p \in quiet => Sure(s)'
  BY <1>1, <1>2, <1>3, <1>5, <1>6, <1>10 DEF Sure, Recording
<1>16. Respects(s, promised)
  BY <1>1, <1>5, <1>6 DEF Respects, Editing, Holds
<1>17. \A o \in Programs : Respects(program[o], promised')
  <2>1. \A o \in Programs : Respects(program[o], promised)
    BY ProgramAt
  <2> QED
    BY <1>11, <1>12, <2>1, RespectsFewer
<1>18. Respects(s, promised')
  BY <1>11, <1>12, <1>16, RespectsFewer
<1>19. ProgramMoves(p, s)
  BY <1>9, MovesOn
<1>20. ProgramsKnow'
  BY <1>5, <1>7, <1>10, <1>14, <1>15, <1>17, <1>18, <1>19, ProgramsGoOn DEF ComputersInv
<1>21. MindsOn(p, s)
  <2>1. ASSUME NEW h \in Hosts, NEW x \in Addresses, link[x].host = h, Minds(me, h, x)
        PROVE  link'[x].host = h /\ Minds(s, h, x)
    <3>1. x = a => file.host = h
      BY <1>1, <1>2, <1>3, <2>1 DEF Minds
    <3> QED
      BY <1>6, <1>10, <2>1, <3>1 DEF Minds, Recording
  <2> QED
    BY <1>1, <2>1 DEF MindsOn
<1>22. Remembered'
  BY <1>19, <1>21, RememberedGoesOn DEF ComputersInv, ComputerFiles
<1>23. ComputerFiles'
  BY <1>10, <1>11 DEF ComputersInv, ComputerFiles
<1>24. NicksFit'
  BY <1>8, <1>10, <1>11, <1>13 DEF ComputersInv, NicksFit
<1>25. EditsKept'
  BY <1>12 DEF ComputersInv, EditsKept, Fields
<1> QED
  BY <1>20, <1>22, <1>23, <1>24, <1>25 DEF ComputersInv

(* A nickname is promised once it is in the computer's file and in all its *)
(* link files.                                                             *)
LEMMA RenameEndMoves ==
  ASSUME ComputersInv, NEW p \in Programs, RenameEnds(p)
  PROVE  ComputersInv'
<1> /\ program[p].at = "relink"
    /\ UNCHANGED <<link, computer, linkFaults, quiet>>
  BY DEF RenameEnds
<1>1. PICK me \in RelinkStates : me = program[p] /\ me.at = "relink"
  BY ProgramAt, StateAt
<1>2. /\ quiet' \subseteq {p} /\ (p \in quiet => OthersIdle(p) /\ Sure(me))
      /\ Respects(me, promised) /\ Core(me) = me
  BY <1>1, ProgramAt DEF Core
<1>3. me.host \in Hosts /\ me.value \in Nicknames /\ me.paths = {}
  BY <1>1, RelinkAt DEF RenameEnds
<1>4. /\ Becomes(p, IdleProgram) /\ saved' = saved
      /\ promised' = IF p \in quiet THEN [promised EXCEPT ![me.host].nick = me.value] ELSE promised
  <2>1. PICK next : next = Edited(me.host, [field |-> "nick", value |-> me.value])
    OBVIOUS
  <2>2. next.at = "edited" /\ next.host = me.host /\ next.edit.field = "nick" /\ next.edit.value = me.value
    BY <2>1 DEF Edited
  <2>3. Concludes(p, next)
    BY <1>1, <2>1 DEF RenameEnds
  <2> QED
    BY <2>2, <2>3 DEF Concludes
<1>5. CASE p \notin quiet
  BY <1>4, <1>5, MovesOn, Rests
<1>6. CASE p \in quiet
  <2>1. /\ promised' \in [Hosts -> Promises]
        /\ promised'[me.host].nick = me.value
        /\ promised'[me.host].archived = promised[me.host].archived
        /\ \A g \in Hosts \ {me.host} : promised'[g] = promised[g]
    BY <1>3, <1>4, <1>6 DEF ComputersInv, ComputerFiles, Promises
  <2>2. /\ computer[me.host] # NoRecord /\ computer[me.host].nick = me.value
        /\ \A x \in Addresses : link[x].host = me.host => link[x].nick = me.value
    BY <1>1, <1>2, <1>3, <1>6 DEF Sure
  <2>3. ComputerFiles' /\ NicksFit' /\ EditsKept'
    <3>1. ComputerFiles'
      BY <1>4, <2>1 DEF ComputersInv, ComputerFiles
    <3>2. NicksFit'
      BY <2>1, <2>2 DEF ComputersInv, NicksFit
    <3>3. ASSUME NEW g \in Hosts, NEW field \in {"nick", "archived"}, promised'[g][field] # Unpromised
          PROVE  computer[g] # NoRecord /\ computer[g][field] = promised'[g][field]
      <4>1. CASE g = me.host /\ field = "nick"
        BY <2>1, <2>2, <4>1
      <4>2. CASE ~(g = me.host /\ field = "nick")
        <5>1. promised'[g][field] = promised[g][field]
          BY <2>1, <3>3, <4>2
        <5> QED
          BY <3>3, <5>1 DEF ComputersInv, EditsKept
      <4> QED
        BY <4>1, <4>2
    <3> QED
      BY <3>1, <3>2, <3>3 DEF EditsKept
  <2>4. ProgramMoves(p, IdleProgram)
    BY <1>4, MovesOn
  <2>5. ProgramsKnow'
    <3>1. Linked(IdleProgram)' /\ Sure(IdleProgram)'
      BY DEF Linked, Sure, Recording, IdleProgram
    <3>2. \A o \in Programs \ {p} : Respects(program[o], promised')
      BY <1>2, <1>6, IdleIsNothing DEF OthersIdle
    <3> QED
      BY <1>2, <1>6, <2>4, <3>1, <3>2, IdleIsNothing, ProgramsGoOn DEF ComputersInv
  <2>6. MindsOn(p, IdleProgram)
    BY IdleMinds DEF MindsOn
  <2>7. Remembered'
    BY <1>4, <2>4, <2>6, RememberedGoesOn DEF ComputersInv, ComputerFiles
  <2> QED
    BY <2>3, <2>5, <2>7 DEF ComputersInv
<1> QED
  BY <1>5, <1>6

(* Where a program is when it has recorded.                                *)
LEMMA AfterRecord ==
  ASSUME NEW next \in NextStates, NEW s,
         s = IF next.at \in {"saved", "edited"} THEN IdleProgram ELSE next
  PROVE  /\ IsState(s) /\ Carries(s) /\ Linked(s)' /\ s.at \in {"idle", "match", "link", "import"}
         /\ s.at = "idle" => s = IdleProgram
         /\ s.at # "idle" => s = next
         /\ next.at \in {"match", "link", "import"} => s = next
<1>1. CASE next.at \in {"saved", "edited"}
  BY <1>1, IdleIsNothing DEF Linked
<1>2. CASE next.at \in {"match", "link", "import"}
  BY <1>2 DEF IsState, Carries, Linked, Recording
<1> QED
  BY <1>1, <1>2, NextState

(* What was recorded is in the file, whoever is named by what comes next.  *)
LEMMA RecordWriteMoves ==
  ASSUME ComputersInv, NEW p \in Programs, RecordWrites(p)
  PROVE  ComputersInv'
<1> /\ program[p].at = "write"
    /\ UNCHANGED <<link, linkFaults, quiet>>
  BY DEF RecordWrites
<1>1. PICK me : me = program[p] /\ me.at = "write"
  OBVIOUS
<1>2. PICK new \in ComputerRows : new = me.new
  BY <1>1, ProgramAt, StateAt
<1>3. PICK next \in NextStates : next = me.next
  BY <1>1, ProgramAt, StateAt
<1>4. /\ quiet' \subseteq {p} /\ (p \in quiet => OthersIdle(p))
      /\ Respects(me, promised) /\ Carries(me) /\ Core(me) = next
  BY <1>1, <1>3, ProgramAt DEF Core
<1>5. PICK s : s = IF next.at \in {"saved", "edited"} THEN IdleProgram ELSE next
  OBVIOUS
<1>6. /\ IsState(s) /\ Carries(s) /\ Linked(s)' /\ s.at \in {"idle", "match", "link", "import"}
      /\ s.at = "idle" => s = IdleProgram
      /\ s.at # "idle" => s = next
      /\ next.at \in {"match", "link", "import"} => s = next
  BY <1>5, AfterRecord
<1>7. /\ computer' = [computer EXCEPT ![new.host] = new] /\ Becomes(p, s)
      /\ saved' = IF next.at = "saved" THEN saved \union {next.host} ELSE saved
      /\ promised' = IF next.at = "edited" /\ p \in quiet
                     THEN [promised EXCEPT ![next.host][next.edit.field] = next.edit.value]
                     ELSE promised
  BY <1>1, <1>2, <1>3, <1>5 DEF RecordWrites, Concludes
<1>8. new.host \in Hosts /\ new # NoRecord
  BY ComputersAssumption DEF ComputerRows, NoRecord
<1>9. /\ computer' \in [Hosts -> ComputerRows \union {NoRecord}]
      /\ computer'[new.host] = new /\ \A g \in Hosts \ {new.host} : computer'[g] = computer[g]
      /\ \A g \in Hosts : computer'[g] # NoRecord => computer'[g].host = g
  BY <1>7, <1>8 DEF ComputersInv, ComputerFiles
<1>10. /\ next.at \in {"saved", "edited", "match"} => next.host = new.host
       /\ next.at = "edited" => new[next.edit.field] = next.edit.value
       /\ next.at = "match" => new.nick = next.value
  BY <1>1, <1>2, <1>3, <1>4 DEF Carries, Recording, Got
<1>11. next.at = "edited" => next.edit.field = "archived" /\ next.edit.value \in {"yes", "no"}
  BY NextState DEF Archivings
<1>12. \A field \in Fields : promised[new.host][field] # Unpromised => new[field] = promised[new.host][field]
  BY <1>1, <1>2, <1>4, <1>8 DEF Respects
<1>13. /\ promised' \in [Hosts -> Promises]
       /\ \A g \in Hosts : promised'[g].nick = promised[g].nick
       /\ \A g \in Hosts \ {new.host} : promised'[g] = promised[g]
       /\ promised'[new.host].archived \in {promised[new.host].archived, new.archived}
       /\ (promised' # promised => p \in quiet /\ next.at = "edited")
  <2>1. CASE next.at = "edited" /\ p \in quiet
    <3>1. promised' = [promised EXCEPT ![new.host].archived = next.edit.value]
      BY <1>7, <1>10, <1>11, <2>1
    <3>2. new.archived = next.edit.value
      BY <1>10, <1>11, <2>1
    <3> QED
      BY <1>8, <1>11, <2>1, <3>1, <3>2 DEF ComputersInv, ComputerFiles, Promises
  <2>2. CASE ~(next.at = "edited" /\ p \in quiet)
    BY <1>7, <2>2 DEF ComputersInv, ComputerFiles
  <2> QED
    BY <2>1, <2>2
<1>14. Respects(s, promised')
  <2>1. CASE s.at = "idle"
    BY <1>6, <2>1, IdleIsNothing
  <2>2. CASE s.at # "idle"
    <3>1. s = next /\ promised' = promised /\ Core(s) = next /\ s.at \notin {"record", "write"}
      BY <1>6, <1>13, <2>2, <1>5 DEF Core, IdleProgram
    <3> QED
      BY <1>4, <3>1 DEF Respects, Editing, Holds
  <2> QED
    BY <2>1, <2>2
<1>15. \A o \in Programs \ {p} : Respects(program[o], promised')
  <2>1. CASE promised' = promised
    BY <2>1, ProgramAt
  <2>2. CASE promised' # promised
    BY <1>4, <1>13, <2>2, IdleIsNothing DEF OthersIdle
  <2> QED
    BY <2>1, <2>2
<1>16. Sure(s)'
  <2>1. s.at = "match" => s = next /\ Core(s) = s /\ computer'[s.host] = new
    BY <1>6, <1>9, <1>10 DEF Core
  <2> QED
    BY <1>6, <1>8, <1>10, <2>1 DEF Sure, Recording
<1>17. ProgramMoves(p, s)
  BY <1>7, MovesOn
<1>18. ProgramsKnow'
  BY <1>4, <1>6, <1>14, <1>15, <1>16, <1>17, ProgramsGoOn DEF ComputersInv
<1>19. MindsOn(p, s)
  <2>1. ASSUME NEW h \in Hosts, NEW x \in Addresses, computer'[h] = NoRecord, Minds(me, h, x)
        PROVE  Minds(s, h, x)
    <3>1. h # new.host
      BY <1>8, <1>9, <2>1
    <3>2. s.at = "link" => s = next
      BY <1>6
    <3> QED
      BY <1>1, <1>2, <1>3, <1>6, <2>1, <3>1, <3>2 DEF Minds, Recording, Got
  <2> QED
    BY <1>1, <2>1 DEF MindsOn
<1>20. Remembered' /\ saved' \subseteq Hosts
  <2>1. saved' \subseteq Hosts /\ saved' \subseteq saved \union {new.host}
    BY <1>7, <1>8, <1>10 DEF ComputersInv, ComputerFiles
  <2>2. \A h \in saved' : computer'[h] = NoRecord => h \in saved /\ computer[h] = NoRecord
    BY <1>8, <1>9, <2>1
  <2> QED
    BY <1>17, <1>19, <2>1, <2>2, RememberedGoesOn DEF ComputersInv
<1>21. ComputerFiles'
  BY <1>9, <1>13, <1>20 DEF ComputersInv, ComputerFiles
<1>22. NicksFit'
  BY <1>13 DEF ComputersInv, NicksFit
<1>23. EditsKept'
  <2>1. ASSUME NEW g \in Hosts, NEW field \in {"nick", "archived"}, promised'[g][field] # Unpromised
        PROVE  computer'[g] # NoRecord /\ computer'[g][field] = promised'[g][field]
    <3>1. CASE g # new.host
      BY <1>9, <1>13, <2>1, <3>1 DEF ComputersInv, EditsKept
    <3>2. CASE g = new.host /\ promised'[g][field] = promised[g][field]
      BY <1>8, <1>9, <1>12, <2>1, <3>2 DEF Fields
    <3>3. CASE g = new.host /\ field = "archived" /\ promised'[g].archived = new.archived
      BY <1>8, <1>9, <3>3
    <3> QED
      BY <1>13, <2>1, <3>1, <3>2, <3>3
  <2> QED
    BY <2>1 DEF EditsKept
<1> QED
  BY <1>18, <1>20, <1>21, <1>22, <1>23 DEF ComputersInv

(* A write fails while no other program is at work: the machine of a link  *)
(* that was saved is in the link, and before the first fault all saved     *)
(* machines are recorded.                                                  *)
LEMMA RecordFailMoves ==
  ASSUME ComputersInv, NEW p \in Programs, RecordFails(p)
  PROVE  ComputersInv'
<1> /\ program[p].at = "write" /\ p \in quiet /\ linkFaults' = linkFaults + 1
    /\ UNCHANGED <<link, computer, quiet>>
  BY DEF RecordFails
<1>1. PICK me : me = program[p] /\ me.at = "write"
  OBVIOUS
<1>2. PICK next \in NextStates : next = me.next
  BY <1>1, ProgramAt, StateAt
<1>3. /\ quiet' \subseteq {p} /\ OthersIdle(p)
      /\ Respects(me, promised) /\ Sure(me) /\ Core(me) = next
  BY <1>1, <1>2, ProgramAt DEF Core
<1>4. PICK s : s = IF next.at \in {"saved", "edited", "match"} THEN IdleProgram ELSE next
  OBVIOUS
<1>5. /\ IsState(s) /\ Carries(s) /\ Linked(s)' /\ Sure(s)'
      /\ s = IdleProgram \/ (s = next /\ s.at \in {"link", "import"})
  <2>1. CASE next.at \in {"saved", "edited", "match"}
    <3>1. Sure(IdleProgram)' /\ Linked(IdleProgram)'
      BY DEF Sure, Linked, Recording, IdleProgram
    <3> QED
      BY <1>4, <2>1, <3>1, IdleIsNothing
  <2>2. CASE next.at \in {"link", "import"}
    BY <1>4, <2>2 DEF IsState, Carries, Linked, Sure, Recording
  <2> QED
    BY <2>1, <2>2, NextState
<1>6. /\ Becomes(p, s) /\ promised' = promised
      /\ saved' = IF next.at = "saved" THEN saved \union {next.host} ELSE saved
  <2>1. CASE next.at \in {"edited", "match"}
    BY <1>1, <1>2, <1>4, <2>1 DEF RecordFails
  <2>2. CASE next.at \in {"saved", "link", "import"}
    BY <1>1, <1>2, <1>4, <2>2 DEF RecordFails, Concludes
  <2> QED
    BY <2>1, <2>2, NextState
<1>7. Respects(s, promised)
  <2>1. CASE s = next /\ s.at \in {"link", "import"}
    <3>1. Core(s) = next
      BY <2>1 DEF Core
    <3> QED
      BY <1>3, <2>1, <3>1 DEF Respects, Editing, Holds
  <2> QED
    BY <1>5, <2>1, IdleIsNothing
<1>8. ProgramMoves(p, s)
  BY <1>6, MovesOn
<1>9. ProgramsKnow'
  <2>1. \A o \in Programs \ {p} : Respects(program[o], promised)
    BY ProgramAt
  <2> QED
    BY <1>3, <1>5, <1>6, <1>7, <1>8, <2>1, ProgramsGoOn DEF ComputersInv
<1>10. linkFaults \in Nat /\ saved' \subseteq Hosts
  BY <1>6, NextState DEF ComputersInv, ComputerFiles
<1>11. ASSUME NEW h \in saved', computer[h] = NoRecord, linkFaults = 0
       PROVE  Secure(h)'
  <2>1. h \notin saved
    BY <1>10, <1>11 DEF ComputersInv, Remembered
  <2>2. next.at = "saved" /\ h = next.host
    BY <1>6, <1>11, <2>1
  <2>3. s = IdleProgram
    BY <1>4, <2>2
  <2>4. PICK a \in Addresses : link[a].host = h
    BY <1>1, <1>2, <1>3, <2>2 DEF Sure, Recording
  <2>5. \A o \in Programs : program'[o] = IdleProgram
    BY <1>3, <1>8, <2>3 DEF ProgramMoves, OthersIdle
  <2>6. \A o \in Programs : Minds(program'[o], h, a)
    BY <2>5, IdleMinds
  <2> QED
    BY <2>4, <2>6 DEF Secure, Minds, Recording, Got
<1>12. Remembered'
  BY <1>10, <1>11 DEF Remembered
<1>13. ComputerFiles' /\ NicksFit' /\ EditsKept'
  BY <1>6, <1>10 DEF ComputersInv, ComputerFiles, NicksFit, EditsKept
<1> QED
  BY <1>9, <1>12, <1>13 DEF ComputersInv

LEMMA ComputersStart ==
  ASSUME ComputersInit
  PROVE  ComputersInv
<1>1. PICK known \in SUBSET Hosts :
        /\ computer = [h \in Hosts |-> IF h \in known THEN Discovered(h) ELSE NoRecord]
        /\ promised = [h \in Hosts |-> [nick |-> IF h \in known THEN FirstNickname ELSE Unpromised,
                                        archived |-> Unpromised]]
  BY DEF ComputersInit
<1>2. \A h \in known : Discovered(h) \in ComputerRows /\ Discovered(h) # NoRecord /\ Discovered(h).host = h
                       /\ Discovered(h).nick = FirstNickname
  BY ComputersAssumption DEF Discovered, ComputerRows, NoRecord
<1>3. \A a \in Addresses : link[a] = NoRecord
  BY DEF ComputersInit
<1>4. \A h \in Hosts : NoRecord.host # h
  BY ComputersAssumption DEF NoRecord
<1>5. ComputerFiles
  BY <1>1, <1>2 DEF ComputersInit, ComputerFiles, Promises
<1>6. NicksFit
  BY <1>3, <1>4 DEF NicksFit
<1>7. EditsKept
  BY <1>1, <1>2 DEF EditsKept
<1>8. Remembered
  BY DEF ComputersInit, Remembered
<1>9. Linked(IdleProgram)
  BY DEF Linked, IdleProgram
<1>10. ProgramsKnow
  BY <1>9, IdleIsNothing DEF ComputersInit, ProgramsKnow
<1> QED
  BY <1>5, <1>6, <1>7, <1>8, <1>10 DEF ComputersInv

LEMMA ComputersMove ==
  ASSUME ComputersInv, [ComputersNext]_computersVars
  PROVE  ComputersInv'
<1>1. CASE UNCHANGED computersVars
  <2>1. ComputerFiles' /\ NicksFit' /\ EditsKept'
    BY <1>1 DEF ComputersInv, computersVars, ComputerFiles, NicksFit, EditsKept
  <2>2. ProgramsKnow'
    BY <1>1 DEF ComputersInv, computersVars, ProgramsKnow, OthersIdle, Sure, Linked
  <2>3. Remembered'
    BY <1>1 DEF ComputersInv, computersVars, Remembered, Secure
  <2> QED
    BY <2>1, <2>2, <2>3 DEF ComputersInv
<1>2. ASSUME NEW p \in LinkPrograms,
             \/ \E a \in Addresses : RoundBegins(p, a)
             \/ Probes(p) \/ SaveReads(p) \/ LinkWrites(p)
      PROVE  ComputersInv'
  BY <1>2, RoundMoves, ProbeMoves, SaveMoves, LinkMoves DEF Programs
<1>3. ASSUME NEW p \in Consoles,
             \/ ViewBegins(p)
             \/ \E h \in Hosts, edit \in Edits : EditBegins(p, h, edit)
             \/ ImportsNext(p) \/ EditReads(p)
             \/ RenameMatches(p) \/ RenameReads(p) \/ RenameWrites(p) \/ RenameEnds(p)
      PROVE  ComputersInv'
  BY <1>3, ViewMoves, EditMoves, ImportMoves, EditReadMoves, RenameMatchMoves, RenameReadMoves,
     RenameWriteMoves, RenameEndMoves DEF Programs
<1>4. ASSUME NEW p \in Programs,
             RecordReads(p) \/ RecordWrites(p) \/ RecordFails(p) \/ ProgramDies(p)
      PROVE  ComputersInv'
  BY <1>4, RecordReadMoves, RecordWriteMoves, RecordFailMoves, DeathMoves
<1> QED
  BY <1>1, <1>2, <1>3, <1>4 DEF ComputersNext

(* Who was promised something is in his file, so is what was promised; and *)
(* after at most one fault every machine that was saved has a file or a    *)
(* link.                                                                   *)
LEMMA ComputersConclude ==
  ASSUME ComputersInv
  PROVE  ComputersHold
<1>1. ComputersTypeOK
  BY LinkFile DEF ComputersTypeOK, ComputersInv, ComputerFiles, ProgramsKnow, ComputerRows
<1>2. MachinesRemembered
  BY DEF MachinesRemembered, ComputersInv, ComputerFiles, Remembered, Secure
<1> QED
  BY <1>1, <1>2 DEF ComputersHold, ComputersInv

(* The programs of a Pi read, merge and write the files of the machines    *)
(* with no lock (EdgeComputers): a machine that was saved is still known   *)
(* after one failed write, and an edit that nobody overlapped is kept      *)
(* whatever is observed afterwards, for any number of programs, addresses  *)
(* and machines.                                                           *)
THEOREM ComputersSafe == ComputersSpec => []ComputersHold
<1>1. ComputersInit => ComputersInv
  BY ComputersStart
<1>2. ComputersInv /\ [ComputersNext]_computersVars => ComputersInv'
  BY ComputersMove
<1>3. ComputersInv => ComputersHold
  BY ComputersConclude
<1> QED
  BY <1>1, <1>2, <1>3, PTL DEF ComputersSpec

-----------------------------------------------------------------------------
(* FutureBranches.                                                         *)

(* Those with fewer than n before them are at most n.                      *)
LEMMA FirstFew ==
  ASSUME NEW S, IsFiniteSet(S), NEW before \in [S -> SUBSET S], NEW n \in Nat,
         \A o, b \in S : o # b => o \in before[b] \/ b \in before[o],
         \A o, b \in S : o \in before[b] => before[o] \subseteq before[b] /\ o \notin before[o]
  PROVE  LET first == {b \in S : Cardinality(before[b]) < n}
         IN  IsFiniteSet(first) /\ Cardinality(first) \in Nat /\ Cardinality(first) <= n
<1> DEFINE first == {b \in S : Cardinality(before[b]) < n}
<1>1. IsFiniteSet(first) /\ Cardinality(first) \in Nat
  BY FS_Subset, FS_CardinalityType
<1>2. \A b \in S : IsFiniteSet(before[b]) /\ Cardinality(before[b]) \in Nat
  BY FS_Subset, FS_CardinalityType
<1>3. CASE first = {}
  BY <1>1, <1>3, FS_EmptySet
<1>4. CASE first # {}
  <2> DEFINE room == {n - Cardinality(before[b]) : b \in first}
  <2>1. room \subseteq Nat /\ room # {}
    BY <1>2, <1>4
  <2>2. PICK x \in room : \A y \in room : x <= y
    <3> HIDE DEF room
    <3> QED
      BY <2>1, LeastExists
  <2>3. PICK b \in first : x = n - Cardinality(before[b])
    BY <2>2
  <2>4. ASSUME NEW o \in first
        PROVE  Cardinality(before[o]) <= Cardinality(before[b])
    <3>1. n - Cardinality(before[b]) <= n - Cardinality(before[o])
      BY <2>2, <2>3
    <3>2. PICK i \in Nat : i = Cardinality(before[o])
      BY <1>2
    <3>3. PICK j \in Nat : j = Cardinality(before[b])
      BY <1>2
    <3> QED
      BY <3>1, <3>2, <3>3
  <2>5. ASSUME NEW o \in first, o # b, o \notin before[b]
        PROVE  FALSE
    <3>1. b \in before[o] /\ before[b] \subseteq before[o] /\ b \notin before[b]
      BY <2>5
    <3>2. Cardinality(before[b] \union {b}) = Cardinality(before[b]) + 1
      BY <1>2, <3>1, FS_AddElement
    <3>3. before[b] \union {b} \in SUBSET before[o] /\ IsFiniteSet(before[o])
      BY <1>2, <3>1
    <3>4. Cardinality(before[b] \union {b}) <= Cardinality(before[o])
      BY <3>3, FS_Subset
    <3> QED
      BY <1>2, <2>4, <3>2, <3>4
  <2>6. first \ {b} \in SUBSET before[b]
    BY <2>5
  <2>7. Cardinality(first \ {b}) <= Cardinality(before[b])
    BY <1>2, <2>6, FS_Subset
  <2>8. Cardinality(first \ {b}) = Cardinality(first) - 1
    BY <1>1, FS_RemoveElement
  <2> QED
    BY <1>1, <1>2, <2>3, <2>7, <2>8
<1> QED
  BY <1>3, <1>4, <1>1

LEMMA UnitsPay ==
  ASSUME NEW units \in Nat, NEW cost \in Nat \ {0}, NEW n \in Nat, n <= units \div cost
  PROVE  cost * n <= units /\ cost * n \in Nat
OBVIOUS

LEMMA IdsFinite ==
  ASSUME NEW w \in Worlds
  PROVE  /\ Ids(w) \subseteq Nat /\ IsFiniteSet(Ids(w))
         /\ \A b \in Ids(w) : w.branch[b] \in Branches
<1>1. w.branch \in Seq(Branches)
  BY DEF Worlds
<1>2. Ids(w) = 1..Len(w.branch) /\ Len(w.branch) \in Nat
  BY <1>1 DEF Ids
<1>3. IsFiniteSet(1..Len(w.branch))
  BY <1>2, FS_Interval
<1> QED
  BY <1>1, <1>2, <1>3

LEMMA WorthIsInt ==
  ASSUME NEW c \in Branches, NEW quality \in Int
  PROVE  Worth(c, quality) \in Int
<1>1. c.confidence \in Nat /\ c.risk \in Nat /\ c.irreversible \in Nat /\ c.uncertainty \in Nat
  BY DEF Branches
<1>2. c.confidence * quality \in Int
  BY <1>1
<1> QED
  BY <1>1, <1>2 DEF Worth

LEMMA QualityIsInt ==
  ASSUME NEW t \in Tiers
  PROVE  Quality[t] \in Int
<1>1. t = 0 \/ t = 1 \/ t = 2 \/ t = 3 \/ t = 4
  BY DEF Tiers
<1> QED
  BY <1>1 DEF Quality, Tiers

LEMMA CostIsNat ==
  ASSUME NEW level \in 1..4
  PROVE  TierCosts[level] \in Nat \ {0}
BY EngineAssumption

LEMMA ProbeTiersAreTiers ==
  ProbeTiers \subseteq 1..4 /\ ProbeUnits \in Nat
BY EngineAssumption DEF Tiers

(* No tier takes more than what is left of the units.                      *)
LEMMA ChosenFew ==
  ASSUME NEW w \in Worlds, NEW tests, NEW level \in 1..4, NEW spent \in Nat, spent <= ProbeUnits
  PROVE  LET chosen == Chosen(w, tests, level, spent)
         IN  /\ chosen \subseteq Contenders(w, tests, level)
             /\ spent + TierCosts[level] * Cardinality(chosen) \in Nat
             /\ spent + TierCosts[level] * Cardinality(chosen) <= ProbeUnits
<1> DEFINE S == Contenders(w, tests, level)
           chosen == Chosen(w, tests, level, spent)
           n == Slots(w, level, spent)
           before == [b \in S |-> {o \in S : Ahead(w, level, o, b)}]
<1>1. S \subseteq Survivors(w) /\ Survivors(w) \subseteq Ids(w)
  BY DEF Contenders, Survivors
<1>2. IsFiniteSet(S) /\ IsFiniteSet(Survivors(w)) /\ Cardinality(Survivors(w)) \in Nat
  <2> HIDE DEF S
  <2> QED
    BY <1>1, IdsFinite, FS_Subset, FS_CardinalityType
<1>3. PICK units \in Nat : units = ProbeUnits - spent
  BY ProbeTiersAreTiers
<1>4. PICK cost \in Nat \ {0} : cost = TierCosts[level]
  BY CostIsNat
<1>5. n \in Nat /\ n <= units \div cost
  <2>1. <<1, 2, 4, 8>>[level] \in Nat \ {0}
    <3>1. level = 1 \/ level = 2 \/ level = 3 \/ level = 4
      OBVIOUS
    <3> QED
      BY <3>1
  <2>2. PICK share \in Nat : share = Cardinality(Survivors(w)) \div <<1, 2, 4, 8>>[level]
    BY <1>2, <2>1
  <2>3. n = Least(IF share = 0 THEN 1 ELSE share, units \div cost)
    BY <1>3, <1>4, <2>2 DEF Slots
  <2>4. units \div cost \in Nat
    BY <1>3, <1>4
  <2> QED
    BY <2>2, <2>3, <2>4 DEF Least
<1>6. PICK worth \in [S -> Int] : \A b \in S : worth[b] = Worth(w.branch[b], Quality[level - 1])
  <2>1. Quality[level - 1] \in Int
    BY QualityIsInt DEF Tiers
  <2>2. \A b \in S : Worth(w.branch[b], Quality[level - 1]) \in Int
    BY <1>1, <2>1, IdsFinite, WorthIsInt
  <2>3. [b \in S |-> Worth(w.branch[b], Quality[level - 1])] \in [S -> Int]
    BY <2>2
  <2> HIDE DEF S
  <2> QED
    BY <2>3
<1>7. \A o, b \in S : Ahead(w, level, o, b) <=> worth[o] > worth[b] \/ (worth[o] = worth[b] /\ o < b)
  BY <1>6 DEF Ahead
<1>8. S \subseteq Nat /\ \A b \in S : worth[b] \in Int
  BY <1>1, <1>6, IdsFinite
<1>9. before \in [S -> SUBSET S] /\ \A o, b \in S : o \in before[b] <=> Ahead(w, level, o, b)
  OBVIOUS
<1>10. chosen = {b \in S : Cardinality(before[b]) < n}
  BY DEF Chosen
<1> HIDE DEF S, chosen, n, before
<1>11. \A o, b \in S : o # b => o \in before[b] \/ b \in before[o]
  BY <1>7, <1>8, <1>9
<1>12. \A o, b, x \in S : o \in before[b] /\ x \in before[o] => x \in before[b]
  BY <1>7, <1>8, <1>9
<1>13. \A o, b \in S : o \in before[b] => before[o] \subseteq before[b] /\ o \notin before[o]
  <2>1. \A o \in S : o \notin before[o] /\ before[o] \subseteq S
    BY <1>7, <1>8, <1>9
  <2> QED
    BY <1>12, <2>1
<1>14. Cardinality(chosen) \in Nat /\ Cardinality(chosen) <= n
  BY <1>2, <1>5, <1>9, <1>10, <1>11, <1>13, FirstFew
<1>15. PICK m \in Nat : m = Cardinality(chosen)
  BY <1>14
<1>16. cost * m <= units /\ cost * m \in Nat
  <2>1. units \div cost \in Nat
    BY <1>3, <1>4
  <2>2. m <= units \div cost
    BY <1>5, <1>14, <1>15, <2>1
  <2> QED
    BY <1>3, <1>4, <2>2, UnitsPay
<1>17. spent + cost * m \in Nat /\ spent + cost * m <= ProbeUnits
  BY <1>3, <1>16, ProbeTiersAreTiers
<1>18. chosen \subseteq S
  BY <1>10
<1> QED
  BY <1>4, <1>15, <1>17, <1>18 DEF chosen, S

(* Evidence goes tier by tier, and exploring adds to it.                   *)
Tested(w, tests) ==
  /\ DOMAIN tests = Ids(w)
  /\ \A b \in Ids(w) :
       /\ DOMAIN tests[b] \subseteq ProbeTiers
       /\ \A t \in DOMAIN tests[b] :
            /\ tests[b][t] \in Results
            /\ \A u \in 1..(t - 1) : u \in DOMAIN tests[b] /\ tests[b][u] # "failed"
Extends(w, old, new) ==
  \A b \in Ids(w) : \A t \in DOMAIN old[b] : t \in DOMAIN new[b] /\ new[b][t] = old[b][t]

LEMMA ProbedSound ==
  ASSUME NEW w \in Worlds, NEW level \in 1..4, NEW out \in [Ids(w) -> [ProbeTiers -> Results]],
         NEW before, Tested(w, before.tests), before.spent \in Nat, before.spent <= ProbeUnits,
         NEW after, after = Probed(w, before, level, out)
  PROVE  /\ Tested(w, after.tests) /\ Extends(w, before.tests, after.tests)
         /\ after.spent \in Nat /\ after.spent <= ProbeUnits
<1>1. PICK chosen : chosen = IF 1..level \subseteq ProbeTiers
                             THEN Chosen(w, before.tests, level, before.spent) ELSE {}
  OBVIOUS
<1>2. PICK tests : tests = before.tests
  OBVIOUS
<1>3. PICK spent \in Nat : spent = before.spent
  OBVIOUS
<1>4. /\ spent + TierCosts[level] * Cardinality(chosen) \in Nat
      /\ spent + TierCosts[level] * Cardinality(chosen) <= ProbeUnits
      /\ chosen \subseteq Contenders(w, tests, level)
  <2>1. CASE 1..level \subseteq ProbeTiers
    BY <1>1, <1>2, <1>3, <2>1, ChosenFew
  <2>2. CASE ~(1..level \subseteq ProbeTiers)
    <3>1. chosen = {} /\ Cardinality(chosen) = 0
      BY <1>1, <2>2, FS_EmptySet
    <3>2. TierCosts[level] * Cardinality(chosen) = 0
      BY <3>1, CostIsNat
    <3> QED
      BY <1>3, <3>1, <3>2
  <2> QED
    BY <2>1, <2>2
<1>5. /\ after.spent = spent + TierCosts[level] * Cardinality(chosen)
      /\ after.tests = [b \in Ids(w) |->
                          IF b \notin chosen THEN tests[b]
                          ELSE [t \in DOMAIN tests[b] \union {level} |->
                                  IF t = level THEN out[b][t] ELSE tests[b][t]]]
  BY <1>1, <1>2, <1>3 DEF Probed
<1>6. DOMAIN after.tests = Ids(w) /\ \A b \in Ids(w) \ chosen : after.tests[b] = tests[b]
  BY <1>5
<1>7. ASSUME NEW b \in Ids(w), b \in chosen
      PROVE  /\ level \notin DOMAIN tests[b] /\ level \in ProbeTiers
             /\ DOMAIN after.tests[b] = DOMAIN tests[b] \union {level}
             /\ after.tests[b][level] \in Results
             /\ \A t \in DOMAIN tests[b] : after.tests[b][t] = tests[b][t]
             /\ \A u \in 1..(level - 1) : u \in DOMAIN tests[b] /\ tests[b][u] # "failed"
  <2>1. level \in ProbeTiers
    BY <1>1, <1>7
  <2>2. level \notin DOMAIN tests[b] /\ 0..(level - 1) \subseteq Passed(w, tests, b)
    BY <1>4, <1>7 DEF Contenders
  <2>3. \A u \in 1..(level - 1) : u \in DOMAIN tests[b] /\ tests[b][u] # "failed"
    <3>1. \A u \in 1..(level - 1) : u \in Passed(w, tests, b) /\ u # 0
      BY <2>2
    <3> QED
      BY <3>1 DEF Passed
  <2>4. after.tests[b] = [t \in DOMAIN tests[b] \union {level} |->
                            IF t = level THEN out[b][t] ELSE tests[b][t]]
    BY <1>5, <1>7
  <2>5. out[b][level] \in Results
    BY <2>1
  <2> QED
    BY <2>1, <2>2, <2>3, <2>4, <2>5
<1>8. Extends(w, tests, after.tests)
  BY <1>6, <1>7 DEF Extends
<1>9. Tested(w, after.tests)
  <2>1. ASSUME NEW b \in Ids(w)
        PROVE  /\ DOMAIN after.tests[b] \subseteq ProbeTiers
               /\ \A t \in DOMAIN after.tests[b] :
                    /\ after.tests[b][t] \in Results
                    /\ \A u \in 1..(t - 1) : u \in DOMAIN after.tests[b] /\ after.tests[b][u] # "failed"
    <3>1. CASE b \notin chosen
      BY <1>2, <1>6, <2>1, <3>1 DEF Tested
    <3>2. CASE b \in chosen
      <4>1. DOMAIN after.tests[b] \subseteq ProbeTiers
        BY <1>2, <1>7, <2>1, <3>2 DEF Tested
      <4>2. ASSUME NEW t \in DOMAIN tests[b]
            PROVE  /\ after.tests[b][t] \in Results
                   /\ \A u \in 1..(t - 1) : u \in DOMAIN after.tests[b] /\ after.tests[b][u] # "failed"
        BY <1>2, <1>7, <2>1, <3>2, <4>2 DEF Tested
      <4>3. /\ after.tests[b][level] \in Results
            /\ \A u \in 1..(level - 1) : u \in DOMAIN after.tests[b] /\ after.tests[b][u] # "failed"
        BY <1>7, <2>1, <3>2
      <4> QED
        BY <1>7, <2>1, <3>2, <4>1, <4>2, <4>3
    <3> QED
      BY <3>1, <3>2
  <2> QED
    BY <1>6, <2>1 DEF Tested
<1> QED
  BY <1>2, <1>4, <1>5, <1>8, <1>9

LEMMA DeepenSound ==
  ASSUME NEW w \in Worlds, NEW start, Tested(w, start),
         NEW out \in [Ids(w) -> [ProbeTiers -> Results]], NEW found, found = Deepen(w, start, out)
  PROVE  /\ Tested(w, found.tests) /\ Extends(w, start, found.tests)
         /\ found.spent \in Nat /\ found.spent <= ProbeUnits
<1>1. PICK none : none = [tests |-> start, spent |-> 0]
  OBVIOUS
<1>2. PICK unit : unit = Probed(w, none, 1, out)
  OBVIOUS
<1>3. PICK vm : vm = Probed(w, unit, 2, out)
  OBVIOUS
<1>4. PICK model : model = Probed(w, vm, 3, out)
  OBVIOUS
<1>5. found = Probed(w, model, 4, out)
  BY <1>1, <1>2, <1>3, <1>4 DEF Deepen
<1>6. none.tests = start /\ none.spent \in Nat /\ none.spent <= ProbeUnits
  BY <1>1, ProbeTiersAreTiers
<1>7. /\ Tested(w, unit.tests) /\ Extends(w, start, unit.tests)
      /\ unit.spent \in Nat /\ unit.spent <= ProbeUnits
  <2>1. 1 \in 1..4
    OBVIOUS
  <2> QED
    BY <1>2, <1>6, <2>1, ProbedSound
<1>8. /\ Tested(w, vm.tests) /\ Extends(w, unit.tests, vm.tests)
      /\ vm.spent \in Nat /\ vm.spent <= ProbeUnits
  <2>1. 2 \in 1..4
    OBVIOUS
  <2> QED
    BY <1>3, <1>7, <2>1, ProbedSound
<1>9. /\ Tested(w, model.tests) /\ Extends(w, vm.tests, model.tests)
      /\ model.spent \in Nat /\ model.spent <= ProbeUnits
  <2>1. 3 \in 1..4
    OBVIOUS
  <2> QED
    BY <1>4, <1>8, <2>1, ProbedSound
<1>10. /\ Tested(w, found.tests) /\ Extends(w, model.tests, found.tests)
       /\ found.spent \in Nat /\ found.spent <= ProbeUnits
  <2>1. 4 \in 1..4
    OBVIOUS
  <2> QED
    BY <1>5, <1>9, <2>1, ProbedSound
<1>11. Extends(w, start, found.tests)
  BY <1>7, <1>8, <1>9, <1>10 DEF Extends
<1> QED
  BY <1>10, <1>11

LEMMA PassedTiers ==
  ASSUME NEW w \in Worlds, NEW tests, Tested(w, tests), NEW b \in Ids(w)
  PROVE  /\ Passed(w, tests, b) \subseteq Tiers
         /\ Passed(w, tests, b) # {} => BestQuality(w, tests, b) \in Int
<1>1. PICK passed : passed = Passed(w, tests, b)
  OBVIOUS
<1>2. passed \subseteq 0..4
  <2>1. DOMAIN tests[b] \subseteq 1..4
    BY ProbeTiersAreTiers DEF Tested
  <2>2. passed \subseteq {0} \union DOMAIN tests[b]
    BY <1>1 DEF Passed
  <2> QED
    BY <2>1, <2>2
<1>3. ASSUME passed # {}
      PROVE  \E t \in passed : \A u \in passed : u <= t
  <2>1. CASE 4 \in passed
    BY <1>2, <2>1
  <2>2. CASE 4 \notin passed /\ 3 \in passed
    BY <1>2, <2>2
  <2>3. CASE 4 \notin passed /\ 3 \notin passed /\ 2 \in passed
    BY <1>2, <2>3
  <2>4. CASE passed \subseteq {0, 1} /\ 1 \in passed
    BY <2>4
  <2>5. CASE passed \subseteq {0}
    <3>1. passed = {0}
      BY <1>3, <2>5
    <3> QED
      BY <3>1
  <2> QED
    BY <1>2, <2>1, <2>2, <2>3, <2>4, <2>5
<1>4. ASSUME passed # {}
      PROVE  BestQuality(w, tests, b) \in Int
  <2>1. PICK best : best = CHOOSE t \in passed : \A u \in passed : u <= t
    OBVIOUS
  <2>2. best \in passed
    BY <1>3, <1>4, <2>1
  <2>3. BestQuality(w, tests, b) = Quality[best]
    BY <1>1, <2>1 DEF BestQuality
  <2> QED
    BY <1>2, <2>2, <2>3, QualityIsInt DEF Tiers
<1> QED
  BY <1>1, <1>2, <1>4 DEF Tiers

(* What a report may select: SelectionSound of one report.                 *)
LEMMA SelectedSound ==
  ASSUME NEW w \in Worlds, NEW tests, Tested(w, tests)
  PROVE  /\ Cardinality(Selected(w, tests)) <= 1
         /\ \A b \in Selected(w, tests) :
              /\ \A t \in 1..4 : t <= w.branch[b].required => t \in DOMAIN tests[b]
              /\ ~Failed(tests, b)
              /\ Changing(w.branch[b]) =>
                   w.lkg /\ \E t \in DOMAIN tests[b] : tests[b][t] = "rollback"
<1> DEFINE worth(b) == Worth(w.branch[b], BestQuality(w, tests, b))
<1>1. PICK selected : selected = Selected(w, tests)
  OBVIOUS
<1>2. \A b \in selected : b \in Automatic(w, tests) /\ b \in Survivors(w) /\ b \in Ids(w)
  BY <1>1 DEF Selected, Automatic, Survivors
<1>3. \A b \in selected : RequiredTier(w.branch[b]) \in Passed(w, tests, b)
  BY <1>2 DEF Automatic
<1>4. \A b \in selected : worth(b) \in Int
  BY <1>2, <1>3, PassedTiers, IdsFinite, WorthIsInt
<1>5. \A b, o \in selected : b # o => worth(b) - worth(o) > 1
  BY <1>1, <1>2 DEF Selected
<1>6. \A b, o \in selected : b = o
  <2> HIDE DEF worth
  <2>1. ASSUME NEW b \in selected, NEW o \in selected, b # o
        PROVE  FALSE
    <3>1. PICK x \in Int : x = worth(b)
      BY <1>4
    <3>2. PICK y \in Int : y = worth(o)
      BY <1>4
    <3>3. x - y > 1 /\ y - x > 1
      BY <1>5, <2>1, <3>1, <3>2
    <3> QED
      BY <3>3
  <2> QED
    BY <2>1
<1>7. Cardinality(selected) <= 1
  <2>1. CASE selected = {}
    BY <2>1, FS_EmptySet
  <2>2. CASE selected # {}
    <3>1. PICK b : selected = {b}
      BY <1>6, <2>2
    <3> QED
      BY <3>1, FS_Singleton
  <2> QED
    BY <2>1, <2>2
<1>8. ASSUME NEW b \in selected
      PROVE  /\ \A t \in 1..4 : t <= w.branch[b].required => t \in DOMAIN tests[b]
             /\ ~Failed(tests, b)
             /\ Changing(w.branch[b]) =>
                  w.lkg /\ \E t \in DOMAIN tests[b] : tests[b][t] = "rollback"
  <2>1. ~Failed(tests, b) /\ (Changing(w.branch[b]) => w.lkg)
    BY <1>2 DEF Automatic, Survivors
  <2>2. Changing(w.branch[b]) => \E t \in DOMAIN tests[b] : tests[b][t] = "rollback"
    BY <1>2 DEF Automatic
  <2>3. PICK required \in Tiers : required = w.branch[b].required
    BY <1>2 DEF Survivors
  <2>4. required # 0 => required \in DOMAIN tests[b]
    <3>1. required # 0 => RequiredTier(w.branch[b]) = required
      BY <2>3 DEF RequiredTier, Tiers
    <3> QED
      BY <1>3, <3>1 DEF Passed
  <2>5. \A t \in 1..4 : t <= required => t \in DOMAIN tests[b]
    <3>1. ASSUME NEW t \in 1..4, t <= required
          PROVE  t \in DOMAIN tests[b]
      <4>1. required \in DOMAIN tests[b]
        BY <2>4, <3>1 DEF Tiers
      <4>2. t = required \/ t \in 1..(required - 1)
        BY <3>1 DEF Tiers
      <4> QED
        BY <1>2, <4>1, <4>2 DEF Tested
    <3> QED
      BY <3>1
  <2> QED
    BY <2>1, <2>2, <2>3, <2>5
<1> QED
  BY <1>1, <1>7, <1>8

LEMMA NoTestsAreTested ==
  ASSUME NEW w \in Worlds
  PROVE  Tested(w, NoTests(w)) /\ \A b \in Ids(w) : DOMAIN NoTests(w)[b] = {}
<1>1. DOMAIN << >> = {}
  OBVIOUS
<1> QED
  BY <1>1 DEF Tested, NoTests

(* The engine's order of checks comes to the same as the oracle's list.    *)
LEMMA OracleIsRight == OracleAgrees
<1>1. SUFFICES ASSUME NEW w \in Catalogue
               PROVE  1 \in Selected(w, NoTests(w)) <=> OracleSelects(w.branch[1])
  BY DEF OracleAgrees
<1>2. w \in Worlds /\ w.branch \in Seq(Branches) /\ Len(w.branch) = 1
  BY EngineAssumption DEF Worlds
<1>3. Ids(w) = {1}
  BY <1>2 DEF Ids
<1>4. PICK c \in Branches : c = w.branch[1]
  BY <1>2, <1>3, IdsFinite
<1>5. c.due /\ c.state \in {"CANDIDATE", "SUCCEEDED", "QUARANTINED"}
  BY <1>4, EngineAssumption
<1>6. PICK tests : tests = NoTests(w)
  OBVIOUS
<1>7. ~Failed(tests, 1) /\ DOMAIN tests[1] = {}
  BY <1>2, <1>3, <1>6, NoTestsAreTested DEF Failed
<1>8. Static(w, 1) <=> OpenBranch(c)
  BY <1>3, <1>4 DEF Static
<1>9. Passed(w, tests, 1) = IF OpenBranch(c) THEN {0} ELSE {}
  BY <1>7, <1>8 DEF Passed
<1>10. OpenBranch(c) => BestQuality(w, tests, 1) = 25
  <2>1. Quality[0] = 25
    BY DEF Quality, Tiers
  <2>2. (CHOOSE t \in {0} : \A u \in {0} : u <= t) = 0
    OBVIOUS
  <2> QED
    BY <1>9, <2>1, <2>2 DEF BestQuality
<1>11. 1 \in Survivors(w) <=>
         OpenBranch(c) /\ c.required \in Tiers /\ (Changing(c) => w.lkg /\ c.rollbackRef)
  BY <1>3, <1>4, <1>8 DEF Survivors
<1>12. Survivors(w) \subseteq {1}
  BY <1>3 DEF Survivors
<1>13. 1 \in Selected(w, tests) <=> 1 \in Automatic(w, tests)
  BY <1>12 DEF Selected, Automatic
<1>14. 1 \in Automatic(w, tests) <=>
         /\ OpenBranch(c) /\ c.required \in Tiers /\ (Changing(c) => w.lkg /\ c.rollbackRef)
         /\ RequiredTier(c) = 0 /\ ~Changing(c) /\ Worth(c, 25) > 0
  BY <1>4, <1>7, <1>9, <1>10, <1>11 DEF Automatic
<1>15. c.required \in Tiers /\ RequiredTier(c) = 0 /\ ~Changing(c) <=> c.required = 0 /\ ~Changing(c)
  BY DEF RequiredTier, Tiers
<1>16. OpenBranch(c) /\ c.required = 0 /\ ~Changing(c) <=> ~Protected(c)
  <2>1. c.risk \in Nat /\ c.irreversible \in Nat
    BY DEF Branches
  <2> QED
    BY <1>5, <2>1 DEF OpenBranch, Protected
<1>17. OpenBranch(c) => (Worth(c, 25) > 0 <=> c.confidence * 25 > c.risk + c.uncertainty)
  <2>1. c.risk \in Nat /\ c.irreversible \in Nat /\ c.uncertainty \in Nat /\ c.confidence \in Nat
    BY DEF Branches
  <2>2. PICK value \in Nat : value = c.confidence * 25
    BY <2>1
  <2> QED
    BY <2>1, <2>2 DEF OpenBranch, Worth
<1>18. ~Protected(c) => OpenBranch(c)
  BY <1>16
<1>19. 1 \in Automatic(w, tests) <=> ~Protected(c) /\ Worth(c, 25) > 0
  BY <1>14, <1>15, <1>16
<1>20. 1 \in Automatic(w, tests) <=> OracleSelects(c)
  BY <1>17, <1>18, <1>19 DEF OracleSelects
<1> QED
  BY <1>4, <1>6, <1>13, <1>20

(* Evidence is of probes that were run; a report is sound, and so is what  *)
(* an explorer holds.  One that nobody has overtaken holds at least what   *)
(* the last report about the present state says.                           *)
Found(v, tests) ==
  \A b \in Ids(worlds[v]) : \A t \in DOMAIN tests[b] :
    [version |-> v, branch |-> b, tier |-> t, result |-> tests[b][t]] \in ran
Sound(report) ==
  /\ report.version \in 1..version
  /\ report.spent \in Nat /\ report.spent <= ProbeUnits
  /\ Tested(worlds[report.version], report.tests) /\ Found(report.version, report.tests)
Probing(x) ==
  /\ x = [at |-> "probe", version |-> x.version, tests |-> x.tests, alone |-> x.alone]
  /\ x.alone \in BOOLEAN /\ x.version \in 1..version
  /\ Tested(worlds[x.version], x.tests) /\ Found(x.version, x.tests)
  /\ x.alone = TRUE => x.version = version /\ x.tests = Prior(version)
Reporting(x) ==
  /\ x = [at |-> "record", alone |-> x.alone, report |-> x.report]
  /\ x.alone \in BOOLEAN /\ Sound(x.report)
  /\ x.alone = TRUE => x.report.version = version /\ Extends(World, Prior(version), x.report.tests)
Explores(x) == x = Resting \/ Probing(x) \/ Reporting(x)

ReportsSound == (\E S : decisions \in Seq(S)) /\ \A i \in DOMAIN decisions : Sound(decisions[i])
EngineRows ==
  /\ worlds \in Histories /\ version \in DOMAIN worlds /\ ReportsSound
  /\ overtaken \in BOOLEAN
Lasts ==
  overtaken = FALSE =>
    \A i \in DOMAIN decisions :
      decisions[i].version = version => Extends(World, decisions[i].tests, Prior(version))
ExplorersKnow ==
  DOMAIN explorer = Explorers /\ \A e \in Explorers : Explores(explorer[e])
EngineInv == EngineRows /\ Lasts /\ ExplorersKnow

LEMMA WorldsAre ==
  ASSUME EngineRows
  PROVE  /\ worlds \in Seq(Worlds) /\ version \in 1..Len(worlds) /\ Len(worlds) \in Nat
         /\ \A v \in 1..version : worlds[v] \in Worlds
<1>1. worlds \in Seq(Worlds)
  BY EngineAssumption DEF EngineRows
<1>2. Len(worlds) \in Nat /\ version \in 1..Len(worlds)
  BY <1>1 DEF EngineRows
<1> QED
  BY <1>1, <1>2

LEMMA PriorSound ==
  ASSUME EngineRows
  PROVE  Tested(World, Prior(version)) /\ Found(version, Prior(version))
<1>1. PICK n : n = Len(decisions)
  OBVIOUS
<1>2. World \in Worlds
  BY WorldsAre DEF World
<1>3. CASE n > 0 /\ decisions[n].version = version
  <2>1. n \in DOMAIN decisions
    BY <1>1, <1>3 DEF EngineRows, ReportsSound
  <2> QED
    BY <1>1, <1>3, <2>1 DEF EngineRows, ReportsSound, Sound, Prior, World
<1>4. CASE ~(n > 0 /\ decisions[n].version = version)
  <2>1. Prior(version) = NoTests(World)
    BY <1>1, <1>4 DEF Prior, World
  <2> QED
    BY <1>2, <2>1, NoTestsAreTested DEF Found, World
<1> QED
  BY <1>3, <1>4

(* The world is the same, or a later one, and more probes were run.        *)
GoesOn ==
  /\ worlds' = worlds /\ version' \in DOMAIN worlds /\ version' \in Nat /\ version <= version'
  /\ ran \subseteq ran'

LEMMA StillSound ==
  ASSUME EngineRows, GoesOn, NEW report, Sound(report)
  PROVE  Sound(report)'
<1>1. version \in Nat /\ version' \in Nat
  BY WorldsAre DEF GoesOn
<1> QED
  BY <1>1 DEF Sound, Found, GoesOn

LEMMA StillReportsSound ==
  ASSUME EngineRows, GoesOn, \E S : decisions' \in Seq(S), \A i \in DOMAIN decisions' : Sound(decisions'[i])
  PROVE  ReportsSound'
<1>1. ASSUME NEW i \in DOMAIN decisions'
      PROVE  Sound(decisions[i])'
  <2>1. PICK found : found = decisions'[i] /\ Sound(found)
    OBVIOUS
  <2>2. Sound(found)'
    BY <2>1, StillSound
  <2> QED
    BY <2>1, <2>2 DEF Sound, Found
<1> QED
  BY <1>1 DEF ReportsSound

LEMMA ProbeOvertaken ==
  ASSUME NEW v, NEW tests, NEW alone, NEW no
  PROVE  [[at |-> "probe", version |-> v, tests |-> tests, alone |-> alone] EXCEPT !.alone = no]
           = [at |-> "probe", version |-> v, tests |-> tests, alone |-> no]
OBVIOUS

LEMMA ReportOvertaken ==
  ASSUME NEW report, NEW alone, NEW no
  PROVE  [[at |-> "record", alone |-> alone, report |-> report] EXCEPT !.alone = no]
           = [at |-> "record", alone |-> no, report |-> report]
OBVIOUS

LEMMA StillExplores ==
  ASSUME EngineRows, GoesOn, NEW x, Explores(x), NEW y,
         \/ y = x /\ (x = Resting \/ (version' = version /\ Prior(version)' = Prior(version)))
         \/ x # Resting /\ y = [x EXCEPT !.alone = FALSE]
  PROVE  Explores(y)'
<1>1. version \in Nat /\ version' \in Nat
  BY WorldsAre DEF GoesOn
<1>2. CASE y = Resting
  BY <1>2 DEF Explores, Resting
<1>3. CASE Probing(x) /\ y # Resting
  <2>1. /\ y = [at |-> "probe", version |-> x.version, tests |-> x.tests, alone |-> y.alone]
        /\ y.alone \in BOOLEAN
        /\ y.alone = TRUE => y = x /\ x # Resting
    <3>1. x = [at |-> "probe", version |-> x.version, tests |-> x.tests, alone |-> x.alone] /\ x.alone \in BOOLEAN
      BY <1>3 DEF Probing
    <3>2. x.at # "idle" /\ x # Resting
      BY <3>1 DEF Resting
    <3>3. CASE y = x
      BY <3>1, <3>2, <3>3
    <3>4. CASE y = [x EXCEPT !.alone = FALSE]
      <4>1. y = [at |-> "probe", version |-> x.version, tests |-> x.tests, alone |-> FALSE]
        <5>1. PICK no : no = FALSE
          OBVIOUS
        <5>2. y = [x EXCEPT !.alone = no]
          BY <3>4, <5>1
        <5>3. y = [at |-> "probe", version |-> x.version, tests |-> x.tests, alone |-> no]
          BY <3>1, <5>2, ProbeOvertaken
        <5> QED
          BY <5>1, <5>3
      <4>2. y.alone = FALSE
        BY <4>1
      <4> QED
        BY <4>1, <4>2
    <3> QED
      BY <3>3, <3>4
  <2>2. /\ y.version = x.version /\ y.tests = x.tests
        /\ y = [at |-> "probe", version |-> y.version, tests |-> y.tests, alone |-> y.alone]
    BY <2>1
  <2>3. y.alone = TRUE => version' = version /\ Prior(version)' = Prior(version) /\ x.alone = TRUE
    <3>1. y.alone = TRUE => y # [x EXCEPT !.alone = FALSE]
      BY <1>3, <2>1 DEF Probing
    <3> QED
      BY <2>1, <3>1
  <2>4. y.version \in 1..version' /\ Tested(worlds'[y.version], y.tests) /\ Found(y.version, y.tests)'
    BY <1>1, <1>3, <2>2 DEF Probing, GoesOn, Found
  <2>5. y.alone = TRUE => y.version = version' /\ y.tests = Prior(version)'
    BY <1>3, <2>2, <2>3 DEF Probing
  <2>6. Probing(y)'
    BY <2>1, <2>2, <2>4, <2>5 DEF Probing
  <2> QED
    BY <2>6 DEF Explores
<1>4. CASE Reporting(x) /\ y # Resting
  <2>1. /\ y = [at |-> "record", alone |-> y.alone, report |-> x.report]
        /\ y.alone \in BOOLEAN
        /\ y.alone = TRUE => y = x /\ x # Resting
    <3>1. x = [at |-> "record", alone |-> x.alone, report |-> x.report] /\ x.alone \in BOOLEAN
      BY <1>4 DEF Reporting
    <3>2. x.at # "idle" /\ x # Resting
      BY <3>1 DEF Resting
    <3>3. CASE y = x
      BY <3>1, <3>2, <3>3
    <3>4. CASE y = [x EXCEPT !.alone = FALSE]
      <4>1. y = [at |-> "record", alone |-> FALSE, report |-> x.report]
        <5>1. PICK no : no = FALSE
          OBVIOUS
        <5>2. y = [x EXCEPT !.alone = no]
          BY <3>4, <5>1
        <5>3. y = [at |-> "record", alone |-> no, report |-> x.report]
          BY <3>1, <5>2, ReportOvertaken
        <5> QED
          BY <5>1, <5>3
      <4>2. y.alone = FALSE
        BY <4>1
      <4> QED
        BY <4>1, <4>2
    <3> QED
      BY <3>3, <3>4
  <2>2. y.report = x.report /\ y = [at |-> "record", alone |-> y.alone, report |-> y.report]
    BY <2>1
  <2>3. y.alone = TRUE => version' = version /\ Prior(version)' = Prior(version) /\ x.alone = TRUE
    BY <1>4, <2>1
  <2>4. Sound(y.report)'
    BY <1>4, <2>2, StillSound DEF Reporting
  <2>5. y.alone = TRUE => y.report.version = version' /\ Extends(World, Prior(version), y.report.tests)'
    BY <1>4, <2>2, <2>3 DEF Reporting, Extends, World, GoesOn
  <2>6. Reporting(y)'
    BY <2>1, <2>2, <2>4, <2>5 DEF Reporting
  <2> QED
    BY <2>6 DEF Explores
<1> QED
  BY <1>2, <1>3, <1>4 DEF Explores

(* A report that is not yet there is the last one.                         *)
LEMMA RecordedIs ==
  ASSUME EngineRows, NEW report, Sound(report), decisions' = Recorded(report), GoesOn, version' = version
  PROVE  /\ ReportsSound'
         /\ \A i \in DOMAIN decisions' :
              decisions'[i] = report \/ \E j \in DOMAIN decisions : decisions'[i] = decisions[j]
         /\ \/ decisions' = decisions /\ Prior(version)' = Prior(version)
            \/ Prior(version)' = IF report.version = version THEN report.tests ELSE NoTests(World)
<1>1. PICK S : decisions \in Seq(S)
  BY DEF EngineRows, ReportsSound
<1>2. CASE \E i \in DOMAIN decisions : decisions[i] = report
  <2>1. decisions' = decisions
    BY <1>2 DEF Recorded
  <2>2. Prior(version)' = Prior(version)
    BY <2>1 DEF Prior, GoesOn
  <2> QED
    <3>1. ReportsSound'
      BY <2>1, StillReportsSound DEF EngineRows, ReportsSound
    <3>2. \A i \in DOMAIN decisions' : decisions'[i] = decisions[i] /\ i \in DOMAIN decisions
      BY <2>1
    <3> QED
      BY <2>1, <2>2, <3>1, <3>2
<1>3. CASE ~\E i \in DOMAIN decisions : decisions[i] = report
  <2>1. decisions' = Append(decisions, report)
    BY <1>3 DEF Recorded
  <2>2. decisions \in Seq(S \union {report})
    BY <1>1
  <2>3. decisions' \in Seq(S \union {report})
    BY <2>1, <2>2
  <2>4. /\ Len(decisions) \in Nat /\ Len(decisions') = Len(decisions) + 1
        /\ decisions'[Len(decisions')] = report
        /\ DOMAIN decisions = 1..Len(decisions) /\ DOMAIN decisions' = 1..Len(decisions')
        /\ \A i \in 1..Len(decisions) : decisions'[i] = decisions[i]
    BY <2>1, <2>2
  <2>5. \A i \in DOMAIN decisions' :
          decisions'[i] = report \/ \E j \in DOMAIN decisions : decisions'[i] = decisions[j]
    <3>1. ASSUME NEW i \in DOMAIN decisions', i # Len(decisions')
          PROVE  i \in 1..Len(decisions)
      BY <2>4, <3>1
    <3> QED
      BY <2>4, <3>1
  <2>6. \A i \in DOMAIN decisions' : Sound(decisions'[i])
    BY <2>5 DEF EngineRows, ReportsSound
  <2>7. ReportsSound'
    BY <2>3, <2>6, StillReportsSound
  <2>8. Prior(version)' = IF report.version = version THEN report.tests ELSE NoTests(World)
    <3>1. Len(decisions') > 0
      BY <2>4
    <3> QED
      BY <2>4, <3>1 DEF Prior, GoesOn, World
  <2> QED
    BY <2>3, <2>5, <2>7, <2>8
<1> QED
  BY <1>2, <1>3

LEMMA ExtendsItself ==
  ASSUME NEW w, NEW tests
  PROVE  Extends(w, tests, tests)
BY DEF Extends

LEMMA ExtendsOn ==
  ASSUME NEW w, NEW old, NEW middle, NEW new, Extends(w, old, middle), Extends(w, middle, new)
  PROVE  Extends(w, old, new)
BY DEF Extends

(* The last report about the present state has no less than all of them.   *)
LEMMA LastsOn ==
  ASSUME EngineRows, Lasts, NEW report, decisions' = Recorded(report), Sound(report), GoesOn,
         version' = version, overtaken' = FALSE,
         overtaken = FALSE, report.version = version, Extends(World, Prior(version), report.tests)
  PROVE  Lasts'
<1>1. PICK prior : prior = Prior(version)'
  OBVIOUS
<1>2. Extends(World, Prior(version), prior)
  BY <1>1, RecordedIs, ExtendsItself
<1>3. ASSUME NEW i \in DOMAIN decisions', decisions'[i].version = version
      PROVE  Extends(World, decisions'[i].tests, prior)
  <2>1. CASE \E j \in DOMAIN decisions : decisions'[i] = decisions[j]
    BY <1>2, <1>3, <2>1, ExtendsOn DEF Lasts
  <2>2. CASE decisions'[i] = report /\ prior = report.tests
    BY <2>2, ExtendsItself
  <2>3. CASE decisions' = decisions
    <3>1. i \in DOMAIN decisions /\ decisions'[i] = decisions[i]
      BY <2>3
    <3> QED
      BY <2>1, <3>1
  <2> QED
    BY <1>1, <1>3, <2>1, <2>2, <2>3, RecordedIs
<1>4. World' = World
  BY DEF World, GoesOn
<1> QED
  BY <1>1, <1>3, <1>4 DEF Lasts

LEMMA RestIsFine ==
  Explores(Resting)
BY DEF Explores

LEMMA DecidesMoves ==
  ASSUME EngineInv, Decides
  PROVE  EngineInv'
<1> UNCHANGED <<worlds, version, explorer, ran, reads, overtaken>>
  BY DEF Decides
<1>1. EngineRows /\ Lasts /\ ExplorersKnow
  BY DEF EngineInv
<1>2. GoesOn
  BY <1>1, WorldsAre DEF GoesOn, EngineRows
<1>3. PICK report : report = [version |-> version, tests |-> Prior(version), spent |-> 0]
  OBVIOUS
<1>4. report.version = version /\ report.tests = Prior(version) /\ report.spent = 0
  BY <1>3
<1>5. Sound(report) /\ decisions' = Recorded(report)
  <2>1. report.spent \in Nat /\ report.spent <= ProbeUnits /\ report.version \in 1..version
    BY <1>1, <1>4, WorldsAre, ProbeTiersAreTiers
  <2> QED
    BY <1>1, <1>3, <1>4, <2>1, PriorSound DEF Sound, Decides, World
<1>6. EngineRows'
  BY <1>1, <1>2, <1>5, RecordedIs DEF EngineRows
<1>7. Prior(version)' = Prior(version)
  BY <1>1, <1>2, <1>4, <1>5, RecordedIs
<1>8. Lasts'
  <2>1. CASE overtaken = FALSE
    BY <1>1, <1>2, <1>4, <1>5, <2>1, LastsOn, ExtendsItself
  <2>2. CASE overtaken # FALSE
    BY <2>2 DEF Lasts
  <2> QED
    BY <2>1, <2>2
<1>9. ExplorersKnow'
  BY <1>1, <1>2, <1>7, StillExplores DEF ExplorersKnow
<1> QED
  BY <1>6, <1>8, <1>9 DEF EngineInv

(* No report is about a state that is to come.                             *)
LEMMA WorldMoves ==
  ASSUME EngineInv, WorldChanges
  PROVE  EngineInv'
<1>1. EngineRows /\ Lasts /\ ExplorersKnow
  BY DEF EngineInv
<1>2. /\ worlds' = worlds /\ decisions' = decisions /\ ran' = ran /\ overtaken' = FALSE
      /\ version' = version + 1 /\ version < Len(worlds)
      /\ explorer' = [e \in Explorers |-> IF explorer[e] = Resting THEN Resting
                                          ELSE [explorer[e] EXCEPT !.alone = FALSE]]
  BY DEF WorldChanges
<1>3. GoesOn /\ version \in Nat
  BY <1>1, <1>2, WorldsAre DEF GoesOn
<1>4. EngineRows'
  <2>1. ReportsSound'
    BY <1>1, <1>2, <1>3, StillReportsSound DEF EngineRows, ReportsSound
  <2> QED
    BY <1>1, <1>2, <1>3, <2>1 DEF EngineRows, GoesOn
<1>5. Lasts'
  <2>1. \A i \in DOMAIN decisions : decisions[i].version # version + 1
    BY <1>1, <1>3 DEF EngineRows, ReportsSound, Sound
  <2> QED
    BY <1>2, <2>1 DEF Lasts
<1>6. ExplorersKnow'
  <2>1. ASSUME NEW e \in Explorers
        PROVE  Explores(explorer[e])'
    <3>1. PICK x : x = explorer[e] /\ Explores(x)
      BY <1>1, <2>1 DEF ExplorersKnow
    <3>2. PICK y : y = explorer'[e]
      OBVIOUS
    <3>3. \/ y = x /\ x = Resting
          \/ x # Resting /\ y = [x EXCEPT !.alone = FALSE]
      BY <1>2, <2>1, <3>1, <3>2
    <3>4. Explores(y)'
      BY <1>1, <1>3, <3>1, <3>3, StillExplores
    <3> QED
      BY <3>2, <3>4
  <2> QED
    BY <1>2, <2>1 DEF ExplorersKnow
<1> QED
  BY <1>4, <1>5, <1>6 DEF EngineInv

(* One explorer goes on, the others have lost nothing.                     *)
LEMMA OneExplorerMoves ==
  ASSUME EngineInv, GoesOn, NEW e \in Explorers, NEW to, Explores(to)',
         explorer' = [explorer EXCEPT ![e] = to], UNCHANGED <<version, decisions, overtaken>>
  PROVE  EngineInv'
<1>1. EngineRows /\ Lasts /\ ExplorersKnow
  BY DEF EngineInv
<1>2. EngineRows'
  <2>1. ReportsSound'
    BY <1>1, StillReportsSound DEF EngineRows, ReportsSound
  <2> QED
    BY <1>1, <2>1 DEF EngineRows, GoesOn
<1>3. Prior(version)' = Prior(version) /\ World' = World
  BY DEF Prior, World, GoesOn
<1>4. Lasts'
  BY <1>1, <1>3 DEF Lasts
<1>5. ASSUME NEW o \in Explorers
      PROVE  Explores(explorer[o])'
  <2>1. PICK y : y = explorer'[o]
    OBVIOUS
  <2>2. CASE o = e
    BY <1>1, <2>2 DEF ExplorersKnow
  <2>3. CASE o # e
    <3>1. y = explorer[o] /\ Explores(y)
      BY <1>1, <2>1, <2>3 DEF ExplorersKnow
    <3>2. Explores(y)'
      BY <1>1, <1>3, <3>1, StillExplores
    <3> QED
      BY <2>1, <3>2
  <2> QED
    BY <2>2, <2>3
<1>6. ExplorersKnow'
  BY <1>1, <1>5 DEF ExplorersKnow
<1> QED
  BY <1>2, <1>4, <1>6 DEF EngineInv

LEMMA StaysAsItIs ==
  ASSUME EngineInv, UNCHANGED <<worlds, version>>, ran \subseteq ran'
  PROVE  GoesOn
BY WorldsAre DEF EngineInv, EngineRows, GoesOn

LEMMA ReadsMoves ==
  ASSUME EngineInv, NEW e \in Explorers, ExploreReads(e)
  PROVE  EngineInv'
<1> UNCHANGED <<worlds, version, decisions, ran, overtaken>>
  BY DEF ExploreReads
<1>1. GoesOn /\ EngineRows
  BY StaysAsItIs DEF EngineInv
<1>2. PICK to : to = [at |-> "probe", version |-> version, tests |-> Prior(version), alone |-> TRUE]
  OBVIOUS
<1>3. /\ to.version = version /\ to.tests = Prior(version) /\ to.alone = TRUE
      /\ to = [at |-> "probe", version |-> to.version, tests |-> to.tests, alone |-> to.alone]
  <2>1. PICK yes : yes = TRUE
    OBVIOUS
  <2>2. to = [at |-> "probe", version |-> version, tests |-> Prior(version), alone |-> yes]
    BY <1>2, <2>1
  <2> QED
    BY <2>1, <2>2
<1>4. Probing(to)
  <2>1. version \in 1..version
    BY <1>1, WorldsAre
  <2> QED
    BY <1>1, <1>3, <2>1, PriorSound DEF Probing, World
<1>5. Explores(to)'
  <2>1. Prior(version)' = Prior(version)
    BY DEF Prior
  <2> QED
    BY <1>1, <1>4, <2>1, StillExplores DEF Explores
<1>6. explorer' = [explorer EXCEPT ![e] = to]
  BY <1>2 DEF ExploreReads
<1> QED
  BY <1>1, <1>5, <1>6, OneExplorerMoves

LEMMA EndsMoves ==
  ASSUME EngineInv, NEW e \in Explorers, ExploreEnds(e)
  PROVE  EngineInv'
<1>1. Explores(Resting)'
  BY DEF Explores, Resting
<1> QED
  BY <1>1, StaysAsItIs, OneExplorerMoves DEF ExploreEnds

(* What was found is of probes that were run, or was known before.         *)
LEMMA ProbesMoves ==
  ASSUME EngineInv, NEW e \in Explorers, ExploreProbes(e)
  PROVE  EngineInv'
<1> UNCHANGED <<worlds, version, decisions, overtaken>>
  BY DEF ExploreProbes
<1>1. EngineRows /\ Explores(explorer[e])
  BY DEF EngineInv, ExplorersKnow
<1>2. PICK x : x = explorer[e] /\ Explores(x) /\ x.at = "probe"
  BY <1>1 DEF ExploreProbes
<1>3. Probing(x)
  <2>1. Reporting(x) => x.at = "record"
    BY DEF Reporting
  <2>2. x # Resting
    BY <1>2 DEF Resting
  <2> QED
    BY <1>2, <2>1, <2>2 DEF Explores
<1>4. PICK v \in 1..version : v = x.version
  BY <1>3 DEF Probing
<1>5. PICK w \in Worlds : w = worlds[v]
  BY <1>1, <1>4, WorldsAre
<1>6. PICK start : start = x.tests
  OBVIOUS
<1>7. Tested(w, start) /\ Found(v, start)
  BY <1>3, <1>4, <1>5, <1>6 DEF Probing
<1>8. PICK out \in [Ids(worlds[explorer[e].version]) -> [ProbeTiers -> Results]] :
        LET found == Deepen(worlds[explorer[e].version], explorer[e].tests, out) IN
          /\ explorer' = [explorer EXCEPT ![e] =
               [at |-> "record", alone |-> explorer[e].alone,
                report |-> [version |-> explorer[e].version, tests |-> found.tests,
                            spent |-> found.spent]]]
          /\ ran' = ran \union
               UNION {{[version |-> explorer[e].version, branch |-> b, tier |-> t,
                        result |-> found.tests[b][t]] :
                         t \in DOMAIN found.tests[b] \ DOMAIN explorer[e].tests[b]} :
                      b \in Ids(worlds[explorer[e].version])}
  BY DEF ExploreProbes
<1>9. PICK found : found = Deepen(worlds[explorer[e].version], explorer[e].tests, out)
  OBVIOUS
<1>10. /\ Tested(w, found.tests) /\ Extends(w, start, found.tests)
       /\ found.spent \in Nat /\ found.spent <= ProbeUnits
  <2>1. found = Deepen(w, start, out) /\ out \in [Ids(w) -> [ProbeTiers -> Results]]
    BY <1>2, <1>4, <1>5, <1>6, <1>8, <1>9
  <2> QED
    BY <1>7, <2>1, DeepenSound
<1>11. PICK report : report = [version |-> v, tests |-> found.tests, spent |-> found.spent]
  OBVIOUS
<1>12. report.version = v /\ report.tests = found.tests /\ report.spent = found.spent
  BY <1>11
<1>13. PICK to : to = [at |-> "record", alone |-> x.alone, report |-> report]
  OBVIOUS
<1>14. /\ to.alone = x.alone /\ to.report = report
       /\ to = [at |-> "record", alone |-> to.alone, report |-> to.report]
  BY <1>13
<1>15. explorer' = [explorer EXCEPT ![e] = to]
  BY <1>2, <1>4, <1>8, <1>9, <1>11, <1>13
<1>16. /\ ran \subseteq ran'
       /\ \A b \in Ids(w) : \A t \in DOMAIN found.tests[b] \ DOMAIN start[b] :
            [version |-> v, branch |-> b, tier |-> t, result |-> found.tests[b][t]] \in ran'
  <2>1. ran' = ran \union
          UNION {{[version |-> explorer[e].version, branch |-> b, tier |-> t,
                   result |-> found.tests[b][t]] :
                    t \in DOMAIN found.tests[b] \ DOMAIN explorer[e].tests[b]} :
                 b \in Ids(worlds[explorer[e].version])}
    BY <1>8, <1>9
  <2>2. /\ ran \subseteq ran'
        /\ \A b \in Ids(worlds[explorer[e].version]) :
             \A t \in DOMAIN found.tests[b] \ DOMAIN explorer[e].tests[b] :
               [version |-> explorer[e].version, branch |-> b, tier |-> t,
                result |-> found.tests[b][t]] \in ran'
    BY <2>1
  <2> QED
    BY <1>2, <1>4, <1>5, <1>6, <2>2
<1>17. GoesOn
  BY <1>16, StaysAsItIs
<1>18. Found(v, report.tests)'
  <2>1. ASSUME NEW b \in Ids(w), NEW t \in DOMAIN found.tests[b]
        PROVE  [version |-> v, branch |-> b, tier |-> t, result |-> found.tests[b][t]] \in ran'
    <3>1. CASE t \in DOMAIN start[b]
      <4>1. found.tests[b][t] = start[b][t]
        BY <1>10, <2>1, <3>1 DEF Extends
      <4> QED
        BY <1>5, <1>7, <1>16, <2>1, <3>1, <4>1 DEF Found
    <3>2. CASE t \notin DOMAIN start[b]
      BY <1>16, <2>1, <3>2
    <3> QED
      BY <3>1, <3>2
  <2> QED
    BY <1>5, <1>12, <2>1 DEF Found
<1>19. Sound(report)'
  BY <1>5, <1>10, <1>12, <1>18 DEF Sound
<1>20. to.alone = TRUE => report.version = version /\ Extends(World, Prior(version), report.tests)
  BY <1>3, <1>4, <1>5, <1>6, <1>10, <1>12, <1>14 DEF Probing, World
<1>21. Explores(to)'
  <2>1. Prior(version)' = Prior(version) /\ World' = World
    BY DEF Prior, World
  <2>2. to.alone \in BOOLEAN
    BY <1>3, <1>14 DEF Probing
  <2>3. Reporting(to)'
    BY <1>14, <1>19, <1>20, <2>1, <2>2 DEF Reporting
  <2> QED
    BY <2>3 DEF Explores
<1> QED
  BY <1>15, <1>17, <1>21, OneExplorerMoves

(* Who records has overtaken all the others, and if nobody has overtaken   *)
(* him his report has all that was known.                                  *)
LEMMA RecordsMoves ==
  ASSUME EngineInv, NEW e \in Explorers, ExploreRecords(e)
  PROVE  EngineInv'
<1> UNCHANGED <<worlds, version, ran>>
  BY DEF ExploreRecords
<1>1. EngineRows /\ Lasts /\ ExplorersKnow /\ GoesOn
  BY StaysAsItIs DEF EngineInv
<1>2. PICK x : x = explorer[e] /\ Explores(x) /\ x.at = "record"
  BY <1>1 DEF ExploreRecords, ExplorersKnow
<1>3. Reporting(x)
  <2>1. Probing(x) => x.at = "probe"
    BY DEF Probing
  <2>2. x # Resting
    BY <1>2 DEF Resting
  <2> QED
    BY <1>2, <2>1, <2>2 DEF Explores
<1>4. PICK report : report = x.report
  OBVIOUS
<1>5. /\ Sound(report) /\ x.alone \in BOOLEAN
      /\ x.alone = TRUE => report.version = version /\ Extends(World, Prior(version), report.tests)
  BY <1>3, <1>4 DEF Reporting
<1>6. decisions' = Recorded(report) /\ overtaken' = (overtaken \/ ~x.alone)
      /\ explorer' = Overtakes(e)
  BY <1>2, <1>4 DEF ExploreRecords
<1>7. overtaken \in BOOLEAN
  BY <1>1 DEF EngineRows
<1>8. overtaken' \in BOOLEAN /\ (overtaken' = FALSE => overtaken = FALSE /\ x.alone = TRUE)
  BY <1>5, <1>6, <1>7
<1>9. EngineRows'
  <2>1. ReportsSound'
    BY <1>1, <1>5, <1>6, RecordedIs
  <2> QED
    BY <1>1, <1>8, <2>1 DEF EngineRows
<1>10. Lasts'
  <2>1. CASE overtaken' = FALSE
    BY <1>1, <1>5, <1>6, <1>8, <2>1, LastsOn
  <2>2. CASE overtaken' # FALSE
    BY <2>2 DEF Lasts
  <2> QED
    BY <2>1, <2>2
<1>11. ASSUME NEW o \in Explorers
       PROVE  Explores(explorer[o])'
  <2>1. PICK z : z = explorer[o] /\ Explores(z)
    BY <1>1 DEF ExplorersKnow
  <2>2. PICK y : y = explorer'[o]
    OBVIOUS
  <2>3. \/ y = Resting
        \/ z # Resting /\ y = [z EXCEPT !.alone = FALSE]
    BY <1>6, <2>1, <2>2 DEF Overtakes
  <2>4. Explores(y)'
    <3>1. Explores(Resting)'
      BY DEF Explores, Resting
    <3> QED
      BY <1>1, <2>1, <2>3, <3>1, StillExplores
  <2> QED
    BY <2>2, <2>4
<1>12. ExplorersKnow'
  BY <1>6, <1>11 DEF ExplorersKnow, Overtakes
<1> QED
  BY <1>9, <1>10, <1>12 DEF EngineInv

LEMMA EngineMoves ==
  ASSUME EngineInv, [EngineNext]_engineVars
  PROVE  EngineInv'
<1>1. CASE UNCHANGED engineVars
  BY <1>1 DEF engineVars, EngineInv, EngineRows, ReportsSound, Lasts, ExplorersKnow, Explores, Probing,
              Reporting, Sound, Found, Prior, World, Resting
<1>2. CASE EngineNext
  BY <1>2, WorldMoves, DecidesMoves, ReadsMoves, ProbesMoves, RecordsMoves, EndsMoves DEF EngineNext
<1> QED
  BY <1>1, <1>2

LEMMA EngineStarts ==
  ASSUME EngineInit
  PROVE  EngineInv
<1>1. worlds \in Seq(Worlds) /\ worlds # <<>>
  BY EngineAssumption DEF EngineInit
<1>2. version \in DOMAIN worlds
  BY <1>1 DEF EngineInit
<1>3. decisions \in Seq({}) /\ DOMAIN decisions = {}
  <2>1. <<>> \in Seq({}) /\ DOMAIN <<>> = {}
    OBVIOUS
  <2> QED
    BY <2>1 DEF EngineInit
<1>4. EngineRows /\ Lasts
  BY <1>2, <1>3 DEF EngineInit, EngineRows, ReportsSound, Lasts
<1>5. ExplorersKnow
  BY DEF EngineInit, ExplorersKnow, Explores
<1> QED
  BY <1>4, <1>5 DEF EngineInv

LEMMA EngineConcludes ==
  ASSUME EngineInv
  PROVE  EngineHolds
<1>1. EngineRows /\ Lasts
  BY DEF EngineInv
<1>2. ASSUME NEW i \in DOMAIN decisions
      PROVE  /\ Sound(decisions[i]) /\ worlds[decisions[i].version] \in Worlds
             /\ DOMAIN decisions[i].tests = Ids(worlds[decisions[i].version])
  BY <1>1, WorldsAre DEF EngineRows, ReportsSound, Sound, Tested
<1>3. EngineTypeOK
  BY <1>1, <1>2 DEF EngineTypeOK, EngineRows, Sound, Tested
<1>4. EvidenceSound
  BY <1>2 DEF EvidenceSound, Sound, Tested, Found
<1>5. SelectionSound
  <2>1. ASSUME NEW i \in DOMAIN decisions
        PROVE  Tested(worlds[decisions[i].version], decisions[i].tests)
    BY <1>2 DEF Sound
  <2> QED
    BY <1>2, <2>1, SelectedSound DEF SelectionSound
<1>6. EvidenceLasts
  BY <1>1 DEF EvidenceLasts, Lasts, Extends, EngineRows
<1> QED
  BY <1>3, <1>4, <1>5, <1>6, OracleIsRight DEF EngineHolds

(* The decision engine and its evidence (FutureBranches), for any number   *)
(* of exploring threads, branches and states of the job: a report selects  *)
(* at most one branch and only one that passed its tier and can be undone, *)
(* its evidence is of probes that were run in that very state, tier by     *)
(* tier and within the units, what is known is lost only to a thread that  *)
(* was overtaken, and for every single candidate of valid estimates the    *)
(* engine selects what the independent oracle expects.                     *)
THEOREM EngineSafe == EngineSpec => []EngineHolds
<1>1. EngineInit => EngineInv
  BY EngineStarts
<1>2. EngineInv /\ [EngineNext]_engineVars => EngineInv'
  BY EngineMoves
<1>3. EngineInv => EngineHolds
  BY EngineConcludes
<1> QED
  BY <1>1, <1>2, <1>3, PTL DEF EngineSpec

-----------------------------------------------------------------------------
(* The three together (MCRecords)                                          *)

(* A behaviour of the composition is one of each of the three.             *)
LEMMA RecordsProject == RecordsSpec => FleetSpec /\ ComputersSpec /\ EngineSpec
<1>1. RecordsInit => FleetInit /\ ComputersInit /\ EngineInit
  BY DEF RecordsInit
<1>2. [RecordsNext]_recordsVars =>
         [FleetNext]_fleetVars /\ [ComputersNext]_computersVars /\ [EngineNext]_engineVars
  BY DEF RecordsNext, OnlyPart, recordsVars
<1> QED
  BY <1>1, <1>2, PTL DEF RecordsSpec, FleetSpec, ComputersSpec, EngineSpec

(* What the three promise holds in their composition.                      *)
THEOREM RecordsSafe == RecordsSpec => [](FleetHolds /\ ComputersHold /\ EngineHolds)
BY RecordsProject, FleetSafe, ComputersSafe, EngineSafe, PTL
=============================================================================
