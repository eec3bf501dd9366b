------------------------- MODULE FarmerHelpersProofs -------------------------
(***************************************************************************)
(* Theorems about what works beside the Farmer's supervisors, for all      *)
(* values of the constants: the failure explorer, the resource governor,   *)
(* the workflow executor, and the three together.                          *)
(***************************************************************************)
EXTENDS MCFarmerHelpers, FiniteSetTheorems, WellFoundedInduction, TLAPS

-----------------------------------------------------------------------------
(* The failure explorer                                                    *)

USE ExplorerAssumption

\* HolderCurrent without its condition on hung workers, which the frontier does
\* not know of.
HolderInv ==
    \A s \in Supervisors : pc[s] = "work" /\ lease.owner = s =>
        \A c \in Shapes : local[s][c] # NULL => local[s][c] = cursor[c]

\* A batch visits only shapes it has read, and only while it works.
VisitsRead ==
    \A s \in Supervisors :
        /\ \A c \in todo[s] : local[s][c] # NULL
        /\ item[s] # NULL => pc[s] = "work" /\ local[s][item[s]] # NULL

ExplorerInv == TypeOK /\ HolderInv /\ VisitsRead

\* The rows a worker commits are numbers within the shape's cases.
LEMMA CommitRange ==
    ASSUME TypeOK, VisitsRead, NEW s \in Supervisors, NEW c \in Shapes,
           Commit(s, c)
    PROVE  /\ local[s][c] \in 0..(Total - 1)
           /\ local[s][c] + 1 \in 0..Total
<1>1. local[s][c] # NULL /\ local[s][c] < Total
  BY DEF VisitsRead, Commit
<1>2. local[s][c] \in Row
  BY DEF TypeOK
<1> QED
  BY <1>1, <1>2 DEF Row

\* The seal of a worker's copy leaves well-typed rows.
LEMMA StoreType ==
    ASSUME TypeOK, NEW c \in Shapes, NEW value \in Row, Store(c, value)
    PROVE  /\ cursor' \in [Shapes -> Row]
           /\ corrupt' \subseteq Shapes
           /\ blocked' \in [Supervisors -> {"none", "same", "changed"}]
           /\ renewed' \in [Supervisors -> BOOLEAN]
<1>1. cursor' \in [Shapes -> Row] /\ corrupt' \subseteq Shapes
  BY DEF TypeOK, Store
<1>2. blocked' \in [Supervisors -> {"none", "same", "changed"}]
  BY DEF TypeOK, Store, Touch
<1>3. renewed' \in [Supervisors -> BOOLEAN]
  <2>1. CASE Renew
    BY <2>1 DEF Renew
  <2>2. CASE UNCHANGED renewed
    BY <2>2 DEF TypeOK
  <2> QED
    BY <2>1, <2>2 DEF Store
<1> QED
  BY <1>1, <1>2, <1>3

\* Types of what an ending worker leaves.
LEMMA EndsType ==
    ASSUME TypeOK, NEW s \in Supervisors, NEW how \in {"idle", "dead", "rejected"},
           WorkerEnds(s, how)
    PROVE  /\ pc' \in [Supervisors -> Running \cup {"none", "dead", "rejected"}]
           /\ local' \in [Supervisors -> [Shapes -> Row]]
           /\ todo' \in [Supervisors -> SUBSET Shapes]
           /\ item' \in [Supervisors -> Shapes \cup {NULL}]
           /\ hung' \subseteq Supervisors
           /\ old' \subseteq Supervisors
  BY DEF TypeOK, WorkerEnds, BatchOver, Goto, Running, NoRows, Row

\* The initial state satisfies the inductive invariant.
LEMMA ExplorerInit == Init => ExplorerInv
<1> SUFFICES ASSUME Init PROVE ExplorerInv
  OBVIOUS
<1>1. TypeOK
  <2>1. NoRows \in [Shapes -> Row]
    BY DEF NoRows, Row
  <2>2. cursor \in [Shapes -> Row] /\ local \in [Supervisors -> [Shapes -> Row]]
    BY <2>1 DEF Init
  <2>3. /\ lease \in [owner : Supervisors \cup {GONE}, live : BOOLEAN]
        /\ fresh \in BOOLEAN
        /\ renewed \in [Supervisors -> BOOLEAN]
    BY DEF Init
  <2>4. faults \in 0..MaxFaults /\ slow \in 0..MaxSlow
    BY DEF Init
  <2>5. /\ corrupt \subseteq Shapes /\ up \subseteq Supervisors
        /\ hung \subseteq Supervisors /\ old \subseteq Supervisors
        /\ pc \in [Supervisors -> Running \cup {"none", "dead", "rejected"}]
        /\ todo \in [Supervisors -> SUBSET Shapes]
        /\ item \in [Supervisors -> Shapes \cup {NULL}]
        /\ blocked \in [Supervisors -> {"none", "same", "changed"}]
    BY DEF Init
  <2> QED
    BY <2>2, <2>3, <2>4, <2>5 DEF TypeOK
<1>2. HolderInv
  BY DEF Init, HolderInv
<1>3. VisitsRead
  BY DEF Init, VisitsRead
<1> QED
  BY <1>1, <1>2, <1>3 DEF ExplorerInv

\* Every step preserves the types.
LEMMA TypeStep ==
    ASSUME TypeOK, VisitsRead, [Next]_vars
    PROVE  TypeOK'
<1> USE DEF frontierVars, workerVars, clockVars
<1>1. CASE UNCHANGED vars
  BY <1>1 DEF TypeOK, vars
<1>2. ASSUME NEW s \in Supervisors, TakeLease(s) PROVE TypeOK'
  BY <1>2 DEF TypeOK, TakeLease, Goto, Touch, Running
<1>3. ASSUME NEW s \in Supervisors, NEW seen \in SUBSET Shapes, Capture(s, seen)
      PROVE  TypeOK'
  <2>1. cursor' \in [Shapes -> Row] /\ pc' \in [Supervisors -> Running \cup {"none", "dead", "rejected"}]
    BY <1>3 DEF TypeOK, Capture, Goto, Running, Row
  <2>2. /\ blocked' \in [Supervisors -> {"none", "same", "changed"}]
        /\ renewed' \in [Supervisors -> BOOLEAN]
    <3>1. CASE Touch /\ Renew
      BY <3>1 DEF TypeOK, Touch, Renew
    <3>2. CASE UNCHANGED <<blocked, renewed>>
      BY <3>2 DEF TypeOK
    <3> QED
      BY <1>3, <3>1, <3>2 DEF Capture
  <2> QED
    BY <1>3, <2>1, <2>2 DEF TypeOK, Capture
<1>4. ASSUME NEW s \in Supervisors, ReadFrontier(s) PROVE TypeOK'
  BY <1>4 DEF TypeOK, ReadFrontier, Goto, Running
<1>5. ASSUME NEW s \in Supervisors, Reject(s) PROVE TypeOK'
  <2>1. WorkerEnds(s, "rejected") /\ renewed' \in [Supervisors -> BOOLEAN]
    BY <1>5 DEF TypeOK, Reject
  <2> QED
    BY <1>5, <2>1, EndsType DEF TypeOK, Reject
<1>6. ASSUME NEW s \in Supervisors, NEW c \in Shapes, Commit(s, c) PROVE TypeOK'
  <2>1. local[s][c] + 1 \in Row /\ Store(c, local[s][c] + 1)
    BY <1>6, CommitRange DEF Commit, Row
  <2>2. /\ cursor' \in [Shapes -> Row]
        /\ corrupt' \subseteq Shapes
        /\ blocked' \in [Supervisors -> {"none", "same", "changed"}]
        /\ renewed' \in [Supervisors -> BOOLEAN]
    BY <2>1, StoreType
  <2>3. local' \in [Supervisors -> [Shapes -> Row]]
    BY <1>6, <2>1 DEF TypeOK, Commit
  <2> QED
    BY <1>6, <2>2, <2>3 DEF TypeOK, Commit
<1>7. ASSUME NEW s \in Supervisors, EndSlice(s) PROVE TypeOK'
  <2>1. /\ item[s] \in Shapes /\ local[s][item[s]] \in Row
        /\ Store(item[s], local[s][item[s]])
    BY <1>7 DEF TypeOK, EndSlice
  <2>2. /\ cursor' \in [Shapes -> Row]
        /\ corrupt' \subseteq Shapes
        /\ blocked' \in [Supervisors -> {"none", "same", "changed"}]
        /\ renewed' \in [Supervisors -> BOOLEAN]
    BY <2>1, StoreType
  <2>3. pc' \in [Supervisors -> Running \cup {"none", "dead", "rejected"}]
    BY <1>7 DEF TypeOK, EndSlice, Goto, Running
  <2> QED
    BY <1>7, <2>2, <2>3 DEF TypeOK, EndSlice
<1>8. ASSUME NEW s \in Supervisors, Standby(s) PROVE TypeOK'
  BY <1>8 DEF TypeOK, Standby, Goto, BatchOver, NoRows, Row, Running
<1>9. ASSUME NEW s \in Supervisors, Publish(s) PROVE TypeOK'
  BY <1>9 DEF TypeOK, Publish, Goto, BatchOver, Touch, NoRows, Row, Running
<1>10. ASSUME NEW s \in Supervisors, OrphanExit(s) PROVE TypeOK'
  BY <1>10, EndsType DEF TypeOK, OrphanExit
<1>11. ASSUME NEW s \in Supervisors, Hold(s) PROVE TypeOK'
  BY <1>11 DEF TypeOK, Hold
<1>12. ASSUME NEW s \in Supervisors, Replace(s) PROVE TypeOK'
  <2>1. /\ WorkerEnds(s, "idle")
        /\ renewed' \in [Supervisors -> BOOLEAN]
        /\ blocked' \in [Supervisors -> {"none", "same", "changed"}]
        /\ lease' \in [owner : Supervisors \cup {GONE}, live : BOOLEAN]
    BY <1>12 DEF TypeOK, Replace
  <2> QED
    BY <1>12, <2>1, EndsType DEF TypeOK, Replace
<1>15. CASE LeaseExpires
  <2>1. slow' \in 0..MaxSlow
    BY <1>15 DEF TypeOK, LeaseExpires, TimeRuns
  <2> QED
    BY <1>15, <2>1 DEF TypeOK, LeaseExpires
<1>16. CASE StatusAges
  <2>1. slow' \in 0..MaxSlow
    BY <1>16 DEF TypeOK, StatusAges, TimeRuns
  <2> QED
    BY <1>16, <2>1 DEF TypeOK, StatusAges
<1>17. ASSUME NEW s \in Supervisors, WorkerAges(s) PROVE TypeOK'
  <2>1. slow' \in 0..MaxSlow
    BY <1>17 DEF TypeOK, WorkerAges, TimeRuns
  <2> QED
    BY <1>17, <2>1 DEF TypeOK, WorkerAges
<1>18. ASSUME NEW s \in Supervisors, WorkerDies(s) PROVE TypeOK'
  BY <1>18, EndsType DEF TypeOK, WorkerDies, Fault
<1>19. ASSUME NEW s \in Supervisors, WorkerHangs(s) PROVE TypeOK'
  BY <1>19 DEF TypeOK, WorkerHangs, Fault
<1>20. ASSUME NEW s \in Supervisors, SupervisorDies(s) PROVE TypeOK'
  BY <1>20 DEF TypeOK, SupervisorDies, Fault
<1>21. ASSUME NEW c \in Shapes, Damage(c) PROVE TypeOK'
  BY <1>21 DEF TypeOK, Damage, Touch, Renew, Fault
<1>22. CASE Restore
  BY <1>22 DEF TypeOK, Restore, Touch, Renew
<1> QED
  BY <1>1, <1>2, <1>3, <1>4, <1>5, <1>6, <1>7, <1>8, <1>9, <1>10, <1>11,
     <1>12, <1>15, <1>16, <1>17, <1>18, <1>19, <1>20, <1>21, <1>22
  DEF Next, Worker

\* Steps that leave the frontier and every batch alone, and give the lease to
\* no worker in mid-batch.
QuietStep ==
    /\ UNCHANGED <<cursor, local, todo, item>>
    /\ \A s \in Supervisors :
          /\ pc'[s] = "work" <=> pc[s] = "work"
          /\ pc[s] = "work" /\ lease'.owner = s => lease.owner = s

\* A batch of s is over, and nothing else happened to rows and batches.
OverStep(s) ==
    /\ cursor' = cursor /\ BatchOver(s)
    /\ pc'[s] # "work"
    /\ \A r \in Supervisors \ {s} :
          /\ pc'[r] = pc[r]
          /\ lease'.owner = r => lease.owner = r

\* What each action means for cursors and batches.
LEMMA ExplorerSteps ==
    ASSUME TypeOK, [Next]_vars
    PROVE  \/ QuietStep
           \/ \E s \in Supervisors :
                 \/ OverStep(s)
                 \/ \E seen \in SUBSET Shapes : Capture(s, seen)
                 \/ ReadFrontier(s)
                 \/ \E c \in Shapes : Commit(s, c)
                 \/ EndSlice(s)
<1> USE DEF frontierVars, workerVars, clockVars
<1>1. CASE UNCHANGED vars
  BY <1>1 DEF vars, QuietStep
<1>2. ASSUME NEW s \in Supervisors, TakeLease(s) PROVE QuietStep
  BY <1>2 DEF TakeLease, Goto, QuietStep, TypeOK
<1>3. ASSUME NEW s \in Supervisors, Reject(s) PROVE OverStep(s)
  BY <1>3 DEF Reject, WorkerEnds, Goto, OverStep, TypeOK
<1>4. ASSUME NEW s \in Supervisors, Standby(s) PROVE OverStep(s)
  BY <1>4 DEF Standby, Goto, OverStep, TypeOK
<1>5. ASSUME NEW s \in Supervisors, Publish(s) PROVE OverStep(s)
  BY <1>5 DEF Publish, Goto, OverStep, TypeOK
<1>6. ASSUME NEW s \in Supervisors, OrphanExit(s) PROVE OverStep(s)
  BY <1>6 DEF OrphanExit, WorkerEnds, Goto, OverStep, TypeOK
<1>7. ASSUME NEW s \in Supervisors, Hold(s) PROVE QuietStep
  BY <1>7 DEF Hold, QuietStep
<1>8. ASSUME NEW s \in Supervisors, Replace(s) PROVE OverStep(s)
  BY <1>8 DEF Replace, WorkerEnds, Goto, OverStep, TypeOK
<1>9. ASSUME NEW s \in Supervisors, WorkerAges(s) PROVE QuietStep
  BY <1>9 DEF WorkerAges, QuietStep
<1>10. ASSUME NEW s \in Supervisors, WorkerDies(s) PROVE OverStep(s)
  BY <1>10 DEF WorkerDies, WorkerEnds, Goto, OverStep, TypeOK
<1>11. ASSUME NEW s \in Supervisors, WorkerHangs(s) PROVE QuietStep
  BY <1>11 DEF WorkerHangs, QuietStep
<1>12. ASSUME NEW s \in Supervisors, SupervisorDies(s) PROVE QuietStep
  BY <1>12 DEF SupervisorDies, QuietStep
<1>13. ASSUME NEW c \in Shapes, Damage(c) PROVE QuietStep
  BY <1>13 DEF Damage, QuietStep
<1>14. CASE Restore
  BY <1>14 DEF Restore, QuietStep
<1>15. CASE LeaseExpires
  BY <1>15 DEF LeaseExpires, QuietStep, TypeOK
<1>16. CASE StatusAges
  BY <1>16 DEF StatusAges, QuietStep
<1> QED
  BY <1>1, <1>2, <1>3, <1>4, <1>5, <1>6, <1>7, <1>8, <1>9, <1>10, <1>11,
     <1>12, <1>13, <1>14, <1>15, <1>16
  DEF Next, Worker

\* Every step keeps the holder's copies current and its visits to read rows.
LEMMA HolderStep ==
    ASSUME ExplorerInv, [Next]_vars
    PROVE  HolderInv' /\ VisitsRead'
<1> USE DEF ExplorerInv, frontierVars, workerVars, clockVars
<1>1. CASE QuietStep
  BY <1>1 DEF QuietStep, HolderInv, VisitsRead
<1>2. ASSUME NEW s \in Supervisors, OverStep(s) PROVE HolderInv' /\ VisitsRead'
  <2>1. \A r \in Supervisors \ {s} :
           local'[r] = local[r] /\ todo'[r] = todo[r] /\ item'[r] = item[r]
    BY <1>2 DEF OverStep, BatchOver, TypeOK
  <2>2. todo'[s] = {} /\ item'[s] = NULL
    BY <1>2 DEF OverStep, BatchOver, TypeOK
  <2>3. HolderInv'
    BY <1>2, <2>1 DEF OverStep, HolderInv
  <2>4. VisitsRead'
    BY <1>2, <2>1, <2>2 DEF OverStep, VisitsRead
  <2> QED
    BY <2>3, <2>4
<1>3. ASSUME NEW s \in Supervisors, NEW seen \in SUBSET Shapes, Capture(s, seen)
      PROVE  HolderInv' /\ VisitsRead'
  <2>1. /\ UNCHANGED <<local, todo, item, lease>>
        /\ \A r \in Supervisors : pc'[r] = "work" <=> pc[r] = "work"
        /\ \A c \in Shapes : cursor[c] # NULL => cursor'[c] = cursor[c]
    BY <1>3 DEF Capture, Goto, TypeOK
  <2> QED
    BY <2>1 DEF HolderInv, VisitsRead
<1>4. ASSUME NEW s \in Supervisors, ReadFrontier(s) PROVE HolderInv' /\ VisitsRead'
  <2>1. /\ UNCHANGED <<cursor, item, lease>>
        /\ local'[s] = cursor
        /\ \A c \in todo'[s] : c \in Shapes /\ cursor[c] \in 0..(Total - 1)
        /\ \A r \in Supervisors \ {s} :
              local'[r] = local[r] /\ todo'[r] = todo[r] /\ pc'[r] = pc[r]
    BY <1>4 DEF ReadFrontier, Goto, TypeOK
  <2>2. HolderInv'
    BY <2>1 DEF HolderInv
  <2>3. item[s] = NULL
    BY <1>4 DEF ReadFrontier, VisitsRead
  <2>4. VisitsRead'
    BY <2>1, <2>3 DEF VisitsRead
  <2> QED
    BY <2>2, <2>4
<1>5. ASSUME NEW s \in Supervisors, NEW c \in Shapes, Commit(s, c)
      PROVE  HolderInv' /\ VisitsRead'
  <2>1. /\ UNCHANGED <<lease, pc>> /\ lease.owner = s /\ pc[s] = "work"
        /\ cursor' = [cursor EXCEPT ![c] = local[s][c] + 1]
        /\ local'[s] = [local[s] EXCEPT ![c] = local[s][c] + 1]
        /\ item'[s] = c /\ todo'[s] = todo[s] \ {c}
        /\ \A r \in Supervisors \ {s} :
              local'[r] = local[r] /\ todo'[r] = todo[r] /\ item'[r] = item[r]
    BY <1>5 DEF Commit, Store, TypeOK
  <2>2. local[s][c] + 1 # NULL
    BY <1>5, CommitRange
  <2>3. HolderInv'
    BY <2>1 DEF HolderInv, TypeOK
  <2>4. VisitsRead'
    BY <2>1, <2>2 DEF VisitsRead, TypeOK
  <2> QED
    BY <2>3, <2>4
<1>6. ASSUME NEW s \in Supervisors, EndSlice(s) PROVE HolderInv' /\ VisitsRead'
  <2>1. /\ UNCHANGED <<lease, local, todo>> /\ lease.owner = s
        /\ item[s] \in Shapes /\ pc[s] = "work"
        /\ cursor' = [cursor EXCEPT ![item[s]] = local[s][item[s]]]
        /\ item' = [item EXCEPT ![s] = NULL]
        /\ \A r \in Supervisors \ {s} : pc'[r] = pc[r]
    BY <1>6 DEF EndSlice, Store, Goto, TypeOK
  <2>2. HolderInv'
    BY <2>1 DEF HolderInv, TypeOK
  <2>3. VisitsRead'
    BY <2>1 DEF VisitsRead, TypeOK
  <2> QED
    BY <2>2, <2>3
<1> QED
  BY <1>1, <1>2, <1>3, <1>4, <1>5, <1>6, ExplorerSteps

\* The inductive invariant holds in every state of the explorer.
LEMMA ExplorerInvariant == Spec => []ExplorerInv
<1>1. ExplorerInv /\ [Next]_vars => ExplorerInv'
  BY TypeStep, HolderStep DEF ExplorerInv
<1> QED
  BY <1>1, ExplorerInit, PTL DEF Spec

\* Type correctness of frontier, lease, workers and watchdogs: in particular no
\* cursor passes the number of cases of its shape.
THEOREM ExplorerTypeCorrect == Spec => []TypeOK
<1>1. ExplorerInv => TypeOK
  BY DEF ExplorerInv
<1> QED
  BY <1>1, ExplorerInvariant, PTL

\* The lease excludes competing workers: its holder works on the rows as they
\* are stored, however often it ran out, was taken over and taken back.
THEOREM ExplorerHolderCurrent == Spec => []HolderCurrent
<1>1. ExplorerInv => HolderCurrent
  BY DEF ExplorerInv, HolderInv, HolderCurrent
<1> QED
  BY <1>1, ExplorerInvariant, PTL

\* No batch, capture, takeover, restart or fault moves a cursor back.
THEOREM ExplorerCursorForward == Spec => CursorForward
<1> DEFINE Forward == \A c \in Shapes :
                        cursor[c] # NULL => cursor'[c] # NULL /\ cursor'[c] >= cursor[c]
<1>1. ASSUME ExplorerInv, [Next]_vars PROVE Forward
  <2> USE <1>1 DEF ExplorerInv
  <2>1. \A c \in Shapes : cursor[c] # NULL => cursor[c] \in 0..Total
    BY DEF TypeOK, Row
  <2>2. CASE cursor' = cursor
    BY <2>1, <2>2
  <2>3. ASSUME NEW s \in Supervisors, NEW seen \in SUBSET Shapes, Capture(s, seen)
        PROVE  Forward
    BY <2>1, <2>3 DEF Capture, TypeOK
  <2>4. ASSUME NEW s \in Supervisors, NEW c \in Shapes, Commit(s, c) PROVE Forward
    <3>0. local[s][c] \in 0..(Total - 1)
      BY <2>4, CommitRange
    <3>1. local[s][c] = cursor[c]
      BY <2>4, <3>0 DEF Commit, HolderInv
    <3>2. cursor' = [cursor EXCEPT ![c] = local[s][c] + 1]
      BY <2>4 DEF Commit, Store
    <3> QED
      BY <2>1, <3>0, <3>1, <3>2 DEF TypeOK
  <2>5. ASSUME NEW s \in Supervisors, EndSlice(s) PROVE cursor' = cursor
    <3>1. item[s] \in Shapes /\ local[s][item[s]] = cursor[item[s]]
      BY <2>5 DEF EndSlice, HolderInv, VisitsRead, TypeOK
    <3> QED
      BY <2>5, <3>1 DEF EndSlice, Store, TypeOK
  <2> QED
    BY <2>2, <2>3, <2>4, <2>5, ExplorerSteps
    DEF QuietStep, OverStep, ReadFrontier, frontierVars
<1>2. ExplorerInv /\ [Next]_vars => [Forward]_vars
  BY <1>1
<1> QED
  BY <1>2, ExplorerInvariant, PTL DEF Spec, CursorForward
HIDE ExplorerAssumption

-----------------------------------------------------------------------------
(* The resource governor                                                   *)


(* RunOf, Reduces and RestoresBudget of a given history.                   *)
RunIn(h, kinds, length, i) ==
  i >= length /\ \A k \in (i - length + 1)..i : h[k] \in kinds
ReducesIn(h, i) ==
  h[i] \in {"unknown", "critical"} \/ RunIn(h, {"critical", "high"}, HighLimit, i)
RestoresIn(h, i) == RunIn(h, {"clear"}, ClearLimit, i)

(* The right-hand sides of FullBudgetEarned and LongestPauseIsCritical.    *)
Earned(h) ==
  \A i \in 1..Len(h) : ReducesIn(h, i) => \E k \in (i + 1)..Len(h) : RestoresIn(h, k)
LastWasCritical(h) ==
  \E i \in 1..Len(h) :
    /\ h[i] = "critical"
    /\ \A k \in (i + 1)..Len(h) : ~ReducesIn(h, k) /\ ~RestoresIn(h, k)

(* A counter of the governor is the length of the run of such samples the  *)
(* history ends with.                                                      *)
Trailing(h, kinds, count) ==
  /\ count \in 0..Len(h)
  /\ \A k \in (Len(h) - count + 1)..Len(h) : h[k] \in kinds
  /\ count < Len(h) => h[Len(h) - count] \notin kinds

Modes == {"normal", "conservative_unknown", "critical_pressure", "sustained_pressure"}

GovernorInv ==
  /\ mode \in Modes
  /\ history \in Seq(Samples) /\ Len(history) <= MaxSamples
  /\ Trailing(history, {"critical", "high"}, highSamples)
  /\ Trailing(history, {"clear"}, clearSamples)
  /\ mode = "normal" <=> Earned(history)
  /\ mode = "critical_pressure" => LastWasCritical(history)

(* One more sample: the earlier ones stay where they are.                  *)
LEMMA OneMore ==
  ASSUME NEW h \in Seq(Samples), NEW s \in Samples
  PROVE  /\ Append(h, s) \in Seq(Samples) /\ Len(Append(h, s)) = Len(h) + 1
         /\ Len(h) \in Nat
         /\ \A k \in 1..Len(h) : Append(h, s)[k] = h[k]
         /\ Append(h, s)[Len(h) + 1] = s
<1> QED OBVIOUS

(* A run that ended before is a run still.                                 *)
LEMMA RunStays ==
  ASSUME NEW h \in Seq(Samples), NEW s \in Samples, NEW kinds,
         NEW length \in Nat \ {0}, NEW i \in 1..Len(h)
  PROVE  RunIn(Append(h, s), kinds, length, i) <=> RunIn(h, kinds, length, i)
<1>1. i >= length => \A k \in (i - length + 1)..i : k \in 1..Len(h)
  BY OneMore
<1> QED
  BY <1>1, OneMore DEF RunIn

LEMMA OldSamplesStay ==
  ASSUME NEW h \in Seq(Samples), NEW s \in Samples, NEW i \in 1..Len(h)
  PROVE  /\ ReducesIn(Append(h, s), i) <=> ReducesIn(h, i)
         /\ RestoresIn(Append(h, s), i) <=> RestoresIn(h, i)
<1>1. Append(h, s)[i] = h[i]
  BY OneMore
<1> QED
  BY <1>1, RunStays, GovernorAssumption DEF ReducesIn, RestoresIn

(* Count keeps the counters what they are.                                 *)
LEMMA TrailingMoves ==
  ASSUME NEW h \in Seq(Samples), NEW s \in Samples, NEW kinds, NEW count,
         Trailing(h, kinds, count)
  PROVE  Trailing(Append(h, s), kinds, IF s \in kinds THEN count + 1 ELSE 0)
<1>1. PICK g : g = Append(h, s)
  OBVIOUS
<1>2. /\ Len(g) = Len(h) + 1 /\ Len(h) \in Nat /\ g[Len(h) + 1] = s
      /\ \A k \in 1..Len(h) : g[k] = h[k]
  BY <1>1, OneMore
<1>3. CASE s \in kinds
  <2>1. count + 1 \in 0..Len(g)
    BY <1>2 DEF Trailing
  <2>2. ASSUME NEW k \in (Len(g) - (count + 1) + 1)..Len(g)
        PROVE  g[k] \in kinds
    <3>1. CASE k = Len(h) + 1
      BY <3>1, <1>2, <1>3
    <3>2. CASE k # Len(h) + 1
      BY <3>2, <1>2 DEF Trailing
    <3> QED
      BY <3>1, <3>2
  <2>3. count + 1 < Len(g) => g[Len(g) - (count + 1)] \notin kinds
    BY <1>2 DEF Trailing
  <2> QED
    BY <1>1, <1>3, <2>1, <2>2, <2>3 DEF Trailing
<1>4. CASE s \notin kinds
  BY <1>1, <1>2, <1>4 DEF Trailing
<1> QED
  BY <1>3, <1>4

(* So a run of a given length has just ended when the counter reaches it.  *)
LEMMA TrailingRun ==
  ASSUME NEW h \in Seq(Samples), NEW kinds, NEW count, Trailing(h, kinds, count),
         NEW length \in Nat \ {0}
  PROVE  RunIn(h, kinds, length, Len(h)) <=> count >= length
<1>1. Len(h) \in Nat /\ count \in 0..Len(h)
  BY DEF Trailing
<1>2. ASSUME count >= length PROVE RunIn(h, kinds, length, Len(h))
  BY <1>1, <1>2 DEF RunIn, Trailing
<1>3. ASSUME count < length PROVE ~RunIn(h, kinds, length, Len(h))
  <2>1. SUFFICES ASSUME RunIn(h, kinds, length, Len(h)) PROVE FALSE
    OBVIOUS
  <2>2. count < Len(h) /\ Len(h) - count \in (Len(h) - length + 1)..Len(h)
    BY <1>1, <1>3, <2>1 DEF RunIn
  <2> QED
    BY <2>1, <2>2 DEF RunIn, Trailing
<1> QED
  BY <1>1, <1>2, <1>3

(* What the last sample makes of the two right-hand sides.                 *)
LEMMA LastSampleDecides ==
  ASSUME NEW h \in Seq(Samples), NEW s \in Samples, NEW g, g = Append(h, s)
  PROVE  /\ ReducesIn(g, Len(g)) => ~Earned(g)
         /\ RestoresIn(g, Len(g)) /\ ~ReducesIn(g, Len(g)) => Earned(g)
         /\ ~RestoresIn(g, Len(g)) /\ ~ReducesIn(g, Len(g)) =>
              (Earned(g) <=> Earned(h)) /\ (LastWasCritical(h) => LastWasCritical(g))
         /\ s = "critical" => LastWasCritical(g)
<1>1. /\ Len(g) = Len(h) + 1 /\ Len(h) \in Nat /\ g[Len(g)] = s
      /\ \A k \in 1..Len(h) : g[k] = h[k]
  BY OneMore
<1>2. \A i \in 1..Len(h) : /\ ReducesIn(g, i) <=> ReducesIn(h, i)
                           /\ RestoresIn(g, i) <=> RestoresIn(h, i)
  BY OldSamplesStay
<1>3. Len(g) \in 1..Len(g) /\ ~ \E k \in (Len(g) + 1)..Len(g) : TRUE
  BY <1>1
<1>4. ReducesIn(g, Len(g)) => ~Earned(g)
  BY <1>3 DEF Earned
<1>5. ASSUME RestoresIn(g, Len(g)), ~ReducesIn(g, Len(g)) PROVE Earned(g)
  <2>1. ASSUME NEW i \in 1..Len(g), ReducesIn(g, i)
        PROVE  Len(g) \in (i + 1)..Len(g)
    BY <1>1, <1>5, <2>1
  <2> QED
    BY <1>5, <2>1 DEF Earned
<1>6. ASSUME ~RestoresIn(g, Len(g)), ~ReducesIn(g, Len(g))
      PROVE  /\ Earned(g) <=> Earned(h)
             /\ LastWasCritical(h) => LastWasCritical(g)
  <2>1. ASSUME Earned(g), NEW i \in 1..Len(h), ReducesIn(h, i)
        PROVE  \E k \in (i + 1)..Len(h) : RestoresIn(h, k)
    <3>1. PICK k \in (i + 1)..Len(g) : RestoresIn(g, k)
      BY <1>1, <1>2, <2>1 DEF Earned
    <3> QED
      BY <1>1, <1>2, <1>6, <3>1
  <2>2. ASSUME Earned(h), NEW i \in 1..Len(g), ReducesIn(g, i)
        PROVE  \E k \in (i + 1)..Len(g) : RestoresIn(g, k)
    <3>1. i \in 1..Len(h)
      BY <1>1, <1>6, <2>2
    <3>2. PICK k \in (i + 1)..Len(h) : RestoresIn(h, k)
      BY <1>2, <2>2, <3>1 DEF Earned
    <3> QED
      BY <1>1, <1>2, <3>1, <3>2
  <2>3. ASSUME LastWasCritical(h) PROVE LastWasCritical(g)
    <3>1. PICK i \in 1..Len(h) :
            /\ h[i] = "critical"
            /\ \A k \in (i + 1)..Len(h) : ~ReducesIn(h, k) /\ ~RestoresIn(h, k)
      BY <2>3 DEF LastWasCritical
    <3>2. ASSUME NEW k \in (i + 1)..Len(g) PROVE ~ReducesIn(g, k) /\ ~RestoresIn(g, k)
      <4>1. CASE k = Len(g)
        BY <1>6, <4>1
      <4>2. CASE k # Len(g)
        BY <1>1, <1>2, <3>1, <4>2
      <4> QED
        BY <4>1, <4>2
    <3>3. i \in 1..Len(g) /\ g[i] = "critical"
      BY <1>1, <3>1
    <3> QED
      BY <3>2, <3>3 DEF LastWasCritical
  <2> QED
    BY <2>1, <2>2, <2>3 DEF Earned
<1>7. s = "critical" => LastWasCritical(g)
  BY <1>1, <1>3 DEF LastWasCritical
<1> QED
  BY <1>4, <1>5, <1>6, <1>7

LEMMA GovernorStarts == GovernorInit => GovernorInv
<1>1. SUFFICES ASSUME GovernorInit PROVE GovernorInv
  OBVIOUS
<1>2. history = <<>> /\ Len(history) = 0 /\ history \in Seq(Samples)
  BY <1>1 DEF GovernorInit
<1>3. Earned(history) /\ \A kinds : Trailing(history, kinds, 0)
  BY <1>2 DEF Earned, Trailing
<1> QED
  BY <1>1, <1>2, <1>3, GovernorAssumption DEF GovernorInv, GovernorInit, Modes

LEMMA ChooseSafe ==
  ASSUME GovernorInv, NEW s \in Samples, Choose(s)
  PROVE  GovernorInv'
<1>1. PICK h, g, high, clear, to :
        /\ h = history /\ g = history'
        /\ high = highSamples' /\ clear = clearSamples' /\ to = mode'
  OBVIOUS
<1>2. /\ h \in Seq(Samples) /\ g = Append(h, s) /\ g \in Seq(Samples)
      /\ Len(g) <= MaxSamples /\ Len(g) \in Nat /\ Len(g) = Len(h) + 1 /\ g[Len(g)] = s
  BY <1>1, OneMore, GovernorAssumption DEF GovernorInv, Choose
<1>3. Trailing(g, {"critical", "high"}, high) /\ Trailing(g, {"clear"}, clear)
  <2>1. /\ high = IF s \in {"critical", "high"} THEN highSamples + 1 ELSE 0
        /\ clear = IF s \in {"clear"} THEN clearSamples + 1 ELSE 0
    BY <1>1 DEF Choose, Count, IsHigh
  <2> QED
    BY <1>1, <1>2, <2>1, TrailingMoves DEF GovernorInv
<1>4. /\ ReducesIn(g, Len(g)) <=> s \in {"unknown", "critical"} \/ high >= HighLimit
      /\ RestoresIn(g, Len(g)) <=> clear >= ClearLimit
  BY <1>2, <1>3, TrailingRun, GovernorAssumption DEF ReducesIn, RestoresIn
<1>5. /\ s \notin {"critical", "high"} => high = 0
      /\ s # "clear" => clear = 0
  BY <1>1 DEF Choose, Count, IsHigh
<1>6. ~(0 >= HighLimit) /\ ~(0 >= ClearLimit)
  BY GovernorAssumption
<1>7. to = CASE s = "unknown"                        -> "conservative_unknown"
             [] s = "critical"                       -> "critical_pressure"
             [] s = "high" /\ high >= HighLimit      -> "sustained_pressure"
             [] s = "clear" /\ clear >= ClearLimit   -> "normal"
             [] OTHER                                -> mode
  BY <1>1 DEF Choose
<1>8. /\ mode = "normal" <=> Earned(h)
      /\ mode = "critical_pressure" => LastWasCritical(h)
      /\ mode \in Modes
  BY <1>1 DEF GovernorInv
<1>9. /\ to \in Modes
      /\ to = "normal" <=> Earned(g)
      /\ to = "critical_pressure" => LastWasCritical(g)
  <2>1. CASE ReducesIn(g, Len(g))
    <3>1. ~Earned(g) /\ (s = "critical" => LastWasCritical(g))
      BY <1>2, <2>1, LastSampleDecides
    <3>2. \/ s = "unknown" /\ to = "conservative_unknown"
          \/ s = "critical" /\ to = "critical_pressure"
          \/ s = "high" /\ to = "sustained_pressure"
      BY <1>4, <1>5, <1>6, <1>7, <2>1
    <3> QED
      BY <3>1, <3>2 DEF Modes
  <2>2. CASE ~ReducesIn(g, Len(g)) /\ RestoresIn(g, Len(g))
    <3>1. Earned(g)
      BY <1>2, <2>2, LastSampleDecides
    <3>2. s = "clear" /\ clear >= ClearLimit
      BY <1>4, <1>5, <1>6, <2>2
    <3>3. to = "normal"
      BY <1>7, <3>2
    <3> QED
      BY <3>1, <3>3 DEF Modes
  <2>3. CASE ~ReducesIn(g, Len(g)) /\ ~RestoresIn(g, Len(g))
    <3>1. (Earned(g) <=> Earned(h)) /\ (LastWasCritical(h) => LastWasCritical(g))
      BY <1>2, <2>3, LastSampleDecides
    <3>2. to = mode
      BY <1>4, <1>7, <2>3
    <3> QED
      BY <1>8, <3>1, <3>2
  <2> QED
    BY <2>1, <2>2, <2>3
<1> QED
  BY <1>1, <1>2, <1>3, <1>9 DEF GovernorInv

LEMMA GovernorConcludes == GovernorInv => GovernorHolds
<1>1. SUFFICES ASSUME GovernorInv PROVE GovernorHolds
  OBVIOUS
<1>2. Len(history) \in Nat /\ highSamples \in 0..MaxSamples /\ clearSamples \in 0..MaxSamples
  BY <1>1, GovernorAssumption DEF GovernorInv, Trailing
<1>3. (Cases(mode) = 16 <=> mode = "normal") /\ (Pause(mode) = 5 <=> mode = "critical_pressure")
  BY <1>1 DEF GovernorInv, Cases, Pause, Modes
<1>4. \A i \in 1..Len(history) :
        /\ Reduces(i) <=> ReducesIn(history, i)
        /\ RestoresBudget(i) <=> RestoresIn(history, i)
  BY DEF Reduces, RestoresBudget, ReducesIn, RestoresIn, RunOf, RunIn
<1>5. FullBudgetEarned
  <2>1. (\A i \in 1..Len(history) :
           Reduces(i) => \E k \in (i + 1)..Len(history) : RestoresBudget(k))
        <=> Earned(history)
    BY <1>2, <1>4 DEF Earned
  <2> QED
    BY <1>1, <1>3, <2>1 DEF FullBudgetEarned, GovernorInv
<1>6. LongestPauseIsCritical
  BY <1>1, <1>2, <1>3, <1>4 DEF LongestPauseIsCritical, LastWasCritical, GovernorInv
<1> QED
  BY <1>2, <1>5, <1>6 DEF GovernorHolds

LEMMA GovernorStep == GovernorInv /\ [GovernorNext]_governorVars => GovernorInv'
<1>1. ASSUME GovernorInv, UNCHANGED governorVars PROVE GovernorInv'
  BY <1>1 DEF GovernorInv, governorVars
<1> QED
  BY <1>1, ChooseSafe DEF GovernorNext

(* The governor's mode says what its samples earned it: the full budget is *)
(* in force exactly when nothing has reduced it since the start or since   *)
(* the last full run of clear samples, and the longest pause answers a     *)
(* critical sample (ResourceGovernor.choose), for any limits.              *)
THEOREM GovernorSafe == GovernorSpec => []GovernorHolds
<1> QED
  BY GovernorStep, GovernorStarts, GovernorConcludes, PTL DEF GovernorSpec

-----------------------------------------------------------------------------
(* The workflow executor                                                   *)

RunRecords == [job : Jobs \cup {"somebody"}, created : Nat, status : Statuses]

(* An observing attempt knows of a dispatch, which is the one in evidence  *)
(* when there is evidence; one about to dispatch found no evidence.        *)
StageKept(j) ==
  /\ attempt[j] = "none" => dispatched[j] = 0
  /\ attempt[j] = "dispatch" => dispatched[j] = 0 /\ evidence[j] = 0
  /\ attempt[j] = "observe" => dispatched[j] # 0 /\ evidence[j] \in {0, dispatched[j]}

Known(j) == dispatched[j] # 0 \/ evidence[j] # 0

(* The runs of a job: one for the dispatch it knows of, and one for each   *)
(* that it forgot.                                                         *)
RunsAccounted(j) ==
  /\ IsFiniteSet(Own(j))
  /\ Cardinality(Own(j)) <= losses[j] + IF Known(j) THEN 1 ELSE 0
  /\ Known(j) \/ outcome[j] # 0 => Own(j) # {}

DispatchInv ==
  /\ DispatchTypeOK
  /\ runs \in Seq(RunRecords) /\ Len(runs) <= MaxRuns
  /\ \A j \in Jobs : StageKept(j) /\ RunsAccounted(j)

LEMMA DispatchStarts == DispatchInit => DispatchInv
<1>1. SUFFICES ASSUME DispatchInit PROVE DispatchInv
  OBVIOUS
<1>2. runs \in Seq(RunRecords) /\ Len(runs) = 0 /\ DOMAIN runs = {}
  BY <1>1 DEF DispatchInit
<1>3. \A j \in Jobs : Own(j) = {} /\ StageKept(j) /\ ~Known(j) /\ losses[j] = 0 /\ outcome[j] = 0
  BY <1>1, <1>2 DEF DispatchInit, Own, StageKept, Known
<1>4. \A j \in Jobs : RunsAccounted(j)
  BY <1>3, FS_EmptySet DEF RunsAccounted
<1>5. DispatchTypeOK
  BY <1>1, <1>2, DispatchAssumption DEF DispatchTypeOK, DispatchInit
<1> QED
  BY <1>2, <1>3, <1>4, <1>5, DispatchAssumption DEF DispatchInv

(* A run more: only its job has one more of its own.                       *)
LEMMA CreatesCounts ==
  ASSUME DispatchInv, NEW by \in Jobs \cup {"somebody"}, MayCreate, Creates(by)
  PROVE  /\ runs' \in Seq(RunRecords) /\ Len(runs') <= MaxRuns
         /\ \A i \in DOMAIN runs' : runs'[i].status \in Statuses /\ runs'[i].created <= clock
         /\ \A j \in Jobs : j # by => Own(j)' = Own(j)
         /\ by \in Jobs =>
              /\ IsFiniteSet(Own(by)') /\ Own(by)' # {}
              /\ Cardinality(Own(by)') = Cardinality(Own(by)) + 1
<1>1. PICK r : r = [job |-> by, created |-> clock, status |-> "pending"]
  OBVIOUS
<1>2. r \in RunRecords /\ r.job = by /\ r.created = clock /\ r.status = "pending"
  BY <1>1, DispatchAssumption DEF RunRecords, Statuses, DispatchInv, DispatchTypeOK
<1>3. /\ runs \in Seq(RunRecords) /\ runs' = Append(runs, r) /\ Len(runs) \in Nat
      /\ Len(runs) < MaxRuns
  BY <1>1 DEF DispatchInv, Creates, MayCreate
<1>4. /\ DOMAIN runs = 1..Len(runs) /\ DOMAIN runs' = DOMAIN runs \cup {Len(runs) + 1}
      /\ \A i \in DOMAIN runs : runs'[i] = runs[i]
      /\ runs'[Len(runs) + 1] = r /\ Len(runs) + 1 \notin DOMAIN runs
  BY <1>3
<1>5. /\ runs' \in Seq(RunRecords) /\ Len(runs') <= MaxRuns
      /\ \A i \in DOMAIN runs' : runs'[i].status \in Statuses /\ runs'[i].created <= clock
  <2>1. clock \in Nat
    BY DispatchAssumption DEF DispatchInv, DispatchTypeOK
  <2>2. ASSUME NEW i \in DOMAIN runs'
        PROVE  runs'[i].status \in Statuses /\ runs'[i].created <= clock
    <3>1. CASE i \in DOMAIN runs
      BY <1>4, <3>1 DEF DispatchInv, DispatchTypeOK
    <3>2. CASE i = Len(runs) + 1
      BY <1>2, <1>4, <2>1, <3>2 DEF Statuses
    <3> QED
      BY <1>4, <3>1, <3>2
  <2>3. runs' \in Seq(RunRecords) /\ Len(runs') <= MaxRuns
    BY <1>2, <1>3, DispatchAssumption
  <2> QED
    BY <2>2, <2>3
<1>6. ASSUME NEW j \in Jobs, j # by PROVE Own(j)' = Own(j)
  BY <1>2, <1>4, <1>6 DEF Own
<1>7. ASSUME by \in Jobs
      PROVE  /\ IsFiniteSet(Own(by)') /\ Own(by)' # {}
             /\ Cardinality(Own(by)') = Cardinality(Own(by)) + 1
  <2>1. Own(by)' = Own(by) \cup {Len(runs) + 1} /\ Len(runs) + 1 \notin Own(by)
    BY <1>2, <1>4 DEF Own
  <2> QED
    BY <1>7, <2>1, FS_AddElement DEF DispatchInv, RunsAccounted
<1> QED
  BY <1>5, <1>6, <1>7

(* A job whose own state a step leaves alone.                              *)
SameJob(j) ==
  /\ attempt'[j] = attempt[j] /\ dispatched'[j] = dispatched[j]
  /\ evidence'[j] = evidence[j] /\ outcome'[j] = outcome[j] /\ losses'[j] = losses[j]

LEMMA SameJobKept ==
  ASSUME NEW j \in Jobs, StageKept(j), RunsAccounted(j), SameJob(j), Own(j)' = Own(j)
  PROVE  StageKept(j)' /\ RunsAccounted(j)'
BY DEF StageKept, RunsAccounted, Known, SameJob

(* What a step of one attempt owes: the rest of the invariant follows.     *)
LEMMA OneAttempt ==
  ASSUME DispatchInv, NEW j \in Jobs, UNCHANGED <<clock, runs>>,
         \A k \in Jobs \ {j} : SameJob(k),
         attempt' \in [Jobs -> {"none", "dispatch", "observe"}],
         dispatched' \in [Jobs -> 0..MaxClock], evidence' \in [Jobs -> 0..MaxClock],
         outcome' \in [Jobs -> 0..MaxRuns], losses' \in [Jobs -> Nat],
         StageKept(j)', RunsAccounted(j)'
  PROVE  DispatchInv'
<1>1. \A k \in Jobs : Own(k)' = Own(k)
  BY DEF Own
<1>2. \A k \in Jobs \ {j} : StageKept(k)' /\ RunsAccounted(k)'
  BY <1>1, SameJobKept DEF DispatchInv
<1>3. DispatchTypeOK'
  BY DEF DispatchTypeOK, DispatchInv
<1> QED
  BY <1>2, <1>3 DEF DispatchInv

LEMMA StartsSafe ==
  ASSUME DispatchInv, NEW j \in Jobs, Starts(j)
  PROVE  DispatchInv'
<1>1. /\ attempt[j] = "none" /\ outcome[j] = 0 /\ dispatched[j] = 0
      /\ attempt \in [Jobs -> {"none", "dispatch", "observe"}]
      /\ dispatched \in [Jobs -> 0..MaxClock] /\ evidence \in [Jobs -> 0..MaxClock]
      /\ outcome \in [Jobs -> 0..MaxRuns] /\ losses \in [Jobs -> Nat]
  BY DEF Starts, DispatchInv, DispatchTypeOK, StageKept
<1>2. PICK to : to = IF evidence[j] = 0 THEN "dispatch" ELSE "observe"
  OBVIOUS
<1>3. /\ dispatched' = [dispatched EXCEPT ![j] = evidence[j]]
      /\ attempt' = [attempt EXCEPT ![j] = to]
      /\ UNCHANGED <<clock, runs, evidence, outcome, losses>>
  BY <1>2 DEF Starts, Prior
<1>4. /\ attempt'[j] = to /\ dispatched'[j] = evidence[j]
      /\ \A k \in Jobs \ {j} : SameJob(k)
  BY <1>1, <1>3 DEF SameJob
<1>5. Own(j)' = Own(j)
  BY <1>3 DEF Own
<1>6. StageKept(j)' /\ RunsAccounted(j)'
  BY <1>1, <1>2, <1>3, <1>4, <1>5 DEF StageKept, RunsAccounted, Known, DispatchInv
<1> QED
  BY <1>1, <1>2, <1>3, <1>4, <1>6, OneAttempt

LEMMA DispatchesSafe ==
  ASSUME DispatchInv, NEW j \in Jobs, Dispatches(j)
  PROVE  DispatchInv'
<1>1. /\ attempt[j] = "dispatch" /\ dispatched[j] = 0 /\ evidence[j] = 0
      /\ attempt \in [Jobs -> {"none", "dispatch", "observe"}]
      /\ dispatched \in [Jobs -> 0..MaxClock] /\ clock \in 1..MaxClock
      /\ MayCreate /\ Creates(j) /\ losses[j] \in Nat
  BY DEF Dispatches, DispatchInv, DispatchTypeOK, StageKept
<1>2. /\ dispatched' = [dispatched EXCEPT ![j] = clock]
      /\ attempt' = [attempt EXCEPT ![j] = "observe"]
      /\ UNCHANGED <<clock, evidence, outcome, losses>>
  BY DEF Dispatches
<1>3. /\ dispatched'[j] = clock /\ attempt'[j] = "observe" /\ clock # 0
      /\ dispatched' \in [Jobs -> 0..MaxClock]
      /\ attempt' \in [Jobs -> {"none", "dispatch", "observe"}]
      /\ \A k \in Jobs \ {j} : SameJob(k)
  BY <1>1, <1>2, DispatchAssumption DEF SameJob
<1>4. /\ runs' \in Seq(RunRecords) /\ Len(runs') <= MaxRuns
      /\ \A i \in DOMAIN runs' : runs'[i].status \in Statuses /\ runs'[i].created <= clock
      /\ \A k \in Jobs \ {j} : Own(k)' = Own(k)
      /\ IsFiniteSet(Own(j)') /\ Own(j)' # {}
      /\ Cardinality(Own(j)') = Cardinality(Own(j)) + 1
  BY <1>1, CreatesCounts
<1>5. StageKept(j)' /\ RunsAccounted(j)'
  <2>1. IsFiniteSet(Own(j)) /\ Cardinality(Own(j)) <= losses[j] /\ Cardinality(Own(j)) \in Nat
    BY <1>1, FS_CardinalityType DEF DispatchInv, RunsAccounted, Known
  <2>2. Cardinality(Own(j)') <= losses'[j] + 1
    BY <1>1, <1>2, <1>4, <2>1
  <2> QED
    BY <1>1, <1>2, <1>3, <1>4, <2>2 DEF StageKept, RunsAccounted, Known
<1>6. \A k \in Jobs \ {j} : StageKept(k)' /\ RunsAccounted(k)'
  BY <1>3, <1>4, SameJobKept DEF DispatchInv
<1>7. DispatchTypeOK'
  BY <1>2, <1>3, <1>4 DEF DispatchTypeOK, DispatchInv
<1> QED
  BY <1>4, <1>5, <1>6, <1>7 DEF DispatchInv

LEMMA DispatchFailsSafe ==
  ASSUME DispatchInv, NEW j \in Jobs, DispatchFails(j)
  PROVE  DispatchInv'
<1>1. /\ attempt[j] = "dispatch" /\ dispatched[j] = 0 /\ evidence[j] = 0
      /\ attempt \in [Jobs -> {"none", "dispatch", "observe"}]
      /\ dispatched \in [Jobs -> 0..MaxClock] /\ evidence \in [Jobs -> 0..MaxClock]
      /\ outcome \in [Jobs -> 0..MaxRuns] /\ losses \in [Jobs -> Nat]
  BY DEF DispatchFails, DispatchInv, DispatchTypeOK, StageKept
<1>2. /\ attempt' = [attempt EXCEPT ![j] = "none"]
      /\ UNCHANGED <<clock, dispatched, evidence, outcome>>
  BY DEF DispatchFails
<1>3. /\ attempt'[j] = "none" /\ \A k \in Jobs \ {j} : attempt'[k] = attempt[k]
      /\ attempt' \in [Jobs -> {"none", "dispatch", "observe"}]
  BY <1>1, <1>2
<1>4. /\ IsFiniteSet(Own(j)) /\ Cardinality(Own(j)) <= losses[j]
      /\ Cardinality(Own(j)) \in Nat
  BY <1>1, FS_CardinalityType DEF DispatchInv, RunsAccounted, Known
<1>5. CASE UNCHANGED <<runs, losses>>
  <2>1. \A k \in Jobs \ {j} : SameJob(k)
    BY <1>2, <1>3, <1>5 DEF SameJob
  <2>2. Own(j)' = Own(j)
    BY <1>5 DEF Own
  <2>3. StageKept(j)' /\ RunsAccounted(j)'
    BY <1>1, <1>2, <1>3, <1>5, <2>2 DEF StageKept, RunsAccounted, Known, DispatchInv
  <2> QED
    BY <1>1, <1>2, <1>3, <1>5, <2>1, <2>3, OneAttempt
<1>6. CASE MayCreate /\ Creates(j) /\ losses' = [losses EXCEPT ![j] = @ + 1]
  <2>1. /\ runs' \in Seq(RunRecords) /\ Len(runs') <= MaxRuns
        /\ \A i \in DOMAIN runs' : runs'[i].status \in Statuses /\ runs'[i].created <= clock
        /\ \A k \in Jobs \ {j} : Own(k)' = Own(k)
        /\ IsFiniteSet(Own(j)') /\ Own(j)' # {}
        /\ Cardinality(Own(j)') = Cardinality(Own(j)) + 1
    BY <1>6, CreatesCounts
  <2>2. /\ losses'[j] = losses[j] + 1 /\ losses' \in [Jobs -> Nat]
        /\ \A k \in Jobs \ {j} : SameJob(k)
    BY <1>1, <1>2, <1>3, <1>6 DEF SameJob
  <2>3. StageKept(j)' /\ RunsAccounted(j)'
    <3>1. Cardinality(Own(j)') <= losses'[j]
      BY <1>1, <1>4, <2>1, <2>2
    <3>2. dispatched'[j] = 0 /\ evidence'[j] = 0 /\ losses'[j] \in Nat
      BY <1>1, <1>2, <2>2
    <3>3. StageKept(j)' /\ ~Known(j)'
      BY <1>3, <3>2 DEF StageKept, Known
    <3>4. Cardinality(Own(j)') <= losses'[j] + 0
      BY <3>1, <3>2
    <3> QED
      BY <2>1, <3>3, <3>4 DEF RunsAccounted
  <2>4. \A k \in Jobs \ {j} : StageKept(k)' /\ RunsAccounted(k)'
    BY <2>1, <2>2, SameJobKept DEF DispatchInv
  <2>5. DispatchTypeOK'
    BY <1>2, <1>3, <2>1, <2>2 DEF DispatchTypeOK, DispatchInv
  <2> QED
    BY <2>1, <2>3, <2>4, <2>5 DEF DispatchInv
<1> QED
  BY <1>5, <1>6 DEF DispatchFails

(* An observing attempt that leaves, whatever it found.                    *)
LEMMA LeavesSafe ==
  ASSUME DispatchInv, NEW j \in Jobs, NEW stored \in BOOLEAN, attempt[j] = "observe",
         Leaves(j, stored), UNCHANGED <<clock, runs>>,
         outcome' \in [Jobs -> 0..MaxRuns],
         \A k \in Jobs \ {j} : outcome'[k] = outcome[k]
  PROVE  DispatchInv'
<1>1. /\ dispatched[j] # 0 /\ evidence[j] \in {0, dispatched[j]}
      /\ attempt \in [Jobs -> {"none", "dispatch", "observe"}]
      /\ dispatched \in [Jobs -> 0..MaxClock] /\ evidence \in [Jobs -> 0..MaxClock]
      /\ losses \in [Jobs -> Nat] /\ 0 \in 0..MaxClock
  BY DispatchAssumption DEF DispatchInv, DispatchTypeOK, StageKept
<1>2. PICK e, l : /\ e = IF stored THEN dispatched[j] ELSE evidence[j]
                  /\ l = IF stored \/ dispatched[j] \in {0, evidence[j]}
                         THEN losses[j] ELSE losses[j] + 1
  OBVIOUS
<1>3. /\ attempt' = [attempt EXCEPT ![j] = "none"]
      /\ dispatched' = [dispatched EXCEPT ![j] = 0]
      /\ evidence' = [evidence EXCEPT ![j] = e]
      /\ losses' = [losses EXCEPT ![j] = l]
  BY <1>2 DEF Leaves
<1>4. e \in 0..MaxClock /\ l \in Nat
  BY <1>1, <1>2
<1>5. /\ attempt'[j] = "none" /\ dispatched'[j] = 0 /\ evidence'[j] = e /\ losses'[j] = l
      /\ \A k \in Jobs \ {j} : SameJob(k)
  BY <1>1, <1>3 DEF SameJob
<1>6. /\ attempt' \in [Jobs -> {"none", "dispatch", "observe"}]
      /\ dispatched' \in [Jobs -> 0..MaxClock] /\ evidence' \in [Jobs -> 0..MaxClock]
      /\ losses' \in [Jobs -> Nat]
  BY <1>1, <1>3, <1>4
<1>7. Own(j)' = Own(j)
  BY DEF Own
<1>8. /\ IsFiniteSet(Own(j)) /\ Cardinality(Own(j)) \in Nat /\ Own(j) # {}
      /\ Cardinality(Own(j)) <= losses[j] + 1 /\ losses[j] \in Nat
  BY <1>1, FS_CardinalityType DEF DispatchInv, RunsAccounted, Known
<1>9. Cardinality(Own(j)) <= l + IF e # 0 THEN 1 ELSE 0
  <2>1. CASE stored
    BY <1>1, <1>2, <1>8, <2>1
  <2>2. CASE ~stored
    BY <1>1, <1>2, <1>8, <2>2
  <2> QED
    BY <2>1, <2>2
<1>10. StageKept(j)' /\ RunsAccounted(j)'
  BY <1>5, <1>7, <1>8, <1>9 DEF StageKept, RunsAccounted, Known
<1> QED
  BY <1>5, <1>6, <1>10, OneAttempt

LEMMA LeastExists ==
  ASSUME NEW T, T \subseteq Nat, T # {}
  PROVE  \E x \in T : \A y \in T : x <= y
<1>1. PICK less : IsWellFoundedOn(less, Nat) /\ \A x, y \in Nat : y < x => <<y, x>> \in less
  <2>1. \A x, y \in Nat : y < x => <<y, x>> \in OpToRel(<, Nat)
    BY DEF OpToRel
  <2> QED
    BY <2>1, NatLessThanWellFounded, Zenon
<1>2. PICK x \in T : \A y \in T : <<y, x>> \notin less
  BY <1>1, WFMin
<1>3. \A y \in T : ~(y < x)
  BY <1>1, <1>2
<1>4. x \in Nat /\ \A y \in T : y \in Nat
  OBVIOUS
<1> QED
  BY <1>3, <1>4

LEMMA ReadsBackSafe ==
  ASSUME DispatchInv, NEW j \in Jobs, ReadsBack(j)
  PROVE  DispatchInv'
<1>1. runs \in Seq(RunRecords) /\ Len(runs) <= MaxRuns /\ outcome \in [Jobs -> 0..MaxRuns]
  BY DEF DispatchInv, DispatchTypeOK
<1>2. YoungEnough(j) \subseteq 1..Len(runs) /\ YoungEnough(j) # {}
  BY <1>1 DEF YoungEnough, ReadsBack
<1>3. \E i \in YoungEnough(j) : \A k \in YoungEnough(j) : i <= k
  BY <1>2, LeastExists
<1>4. Selected(j) \in 0..MaxRuns
  BY <1>1, <1>2, <1>3, DispatchAssumption DEF Selected
<1>5. PICK o : /\ o \in 0..MaxRuns
               /\ outcome' = [outcome EXCEPT ![j] = o]
  BY <1>1, <1>4 DEF ReadsBack
<1>6. outcome' \in [Jobs -> 0..MaxRuns] /\ \A k \in Jobs \ {j} : outcome'[k] = outcome[k]
  BY <1>1, <1>5
<1> QED
  BY <1>6, LeavesSafe DEF ReadsBack

LEMMA ObserverLeaves ==
  ASSUME DispatchInv, NEW j \in Jobs, KeepsWaiting(j) \/ ObservationFails(j)
  PROVE  DispatchInv'
<1>1. outcome \in [Jobs -> 0..MaxRuns]
  BY DEF DispatchInv, DispatchTypeOK
<1>2. PICK stored \in BOOLEAN : Leaves(j, stored)
  BY DEF KeepsWaiting, ObservationFails
<1> QED
  BY <1>1, <1>2, LeavesSafe DEF KeepsWaiting, ObservationFails

LEMMA TicksSafe ==
  ASSUME DispatchInv, Ticks
  PROVE  DispatchInv'
<1>1. \A j \in Jobs : Own(j)' = Own(j) /\ SameJob(j)
  BY DEF Ticks, Own, SameJob
<1>2. \A j \in Jobs : StageKept(j)' /\ RunsAccounted(j)'
  BY <1>1, SameJobKept DEF DispatchInv
<1>3. clock' \in 1..MaxClock /\ clock \in Nat /\ clock' = clock + 1
  BY DispatchAssumption DEF Ticks, DispatchInv, DispatchTypeOK
<1>4. runs' = runs /\ \A i \in DOMAIN runs : runs[i].created \in Nat
  <2>1. \A i \in DOMAIN runs : runs[i] \in RunRecords
    BY DEF DispatchInv
  <2> QED
    BY <2>1 DEF Ticks, RunRecords
<1>5. \A i \in DOMAIN runs : runs[i].created <= clock'
  BY <1>3, <1>4 DEF DispatchInv, DispatchTypeOK
<1> QED
  BY <1>2, <1>3, <1>4, <1>5 DEF DispatchInv, DispatchTypeOK, Ticks

LEMMA SomebodySafe ==
  ASSUME DispatchInv, SomebodyDispatches
  PROVE  DispatchInv'
<1>1. /\ runs' \in Seq(RunRecords) /\ Len(runs') <= MaxRuns
      /\ \A i \in DOMAIN runs' : runs'[i].status \in Statuses /\ runs'[i].created <= clock
      /\ \A j \in Jobs : j # "somebody" => Own(j)' = Own(j)
  BY CreatesCounts DEF SomebodyDispatches
<1>2. \A j \in Jobs : Own(j)' = Own(j) /\ SameJob(j)
  BY <1>1, DispatchAssumption DEF SomebodyDispatches, SameJob
<1>3. \A j \in Jobs : StageKept(j)' /\ RunsAccounted(j)'
  BY <1>2, SameJobKept DEF DispatchInv
<1> QED
  BY <1>1, <1>3 DEF DispatchInv, DispatchTypeOK, SomebodyDispatches

LEMMA RunCompletesSafe ==
  ASSUME DispatchInv, NEW i \in DOMAIN runs, NEW status \in {"success", "failure"},
         RunCompletes(i, status)
  PROVE  DispatchInv'
<1>1. runs \in Seq(RunRecords) /\ DOMAIN runs = 1..Len(runs) /\ Len(runs) \in Nat
  BY DEF DispatchInv
<1>2. PICK r : r = [runs[i] EXCEPT !.status = status]
  OBVIOUS
<1>3. runs[i] \in RunRecords
  BY <1>1
<1>4. /\ r \in RunRecords /\ r.job = runs[i].job /\ r.created = runs[i].created
      /\ r.status = status
  BY <1>2, <1>3 DEF RunRecords, Statuses
<1>5. /\ runs' = [runs EXCEPT ![i] = r]
      /\ UNCHANGED <<clock, attempt, dispatched, evidence, outcome, losses>>
  BY <1>2 DEF RunCompletes
<1>6. /\ runs' \in Seq(RunRecords) /\ Len(runs') = Len(runs) /\ DOMAIN runs' = DOMAIN runs
      /\ runs'[i] = r /\ \A k \in DOMAIN runs \ {i} : runs'[k] = runs[k]
  BY <1>1, <1>4, <1>5
<1>7. \A j \in Jobs : Own(j)' = Own(j) /\ SameJob(j)
  BY <1>4, <1>5, <1>6 DEF Own, SameJob
<1>8. \A j \in Jobs : StageKept(j)' /\ RunsAccounted(j)'
  BY <1>7, SameJobKept DEF DispatchInv
<1>9. \A k \in DOMAIN runs' : runs'[k].status \in Statuses /\ runs'[k].created <= clock
  BY <1>4, <1>6 DEF Statuses, DispatchInv, DispatchTypeOK
<1> QED
  BY <1>5, <1>6, <1>8, <1>9 DEF DispatchInv, DispatchTypeOK

LEMMA DispatchStep == DispatchInv /\ [DispatchNext]_dispatchVars => DispatchInv'
<1>1. ASSUME DispatchInv, UNCHANGED dispatchVars PROVE DispatchInv'
  <2>1. \A j \in Jobs : Own(j)' = Own(j) /\ SameJob(j)
    BY <1>1 DEF dispatchVars, Own, SameJob
  <2>2. \A j \in Jobs : StageKept(j)' /\ RunsAccounted(j)'
    BY <1>1, <2>1, SameJobKept DEF DispatchInv
  <2> QED
    BY <1>1, <2>2 DEF DispatchInv, DispatchTypeOK, dispatchVars
<1> QED
  BY <1>1, StartsSafe, DispatchesSafe, DispatchFailsSafe, ReadsBackSafe, ObserverLeaves,
     TicksSafe, SomebodySafe, RunCompletesSafe DEF DispatchNext

LEMMA DispatchConcludes == DispatchInv => DispatchHolds
<1>1. SUFFICES ASSUME DispatchInv PROVE DispatchHolds
  OBVIOUS
<1>2. RedispatchNeedsLoss
  <2>1. SUFFICES ASSUME NEW j \in Jobs PROVE Cardinality(Own(j)) <= 1 + losses[j]
    BY DEF RedispatchNeedsLoss
  <2>2. Cardinality(Own(j)) \in Nat /\ losses[j] \in Nat
    BY <1>1, FS_CardinalityType DEF DispatchInv, RunsAccounted, DispatchTypeOK
  <2> QED
    BY <1>1, <2>2 DEF DispatchInv, RunsAccounted
<1>3. SettledJobDispatched
  BY <1>1 DEF SettledJobDispatched, DispatchInv, RunsAccounted
<1> QED
  BY <1>1, <1>2, <1>3 DEF DispatchHolds, DispatchInv

(* However attempts fail, wait or die, a job has at most one run more than *)
(* dispatches whose evidence was lost, and none is settled by a run before *)
(* it dispatched one of its own (GitHubWorkflowExecutor.execute), for any  *)
(* number of jobs, runs and ticks.                                         *)
THEOREM DispatchSafe == DispatchSpec => []DispatchHolds
<1> QED
  BY DispatchStarts, DispatchStep, DispatchConcludes, PTL DEF DispatchSpec

-----------------------------------------------------------------------------
(* The helpers together, as the runs have them                             *)

(* The step of one helper leaves the others at rest, so what holds of each *)
(* alone holds of the three: the holder of the lease works on the rows as  *)
(* they are stored, the governor's mode is earned, and a workflow is       *)
(* dispatched again only when a dispatch was lost.                         *)
THEOREM HelpersSafe == HelpersSpec => [](HolderCurrent /\ HelpersHold)
<1> DEFINE Inv == ExplorerInv /\ GovernorInv /\ DispatchInv
<1>1. HelpersInit => Inv
  BY ExplorerInit, GovernorStarts, DispatchStarts DEF HelpersInit
<1>2. ASSUME [HelpersNext]_helperVars
      PROVE  [Next]_vars /\ [GovernorNext]_governorVars /\ [DispatchNext]_dispatchVars
  BY <1>2 DEF HelpersNext, OnlyExplorer, Only, helperVars, vars, governorVars, dispatchVars
<1>3. ASSUME Inv, [HelpersNext]_helperVars PROVE Inv'
  BY <1>2, <1>3, TypeStep, HolderStep, GovernorStep, DispatchStep DEF ExplorerInv
<1>4. Inv => HolderCurrent /\ HelpersHold
  BY GovernorConcludes, DispatchConcludes
  DEF HelpersHold, ExplorerInv, HolderInv, HolderCurrent
<1> QED
  BY <1>1, <1>3, <1>4, PTL DEF HelpersSpec

=============================================================================
