------------------------------ MODULE GateProofs ------------------------------
(***************************************************************************)
(* Proofs about the two programs that admit operations through a journal:  *)
(* OperationGate and FarmerWorker, for every set of requests, directives   *)
(* and operations and any number of crashes, and their composition.        *)
(***************************************************************************)
EXTENDS MCGateClients, TLAPS

-----------------------------------------------------------------------------
(* OperationGate                                                           *)

\* The token of a row is a request for that operation.
RowOwner ==
    \A f \in Fingerprints :
        row[f].state # "absent" =>
            row[f].token \in Requests /\ FingerprintOf[row[f].token] = f

\* A handler starts after admission, and a finish call is made after a handler
\* was started; while the handler runs on, the call says "uncertain".
HandlerOrder ==
    /\ \A r \in Requests :
          /\ pc[r] \in {"new", "admitted"} => handler[r] = "idle"
          /\ pc[r] \in {"handling", "recording", "sending", "failing"} =>
                handler[r] # "idle"
    /\ \A c \in calls :
          /\ handler[c.request] # "idle"
          /\ handler[c.request] = "running" => c.outcome = "uncertain"

\* The row of an effectful operation is held from admission on: as "running"
\* until the outcome is stored, and while the handler runs also as
\* "uncertain", which bars the operation as well.
EffectHeld ==
    \A r \in Requests :
        FingerprintOf[r] \notin Recovery =>
            /\ pc[r] = "admitted" =>
                  row[FingerprintOf[r]] = [state |-> "running", token |-> r]
            /\ handler[r] = "running" =>
                  /\ row[FingerprintOf[r]].token = r
                  /\ row[FingerprintOf[r]].state \in {"running", "uncertain"}

GateInv ==
    /\ TypeOK /\ RowOwner /\ HandlerOrder /\ EffectHeld
    /\ UnresolvedBlocks /\ RowTellsOwner /\ StopReachable

LEMMA GateInvHolds ==
    ASSUME GateInv
    PROVE  GateHolds
<1>1. OneHandler
  <2> SUFFICES ASSUME NEW r \in Requests, NEW q \in Requests, r # q,
                      FingerprintOf[r] = FingerprintOf[q],
                      FingerprintOf[r] \notin Recovery,
                      handler[r] = "running", handler[q] = "running"
               PROVE  FALSE
    BY DEF OneHandler
  <2>1. row[FingerprintOf[r]].token = r
    BY DEF GateInv, EffectHeld
  <2>2. row[FingerprintOf[q]].token = q
    BY DEF GateInv, EffectHeld
  <2> QED BY <2>1, <2>2
<1> QED BY <1>1 DEF GateInv, GateHolds

LEMMA GateInit == Init => GateInv
BY GateAssumption DEF Init, GateInv, TypeOK, RowOwner, HandlerOrder,
   EffectHeld, UnresolvedBlocks, RowTellsOwner, StopReachable, PC, Outcome

\* A row that bars its operation is given to nobody else.
LEMMA GateBegin ==
    ASSUME GateInv, NEW r \in Requests, Begin(r)
    PROVE  GateInv'
<1> DEFINE f == FingerprintOf[r]
<1>1. f \in Fingerprints
  BY GateAssumption
<1>2. /\ row'[f] = [state |-> "running", token |-> r]
      /\ \A g \in Fingerprints \ {f} : row'[g] = row[g]
  BY <1>1 DEF Begin, GateInv, TypeOK
<1>3. TypeOK'
  BY <1>1 DEF Begin, Goto, GateInv, TypeOK, PC
<1>4. RowOwner'
  BY <1>1, <1>2 DEF RowOwner, GateInv
<1>5. HandlerOrder' /\ StopReachable'
  BY DEF Begin, Goto, GateInv, TypeOK, HandlerOrder, StopReachable
<1>6. EffectHeld'
  BY <1>1, <1>2, GateAssumption
     DEF Begin, Denied, Goto, GateInv, TypeOK, EffectHeld
<1>7. UnresolvedBlocks'
  <2> SUFFICES ASSUME NEW q \in Requests, FingerprintOf[q] \notin Recovery,
                      handler[q] # "idle", recorded[q] = NULL
               PROVE  row'[FingerprintOf[q]] = [state |-> "running", token |-> q]
    BY DEF Begin, UnresolvedBlocks
  <2>1. row[FingerprintOf[q]] = [state |-> "running", token |-> q]
    BY DEF GateInv, UnresolvedBlocks
  <2>2. FingerprintOf[q] # f
    BY <2>1 DEF Begin, Denied
  <2> QED BY <1>2, <2>1, <2>2, GateAssumption
<1>8. RowTellsOwner'
  BY <1>1, <1>2 DEF Begin, GateInv, RowTellsOwner, Outcome
<1> QED BY <1>3, <1>4, <1>5, <1>6, <1>7, <1>8 DEF GateInv

\* Steps of the middleware that leave the journal alone.
LEMMA GateMiddleware ==
    ASSUME GateInv, NEW r \in Requests,
           \/ Reject(r) \/ BeginFails(r) \/ Enter(r) \/ HandlerEnds(r)
           \/ Send(r)
    PROVE  GateInv'
<1>1. row' = row /\ calls' = calls /\ recorded' = recorded
  BY DEF Reject, BeginFails, Enter, HandlerEnds, Send
<1>2. TypeOK'
  BY DEF Reject, BeginFails, Enter, HandlerEnds, Send, Goto, GateInv, TypeOK, PC
<1>3. RowOwner' /\ RowTellsOwner'
  BY <1>1 DEF RowOwner, RowTellsOwner, GateInv
<1>4. HandlerOrder'
  BY DEF Reject, BeginFails, Enter, HandlerEnds, Send, Goto, GateInv, TypeOK,
     HandlerOrder
<1>5. EffectHeld'
  BY GateAssumption DEF Reject, BeginFails, Enter, HandlerEnds, Send, Goto,
     GateInv, TypeOK, EffectHeld
<1>6. UnresolvedBlocks'
  BY <1>1, GateAssumption DEF Reject, BeginFails, Enter, HandlerEnds, Send,
     GateInv, TypeOK, HandlerOrder, EffectHeld, UnresolvedBlocks
<1>7. StopReachable'
  BY GateAssumption DEF Reject, Denied, BeginFails, Enter, HandlerEnds, Send,
     Goto, GateInv, TypeOK, StopReachable
<1> QED BY <1>2, <1>3, <1>4, <1>5, <1>6, <1>7 DEF GateInv

\* Steps that make a finish call, or leave without one.
LEMMA GateCalls ==
    ASSUME GateInv, NEW r \in Requests,
           \/ \E outcome \in Outcome : Observe(r, outcome)
           \/ Raise(r) \/ SendRaises(r) \/ Cancel(r)
    PROVE  GateInv'
<1>1. row' = row /\ handler' = handler /\ recorded' = recorded
      /\ finished' = finished /\ crashes' = crashes
  BY DEF Observe, Raise, SendRaises, Cancel
<1>2. PICK label \in {"recording", "failing", "gone"} :
        /\ pc' = [pc EXCEPT ![r] = label]
        /\ pc[r] \notin Ended \cup {"new"}
        /\ label \in {"recording", "failing"} => handler[r] # "idle"
  BY DEF Observe, Raise, SendRaises, Cancel, Uncertain, Goto, Ended, GateInv,
     HandlerOrder
<1>3. ASSUME NEW c \in calls'
      PROVE  \/ c \in calls
             \/ /\ c.request = r /\ handler[r] # "idle" /\ c.outcome \in Outcome
                /\ c \in [request : Requests, outcome : Outcome]
                /\ handler[r] = "running" => c.outcome = "uncertain"
  BY <1>3 DEF Observe, Raise, SendRaises, Cancel, Uncertain, Outcome, GateInv,
     HandlerOrder
<1>4. TypeOK'
  BY <1>1, <1>2, <1>3 DEF GateInv, TypeOK, PC
<1>5. HandlerOrder'
  BY <1>1, <1>2, <1>3 DEF GateInv, TypeOK, HandlerOrder
<1>6. RowOwner' /\ RowTellsOwner' /\ EffectHeld' /\ UnresolvedBlocks'
  BY <1>1, <1>2 DEF GateInv, TypeOK, RowOwner, RowTellsOwner, EffectHeld,
     UnresolvedBlocks
<1>7. StopReachable'
  BY <1>2 DEF GateInv, TypeOK, StopReachable
<1> QED BY <1>4, <1>5, <1>6, <1>7 DEF GateInv

\* After a finish call the coroutine resumes; a request that is not waiting
\* for it stays where it is.
LEMMA GateResumed ==
    ASSUME GateInv, NEW c \in calls, Resumed(c)
    PROVE  /\ pc' \in [Requests -> PC]
           /\ \A r \in Requests :
                 \/ pc'[r] = pc[r]
                 \/ /\ pc[r] \in {"recording", "failing"}
                    /\ pc'[r] \in {"sending", "gone"}
BY DEF GateInv, TypeOK, Resumed, PC

\* A finish call stores the outcome of the request that owns the row, once.
LEMMA GateFinish ==
    ASSUME GateInv, NEW c \in calls, Finish(c) \/ FinishFails(c)
    PROVE  GateInv'
<1> DEFINE r == c.request
<1> DEFINE f == FingerprintOf[r]
<1>1. /\ r \in Requests /\ f \in Fingerprints /\ c.outcome \in Outcome
      /\ handler[r] # "idle"
      /\ handler[r] = "running" => c.outcome = "uncertain"
  BY GateAssumption DEF GateInv, TypeOK, HandlerOrder
<1>2. handler' = handler /\ crashes' = crashes /\ calls' = calls \ {c}
      /\ finished' \in SUBSET Requests
  BY <1>1 DEF Finish, FinishFails, GateInv, TypeOK
<1>3. /\ pc' \in [Requests -> PC]
      /\ \A q \in Requests :
            \/ pc'[q] = pc[q]
            \/ /\ pc[q] \in {"recording", "failing"}
               /\ pc'[q] \in {"sending", "gone"}
  BY GateResumed DEF Finish, FinishFails
<1>4. \/ row' = row /\ recorded' = recorded
      \/ /\ row[f] = [state |-> "running", token |-> r]
         /\ row'[f] = [state |-> c.outcome, token |-> r]
         /\ \A g \in Fingerprints \ {f} : row'[g] = row[g]
         /\ recorded'[r] = c.outcome
         /\ \A q \in Requests \ {r} : recorded'[q] = recorded[q]
  BY <1>1 DEF Finish, FinishFails, Owns, GateInv, TypeOK
<1>5. TypeOK'
  BY <1>1, <1>2, <1>3 DEF Finish, FinishFails, GateInv, TypeOK
<1>6. HandlerOrder' /\ StopReachable'
  BY <1>2, <1>3 DEF GateInv, HandlerOrder, StopReachable
<1>7. RowOwner' /\ RowTellsOwner'
  BY <1>1, <1>4, GateAssumption DEF GateInv, TypeOK, RowOwner, RowTellsOwner,
     Outcome
<1>8. EffectHeld'
  BY <1>1, <1>2, <1>3, <1>4, GateAssumption DEF GateInv, HandlerOrder,
     EffectHeld
<1>9. UnresolvedBlocks'
  BY <1>1, <1>2, <1>4, GateAssumption, OutcomeAssumption DEF GateInv,
     UnresolvedBlocks
<1> QED BY <1>5, <1>6, <1>7, <1>8, <1>9 DEF GateInv

LEMMA GateCrash ==
    ASSUME GateInv, Crash
    PROVE  GateInv'
<1>1. /\ row' = row /\ recorded' = recorded /\ calls' = {}
      /\ \A r \in Requests :
            /\ pc'[r] \in Ended \cup {"new"} /\ (pc'[r] # "gone" => pc'[r] = pc[r])
            /\ handler'[r] # "running"
            /\ (handler'[r] = "idle") <=> (handler[r] = "idle")
  BY DEF Crash, Ended, GateInv, TypeOK
<1>2. TypeOK'
  BY GateAssumption DEF Crash, Ended, GateInv, TypeOK, PC
<1>3. RowOwner' /\ RowTellsOwner' /\ UnresolvedBlocks' /\ StopReachable'
  BY <1>1 DEF GateInv, RowOwner, RowTellsOwner, UnresolvedBlocks, StopReachable
<1>4. HandlerOrder' /\ EffectHeld'
  BY <1>1 DEF GateInv, HandlerOrder, EffectHeld, Ended
<1> QED BY <1>2, <1>3, <1>4 DEF GateInv

LEMMA GateStep ==
    ASSUME GateInv, [Next]_vars
    PROVE  GateInv'
<1>1. CASE UNCHANGED vars
  BY <1>1 DEF vars, GateInv, TypeOK, RowOwner, HandlerOrder, EffectHeld,
     UnresolvedBlocks, RowTellsOwner, StopReachable
<1>2. CASE Next
  BY <1>2, GateBegin, GateMiddleware, GateCalls, GateFinish, GateCrash
     DEF Next, Advance
<1> QED BY <1>1, <1>2

\* However requests repeat, are cancelled and crash, and however gate calls
\* fail or come late: no two handlers of one effectful operation run at once,
\* an operation without a stored outcome stays blocked, a row tells what became
\* of its owner, and the emergency stop is never refused.
THEOREM GateSafe == Spec => []GateHolds
<1>1. Init => GateInv
  BY GateInit
<1>2. GateInv /\ [Next]_vars => GateInv'
  BY GateStep
<1>3. GateInv => GateHolds
  BY GateInvHolds
<1> QED BY <1>1, <1>2, <1>3, PTL DEF Spec

\* No step changes the row of a failed or uncertain effectful operation.
LEMMA GateRowFinal ==
    ASSUME GateInv, [Next]_vars, NEW f \in Fingerprints \ Recovery,
           row[f].state \in {"failed", "uncertain"}
    PROVE  row'[f] = row[f]
<1>1. CASE row' = row
  BY <1>1
<1>2. ASSUME NEW r \in Requests, Begin(r) PROVE row'[f] = row[f]
  BY <1>2, GateAssumption DEF Begin, Denied, GateInv, TypeOK
<1>3. ASSUME NEW c \in calls, Finish(c) PROVE row'[f] = row[f]
  BY <1>3, GateAssumption DEF Finish, Owns, GateInv, TypeOK
<1> QED BY <1>1, <1>2, <1>3 DEF Next, Advance, Reject, BeginFails, Enter,
      HandlerEnds, Raise, Send, SendRaises, Observe, FinishFails, Cancel,
      Crash, vars

\* A failed or uncertain operation is never admitted again: its row is final.
THEOREM GateFailedIsFinal == Spec => FailedIsFinal
<1>1. Spec => []GateInv
  BY GateInit, GateStep, PTL DEF Spec
<1>2. GateInv /\ [Next]_vars =>
         [\A f \in Fingerprints \ Recovery :
            row[f].state \in {"failed", "uncertain"} => row'[f] = row[f]]_vars
  BY GateRowFinal
<1> QED BY <1>1, <1>2, PTL DEF Spec, FailedIsFinal

-----------------------------------------------------------------------------
(* FarmerWorker                                                            *)

\* The journal row of an operation that changes something tells what is not
\* known about its last run, or what was bad about it.
JournalTells ==
    \A f \in Operations \ Observations :
        /\ effect[f] = "open" => operation[f].state = "running"
        /\ effect[f] = "bad" => operation[f].state \in {"failed", "uncertain"}

WorkerInv == WorkerTypeOK /\ JournalTells

LEMMA WorkerInvInit == WorkerInit => WorkerInv
BY WorkerAssumption DEF WorkerInit, WorkerInv, WorkerTypeOK, JournalTells, Stage,
   CallState, CallResult, ToolResult, JournalState, Calls

\* Steps outside _dispatch leave the journal alone.
LEMMA WorkerLoop ==
    ASSUME WorkerInv,
           \/ Work \/ Die
           \/ \E d \in Directives : Publish(d) \/ Wake(d)
    PROVE  WorkerInv'
<1>1. UNCHANGED <<operation, effect>>
  BY DEF Work, Die, Publish, Wake, StartWorker, Listen, Accept, ReadPending,
     Execute, FileReceipt, StartRound, EndRound, PlanEnds, OnlyStage, OnlyCalls
<1>2. JournalTells'
  BY <1>1 DEF WorkerInv, JournalTells
<1>3. CASE \E d \in Directives : Publish(d) \/ Wake(d)
  <2>1. published' \in Seq(Directives)
    BY <1>3 DEF Publish, Wake, WorkerInv, WorkerTypeOK
  <2> QED BY <1>2, <1>3, <2>1, WorkerAssumption
          DEF Publish, Wake, WorkerInv, WorkerTypeOK
<1>4. CASE Die
  BY <1>2, <1>4, WorkerAssumption DEF Die, WorkerInv, WorkerTypeOK, Stage,
     CallState, CallResult, ToolResult
<1>5. CASE StartWorker \/ Listen \/ Accept \/ ReadPending
  <2>1. Pending \subseteq Directives
    BY DEF Pending
  <2> QED BY <1>2, <1>5, <2>1, WorkerAssumption DEF StartWorker, Listen, Accept,
          ReadPending, OnlyStage, WorkerInv, WorkerTypeOK, Stage
<1>6. ASSUME NEW d \in Directives, Execute(d) \/ FileReceipt(d)
      PROVE  WorkerInv'
  BY <1>2, <1>6 DEF Execute, FileReceipt, OnlyCalls, WorkerInv, WorkerTypeOK,
     CallState, CallResult, Calls
<1>7. ASSUME NEW d \in Directives, StartRound(d) \/ EndRound(d) \/ PlanEnds(d)
      PROVE  WorkerInv'
  <2>1. CASE StartRound(d)
    BY <1>2, <2>1 DEF StartRound, OnlyCalls, WorkerInv, WorkerTypeOK, CallState, Calls
  <2>2. CASE EndRound(d)
    BY <1>2, <2>2 DEF EndRound, WorkerInv, WorkerTypeOK, CallState, Calls
  <2>3. CASE PlanEnds(d)
    BY <1>2, <2>3 DEF PlanEnds, OnlyCalls, WorkerInv, WorkerTypeOK, CallState,
       CallResult, ToolResult, Calls
  <2> QED BY <1>7, <2>1, <2>2, <2>3
<1> QED BY <1>3, <1>4, <1>5, <1>6, <1>7 DEF Work

\* What the gate is told of a result, and what is known of the effect then.
LEMMA FinishOutcomeIn ==
    ASSUME NEW r PROVE FinishOutcome(r) \in {"failed", "uncertain", "waiting", "observed"}
BY DEF FinishOutcome

LEMMA WorkerDispatch ==
    ASSUME WorkerInv, NEW c \in Calls, Dispatch(c)
    PROVE  WorkerInv'
<1> DEFINE f == OperationOf[c]
<1>1. f \in Operations
  BY WorkerAssumption
<1>2. CASE Refuse(c)
  BY <1>2 DEF Refuse, OnlyCalls, WorkerInv, WorkerTypeOK, JournalTells, CallState,
     CallResult, ToolResult
<1>3. CASE Admit(c)
  <2>1. /\ operation' = [operation EXCEPT ![f] = [state |-> "running", owner |-> {c}]]
        /\ effect' = [effect EXCEPT ![f] = "open"]
    BY <1>3 DEF Admit
  <2>2. JournalTells'
    BY <1>1, <2>1 DEF WorkerInv, WorkerTypeOK, JournalTells
  <2> QED BY <1>1, <1>3, <2>1, <2>2 DEF Admit, OnlyCalls, WorkerInv, WorkerTypeOK,
          CallState, JournalState
<1>6. CASE AdmissionRaises(c)
  <2>1. /\ at' = [at EXCEPT ![c] = "answered"]
        /\ result' = [result EXCEPT ![c] = "machine_blocked"]
        /\ effect' = effect
        /\ \/ operation' = operation
           \/ /\ ~Refused(f)
              /\ operation' = [operation EXCEPT ![f] = [state |-> "running", owner |-> {c}]]
    BY <1>6 DEF AdmissionRaises
  <2>2. /\ at' \in [Calls -> CallState] /\ result' \in [Calls -> CallResult]
        /\ operation' \in [Operations -> [state : JournalState, owner : SUBSET Calls]]
    BY <1>1, <2>1 DEF WorkerInv, WorkerTypeOK, CallState, CallResult, ToolResult,
       JournalState
  <2>3. JournalTells'
    BY <1>1, <2>1 DEF WorkerInv, WorkerTypeOK, JournalTells, Refused
  <2> QED BY <1>6, <2>1, <2>2, <2>3 DEF AdmissionRaises, OnlyCalls, WorkerInv,
          WorkerTypeOK
<1>4. ASSUME NEW r \in ToolResult, ToolEnds(c, r) PROVE WorkerInv'
  BY <1>4 DEF ToolEnds, OnlyCalls, WorkerInv, WorkerTypeOK, JournalTells, CallState,
     CallResult
<1>5. CASE FinishCall(c) \/ FinishCallFails(c)
  <2>1. at' \in [Calls -> CallState] /\ result' \in [Calls -> CallResult]
    BY <1>5 DEF FinishCall, FinishCallFails, Answer, WorkerInv, WorkerTypeOK,
       CallState, CallResult, ToolResult
  <2>2. CASE UNCHANGED <<operation, effect>>
    BY <1>5, <2>1, <2>2 DEF FinishCall, FinishCallFails, OnlyCalls, WorkerInv,
       WorkerTypeOK, JournalTells
  <2>3. ASSUME NEW outcome \in {"failed", "uncertain", "waiting", "observed"},
               operation' = [operation EXCEPT ![f].state = outcome],
               effect' = [effect EXCEPT ![f] =
                            IF outcome \in {"observed", "waiting"} THEN "known"
                            ELSE "bad"]
        PROVE  WorkerInv'
    <3>1. operation[f] \in [state : JournalState, owner : SUBSET Calls]
      BY <1>1 DEF WorkerInv, WorkerTypeOK
    <3>2. /\ operation'[f] \in [state : JournalState, owner : SUBSET Calls]
          /\ operation'[f].state = outcome
          /\ operation' \in [Operations -> [state : JournalState, owner : SUBSET Calls]]
      BY <1>1, <2>3, <3>1 DEF WorkerInv, WorkerTypeOK, JournalState
    <3>3. JournalTells'
      BY <1>1, <2>3, <3>2 DEF WorkerInv, WorkerTypeOK, JournalTells
    <3> QED BY <1>1, <1>5, <2>1, <2>3, <3>2, <3>3
            DEF FinishCall, FinishCallFails, OnlyCalls, WorkerInv, WorkerTypeOK
  <2> QED BY <1>5, <2>2, <2>3, FinishOutcomeIn DEF FinishCall, FinishCallFails
<1> QED BY <1>2, <1>3, <1>4, <1>5, <1>6 DEF Dispatch

LEMMA WorkerStep == WorkerInv /\ [WorkerNext]_workerVars => WorkerInv'
<1> SUFFICES ASSUME WorkerInv, [WorkerNext]_workerVars PROVE WorkerInv'
  OBVIOUS
<1>1. CASE UNCHANGED workerVars
  BY <1>1 DEF workerVars, WorkerInv, WorkerTypeOK, JournalTells
<1> QED BY <1>1, WorkerLoop, WorkerDispatch DEF WorkerNext

\* Only a call that the gate admits starts to run.
LEMMA WorkerAdmits ==
    ASSUME WorkerInv, [WorkerNext]_workerVars, NEW c \in Calls,
           at[c] # "running", at'[c] = "running"
    PROVE  Admit(c)
<1>1. at' # at
  OBVIOUS
<1>2. ASSUME NEW k \in Calls, Dispatch(k) PROVE Admit(c)
  BY <1>2 DEF Dispatch, Refuse, Admit, AdmissionRaises, ToolEnds, FinishCall,
     FinishCallFails, Answer, WorkerInv, WorkerTypeOK
<1>3. ~Work
  BY DEF Work, StartWorker, Listen, Accept, ReadPending, Execute, FileReceipt,
     StartRound, EndRound, PlanEnds, OnlyStage, WorkerInv, WorkerTypeOK, Calls
<1>4. ~Die /\ ~(\E d \in Directives : Publish(d) \/ Wake(d)) /\ ~(UNCHANGED workerVars)
  BY <1>1 DEF Die, Publish, Wake, workerVars
<1> QED BY <1>2, <1>3, <1>4 DEF WorkerNext

\* A tool that changes something starts only when the effect of the last run of
\* its operation is known.
LEMMA WorkerStarts ==
    ASSUME WorkerInv, [WorkerNext]_workerVars, NEW c \in Calls,
           at[c] # "running", at'[c] = "running"
    PROVE  \/ OperationOf[c] \in Observations
           \/ effect[OperationOf[c]] \in {"none", "known"}
<1> SUFFICES ASSUME OperationOf[c] \notin Observations
             PROVE  effect[OperationOf[c]] \in {"none", "known"}
  OBVIOUS
<1>1. ~Refused(OperationOf[c])
  BY WorkerAdmits DEF Admit
<1>2. OperationOf[c] \in Operations
  BY WorkerAssumption
<1> QED BY <1>1, <1>2 DEF Refused, WorkerInv, WorkerTypeOK, JournalTells

\* For every set of directives, plans and operations: the tool of an operation
\* that changes something starts only when its last run is known and was no
\* failure (aurum_worker.py, operation_gate.py).
THEOREM WorkerIsSafe == WorkerSpec => WorkerSafe
<1>1. WorkerSpec => []WorkerInv
  BY WorkerInvInit, WorkerStep, PTL DEF WorkerSpec
<1>2. WorkerInv => WorkerTypeOK
  BY DEF WorkerInv
<1>3. WorkerInv /\ [WorkerNext]_workerVars =>
         [\A c \in Calls :
            at[c] # "running" /\ at'[c] = "running" =>
               OperationOf[c] \in Observations
                  \/ effect[OperationOf[c]] \in {"none", "known"}]_workerVars
  BY WorkerStarts
<1> QED BY <1>1, <1>2, <1>3, PTL DEF WorkerSpec, WorkerSafe, NoBlindRerun

-----------------------------------------------------------------------------
(* The two programs together                                               *)

ClientsInv == GateInv /\ WorkerInv

LEMMA ClientsInvInit == ClientsInit => ClientsInv
<1>1. WorkloadInit => GateInv
  BY GateAssumption DEF WorkloadInit, GateInv, TypeOK, RowOwner, HandlerOrder,
     EffectHeld, UnresolvedBlocks, RowTellsOwner, StopReachable, PC, Outcome
<1> QED BY <1>1, WorkerInvInit DEF ClientsInit, ClientsInv

\* A step of the composition is a step of one program while the other rests.
LEMMA ClientsProject ==
    ASSUME [ClientsNext]_clientVars
    PROVE  [Next]_vars /\ [WorkerNext]_workerVars
<1>1. CASE UNCHANGED clientVars
  <2>1. vars' = vars /\ workerVars' = workerVars
    BY <1>1 DEF clientVars
  <2> QED BY <2>1
<1>2. CASE Next /\ OnlyMiddleware
  BY <1>2 DEF OnlyMiddleware, Only
<1>3. CASE WorkerNext /\ OnlyWorker
  BY <1>3 DEF OnlyWorker, Only
<1> QED BY <1>1, <1>2, <1>3 DEF ClientsNext

\* What holds of each program alone holds of the two in one system, whichever
\* requests come together: the middleware's journal and the worker's.
THEOREM ClientsSafe == ClientsSpec => []GateHolds /\ FailedIsFinal /\ WorkerSafe
<1>1. ClientsInit => ClientsInv
  BY ClientsInvInit
<1>2. ClientsInv /\ [ClientsNext]_clientVars => ClientsInv'
  BY ClientsProject, GateStep, WorkerStep DEF ClientsInv
<1>3. ClientsInv => GateHolds /\ WorkerTypeOK
  BY GateInvHolds DEF ClientsInv, WorkerInv
<1>4. ClientsInv /\ [ClientsNext]_clientVars =>
         [\A f \in Fingerprints \ Recovery :
            row[f].state \in {"failed", "uncertain"} => row'[f] = row[f]]_vars
  BY ClientsProject, GateRowFinal DEF ClientsInv
<1>5. ClientsInv /\ [ClientsNext]_clientVars =>
         [\A c \in Calls :
            at[c] # "running" /\ at'[c] = "running" =>
               OperationOf[c] \in Observations
                  \/ effect[OperationOf[c]] \in {"none", "known"}]_workerVars
  BY ClientsProject, WorkerStarts DEF ClientsInv
<1> QED BY <1>1, <1>2, <1>3, <1>4, <1>5, PTL
        DEF ClientsSpec, FailedIsFinal, WorkerSafe, NoBlindRerun
=============================================================================
