--------------------------- MODULE ControllerProofs ---------------------------
(***************************************************************************)
(* Proofs about the services of the controller, for every set of requests, *)
(* proposals, keys, packets, inputs and plans.  Every service has its      *)
(* inductive invariant; the last part puts them together, as in the        *)
(* composition the services are checked in.                                *)
(***************************************************************************)
EXTENDS MCServices, FiniteSetTheorems, TLAPS

-----------------------------------------------------------------------------
(* ControllerActions                                                       *)

Effectful == {r \in Requests : KindOf[r] \in {"diagnose", "launch"}}

\* Which steps a handler of each kind has.
HandlerSteps ==
    \A r \in Requests :
        /\ KindOf[r] \in {"engage", "reset"} => pc[r] \in {"new", "done"}
        /\ KindOf[r] = "list" => pc[r] \in {"new", "read", "done"}

\* An effectful handler holds control_lock from its first step to its last,
\* and beyond the look at the stop it is not engaged.
LockHeld ==
    \A r \in Effectful :
        /\ pc[r] \notin {"new", "done"} => control_lock = r
        /\ pc[r] \notin {"new", "done", "locked"} => ~stop.engaged

\* The command of a proposal that may still start was never started.
StartSpent ==
    \A p \in Proposals :
        /\ started[p] <= 1
        /\ proposal[p] \in {"absent", "pending"} => started[p] = 0

Change(e) == e.result \in {"engaged", "already_engaged", "reset", "already_clear"}
Says(e) == e.result \in {"engaged", "already_engaged", "blocked"}

\* AuditReplays, and what it rests on: the generation of the stop is odd while
\* it is engaged, and no event is ahead of it.
StopParity == stop.engaged <=> stop.generation % 2 = 1
EventsBehind == \A i \in DOMAIN event : event[i].generation <= stop.generation

AuditInv == StopParity /\ EventsBehind /\ AuditReplays

ActionsInv == TypeOK /\ HandlerSteps /\ LockHeld /\ StartSpent /\ AuditInv

LEMMA ActionsInvHolds ==
    ASSUME ActionsInv
    PROVE  ActionsHold
<1>1. RunOnce
  BY DEF ActionsInv, StartSpent, RunOnce
<1>2. StopHolds
  <2> SUFFICES ASSUME stop.engaged, NEW r \in Requests, pc[r] = "effect"
               PROVE  FALSE
    BY DEF StopHolds
  <2>1. r \in Effectful
    BY ActionsAssumption DEF ActionsInv, HandlerSteps, Effectful, Kinds
  <2> QED BY <2>1 DEF ActionsInv, LockHeld
<1> QED BY <1>1, <1>2 DEF ActionsInv, AuditInv, ActionsHold

LEMMA ActionsInit == Init => ActionsInv
<1> SUFFICES ASSUME Init PROVE ActionsInv
  OBVIOUS
<1>1. TypeOK
  BY ActionsAssumption DEF Init, TypeOK, Status, PC
<1>2. HandlerSteps /\ LockHeld /\ StartSpent
  BY DEF Init, HandlerSteps, LockHeld, StartSpent, Effectful
<1>3. AuditInv
  BY DEF Init, AuditInv, StopParity, EventsBehind, AuditReplays
<1> QED BY <1>1, <1>2, <1>3 DEF ActionsInv

\* What one more event does to the audit stream: an event about the stop says
\* what the stop now is, any other one leaves the stop alone and is of the
\* generation in force.
LEMMA AuditAppend ==
    ASSUME TypeOK, AuditInv, TypeOK', StopParity',
           NEW e \in [result : Result, generation : Nat],
           event' = Append(event, e),
           e.generation = stop'.generation,
           Says(e) <=> e.generation % 2 = 1,
           IF Change(e) THEN stop.generation <= stop'.generation
                             /\ Says(e) = stop'.engaged
           ELSE stop' = stop
    PROVE  AuditInv'
<1> DEFINE n == Len(event)
<1>1. /\ n \in Nat /\ DOMAIN event = 1..n /\ DOMAIN event' = 1..(n + 1)
      /\ event'[n + 1] = e /\ \A i \in 1..n : event'[i] = event[i]
  BY DEF TypeOK
<1>2. stop.generation \in Nat /\ stop'.generation \in Nat
      /\ stop.generation <= stop'.generation
  BY DEF TypeOK
<1>3. \A i \in 1..n : event[i] \in [result : Result, generation : Nat]
  <2> DEFINE Events == [result : Result, generation : Nat]
  <2>1. event \in Seq(Events)
    BY DEF TypeOK
  <2> HIDE DEF Events
  <2>2. \A i \in 1..n : event[i] \in Events
    BY <2>1
  <2> QED BY <2>2 DEF Events
<1>4. \A i \in 1..n : event[i].generation <= stop.generation
  BY <1>1 DEF AuditInv, EventsBehind
<1>a. /\ \A i, k \in 1..n : i < k => event[i].generation <= event[k].generation
      /\ \A i \in 1..n : Says(event[i]) <=> event[i].generation % 2 = 1
  BY <1>1 DEF AuditInv, AuditReplays, Says
<1>b. ASSUME NEW i \in 1..n, Change(event[i]),
             \A k \in 1..n : Change(event[k]) => k <= i
      PROVE  Says(event[i]) = stop.engaged /\ event[i].generation = stop.generation
  BY <1>1, <1>b DEF AuditInv, AuditReplays, Says, Change
<1>5. EventsBehind'
  BY <1>1, <1>2, <1>3, <1>4 DEF EventsBehind
<1>6. \A i, k \in 1..(n + 1) :
         i < k => event'[i].generation <= event'[k].generation
  <2> SUFFICES ASSUME NEW i \in 1..(n + 1), NEW k \in 1..(n + 1), i < k
               PROVE  event'[i].generation <= event'[k].generation
    OBVIOUS
  <2>1. CASE k = n + 1
    BY <2>1, <1>1, <1>2, <1>3, <1>4
  <2>2. CASE k # n + 1
    <3>1. i \in 1..n /\ k \in 1..n
      BY <2>2, <1>1
    <3>2. event'[i] = event[i] /\ event'[k] = event[k]
      BY <3>1, <1>1
    <3> QED BY <3>1, <3>2, <1>a
  <2> QED BY <2>1, <2>2
<1>7. \A i \in 1..(n + 1) : Says(event'[i]) <=> event'[i].generation % 2 = 1
  BY <1>1, <1>a
<1>8. ASSUME NEW i \in 1..(n + 1), Change(event'[i]),
             \A k \in 1..(n + 1) : Change(event'[k]) => k <= i
      PROVE  Says(event'[i]) = stop'.engaged
             /\ event'[i].generation = stop'.generation
  <2>1. CASE Change(e)
    <3>1. i = n + 1
      BY <2>1, <1>1, <1>8
    <3> QED BY <2>1, <3>1, <1>1
  <2>2. CASE ~Change(e)
    <3>1. i \in 1..n /\ event'[i] = event[i]
      BY <2>2, <1>1, <1>8
    <3>2. \A k \in 1..n : Change(event[k]) => k <= i
      BY <1>1, <1>8
    <3> QED BY <1>8, <1>b, <2>2, <3>1, <3>2
  <2> QED BY <2>1, <2>2
<1>9. AuditReplays'
  BY <1>1, <1>6, <1>7, <1>8 DEF AuditReplays, Says, Change
<1> QED BY <1>5, <1>9 DEF AuditInv

\* Steps that leave the stop and its events alone.
LEMMA AuditUntouched ==
    ASSUME AuditInv, UNCHANGED <<stop, event>>
    PROVE  AuditInv'
BY DEF AuditInv, StopParity, EventsBehind, AuditReplays

\* A request for the stop: no effectful handler holds control_lock.
LEMMA ActionsStop ==
    ASSUME ActionsInv, NEW r \in Requests, Engage(r) \/ Reset(r)
    PROVE  ActionsInv'
<1>1. /\ pc[r] = "new" /\ control_lock = FREE /\ control_lock' = FREE
      /\ pc' = [pc EXCEPT ![r] = "done"]
      /\ UNCHANGED <<proposal, due, seen, started, crashes>>
  BY DEF Engage, Reset, Goto
<1>2. \A q \in Effectful : pc'[q] \in {"new", "done"}
  BY <1>1, ActionsAssumption DEF ActionsInv, LockHeld, Effectful, TypeOK
<1>3. /\ stop' \in [engaged : BOOLEAN, generation : Nat]
      /\ stop.generation <= stop'.generation
      /\ StopParity'
  <2>1. /\ stop.engaged \in BOOLEAN /\ stop.generation \in Nat
        /\ stop = [engaged |-> stop.engaged, generation |-> stop.generation]
    BY DEF ActionsInv, TypeOK
  <2>2. (stop.generation + 1) % 2 = 1 <=> ~(stop.generation % 2 = 1)
    BY <2>1
  <2>3. CASE stop' = stop
    BY <2>1, <2>3 DEF ActionsInv, AuditInv, StopParity, TypeOK
  <2>4. CASE stop' = [engaged |-> ~stop.engaged, generation |-> stop.generation + 1]
    <3>1. stop'.engaged = ~stop.engaged /\ stop'.generation = stop.generation + 1
      BY <2>4
    <3>2. stop.engaged <=> stop.generation % 2 = 1
      BY DEF ActionsInv, AuditInv, StopParity
    <3>3. StopParity'
      BY <2>1, <2>2, <3>1, <3>2 DEF StopParity
    <3>4. stop' \in [engaged : BOOLEAN, generation : Nat]
      BY <2>1, <2>4
    <3> QED BY <2>1, <3>1, <3>3, <3>4
  <2> QED BY <2>1, <2>3, <2>4 DEF Engage, Reset
<1>4. PICK e : /\ e \in [result : Result, generation : Nat]
               /\ event' = Append(event, e)
               /\ e.generation = stop'.generation
               /\ Change(e) /\ Says(e) = stop'.engaged
  <2>1. CASE Engage(r)
    <3> DEFINE e == [result |-> IF stop.engaged THEN "already_engaged" ELSE "engaged",
                     generation |-> stop'.generation]
    <3>1. e \in [result : Result, generation : Nat] /\ Change(e) /\ Says(e)
      BY <1>3 DEF Result, Change, Says
    <3>2. stop'.engaged = TRUE
      BY <2>1 DEF Engage, ActionsInv, TypeOK
    <3> QED BY <2>1, <3>1, <3>2 DEF Engage, Log
  <2>2. CASE Reset(r)
    <3> DEFINE e == [result |-> IF stop.engaged THEN "reset" ELSE "already_clear",
                     generation |-> stop'.generation]
    <3>1. e \in [result : Result, generation : Nat] /\ Change(e) /\ ~Says(e)
      BY <1>3 DEF Result, Change, Says
    <3>2. stop'.engaged = FALSE
      BY <2>2 DEF Reset, ActionsInv, TypeOK
    <3>3. Says(e) = stop'.engaged
      <4>1. Says(e) \in BOOLEAN
        BY DEF Says
      <4> QED BY <3>1, <3>2, <4>1
    <3>4. event' = Append(event, e)
      BY <2>2 DEF Reset, Log
    <3>5. e.generation = stop'.generation
      OBVIOUS
    <3> HIDE DEF e
    <3> QED BY <3>1, <3>3, <3>4, <3>5
  <2> QED BY <2>1, <2>2
<1>5. TypeOK'
  <2>1. event' \in Seq([result : Result, generation : Nat])
    BY <1>4 DEF ActionsInv, TypeOK
  <2> QED BY <1>1, <1>3, <2>1 DEF ActionsInv, TypeOK, PC
<1>6. HandlerSteps' /\ LockHeld' /\ StartSpent'
  BY <1>1, <1>2 DEF ActionsInv, HandlerSteps, LockHeld, StartSpent, TypeOK
<1>7. AuditInv'
  BY <1>3, <1>4, <1>5, AuditAppend DEF ActionsInv, StopParity
<1> QED BY <1>5, <1>6, <1>7 DEF ActionsInv

\* Steps of a handler that leave the stop and the audit stream alone.
LEMMA ActionsQuiet ==
    ASSUME ActionsInv, NEW r \in Requests,
           \/ Enter(r) \/ Open(r) \/ ReadRow(r) \/ NotPending(r) \/ Expire(r)
           \/ StillPending(r) \/ TargetRefused(r) \/ StartCommand(r)
           \/ AlreadyHandled(r) \/ CommandUnavailable(r) \/ Launch(r)
           \/ \E result \in {"succeeded", "failed"} : EndCommand(r, result)
    PROVE  ActionsInv'
<1>1. /\ UNCHANGED <<stop, event, crashes>>
      /\ \E label \in PC : pc' = [pc EXCEPT ![r] = label]
      /\ control_lock' \in {control_lock, r, FREE}
      /\ seen' = seen \/ seen' = [seen EXCEPT ![r] = proposal[ProposalOf[r]]]
      /\ due' = due
  BY DEF Enter, Open, ReadRow, NotPending, Expire, StillPending, TargetRefused,
     StartCommand, AlreadyHandled, CommandUnavailable, Launch, EndCommand,
     Leave, Goto, PC
<1>2. \/ UNCHANGED <<proposal, started>>
      \/ /\ proposal[ProposalOf[r]] = "pending"
         /\ proposal' = [proposal EXCEPT ![ProposalOf[r]] = "running"]
         /\ started' = [started EXCEPT ![ProposalOf[r]] = @ + 1]
      \/ /\ \E s \in {"expired", "succeeded", "failed"} :
               proposal' = [proposal EXCEPT ![ProposalOf[r]] = s]
         /\ UNCHANGED started
  BY DEF Enter, Open, ReadRow, NotPending, Expire, StillPending, TargetRefused,
     StartCommand, AlreadyHandled, CommandUnavailable, Launch, EndCommand
<1>3. ProposalOf[r] \in Proposals
  BY ActionsAssumption
<1>4. TypeOK'
  <2>1. proposal' \in [Proposals -> Status] /\ started' \in [Proposals -> Nat]
    BY <1>2, <1>3 DEF ActionsInv, TypeOK, Status
  <2> QED BY <1>1, <1>3, <2>1 DEF ActionsInv, TypeOK
<1>5. StartSpent'
  BY <1>2, <1>3 DEF ActionsInv, TypeOK, StartSpent
<1>6. HandlerSteps'
  BY DEF Enter, Open, ReadRow, NotPending, Expire, StillPending, TargetRefused,
     StartCommand, AlreadyHandled, CommandUnavailable, Launch, EndCommand,
     Leave, Goto, ActionsInv, TypeOK, HandlerSteps
<1>7. LockHeld'
  <2>1. \A q \in Effectful \ {r} :
           pc'[q] = pc[q] /\ (control_lock = q => control_lock' = q)
    BY ActionsAssumption DEF Enter, Open, ReadRow, NotPending, Expire, StillPending,
       TargetRefused, StartCommand, AlreadyHandled, CommandUnavailable, Launch,
       EndCommand, Leave, Goto, ActionsInv, TypeOK, Effectful
  <2>2. ASSUME r \in Effectful, pc'[r] \notin {"new", "done"}
        PROVE  control_lock' = r /\ (pc'[r] # "locked" => ~stop.engaged)
    BY <2>2 DEF Enter, Open, ReadRow, NotPending, Expire, StillPending,
       TargetRefused, StartCommand, AlreadyHandled, CommandUnavailable, Launch,
       EndCommand, Leave, Goto, ActionsInv, TypeOK, Effectful, LockHeld
  <2> QED BY <1>1, <2>1, <2>2 DEF ActionsInv, LockHeld
<1> QED BY <1>1, <1>4, <1>5, <1>6, <1>7, AuditUntouched DEF ActionsInv

\* Steps that end a handler with an audit event.
LEMMA ActionsLog ==
    ASSUME ActionsInv, NEW r \in Requests, Blocked(r) \/ Report(r) \/ Launched(r)
    PROVE  ActionsInv'
<1>1. /\ pc' = [pc EXCEPT ![r] = "done"] /\ control_lock' = FREE
      /\ UNCHANGED <<stop, proposal, due, seen, started, crashes>>
      /\ pc[r] \notin {"new", "done", "read"}
  BY DEF Blocked, Report, Launched, Release, Goto
<1>2. r \in Effectful
  BY <1>1, ActionsAssumption DEF ActionsInv, HandlerSteps, Effectful, Kinds
<1>3. \A q \in Effectful \ {r} : pc[q] \in {"new", "done"}
  BY <1>1, <1>2 DEF ActionsInv, LockHeld
<1>4. stop.generation \in Nat /\ (stop.engaged <=> stop.generation % 2 = 1)
  BY DEF ActionsInv, TypeOK, AuditInv, StopParity
<1>5. \/ event' = event
      \/ \E e \in [result : Result, generation : Nat] :
            /\ event' = Append(event, e)
            /\ e.generation = stop.generation
            /\ Says(e) <=> stop.engaged
            /\ ~Change(e)
  <2>1. ASSUME NEW result \in {"succeeded", "failed", "launched"}, ~stop.engaged,
               Log(result, stop.generation)
        PROVE  <1>5
    <3> DEFINE e == [result |-> result, generation |-> stop.generation]
    <3>1. e \in [result : Result, generation : Nat] /\ ~Change(e) /\ ~Says(e)
      BY <1>4 DEF Result, Change, Says
    <3> QED BY <2>1, <3>1 DEF Log
  <2>2. CASE Blocked(r)
    <3> DEFINE e == [result |-> "blocked", generation |-> stop.generation]
    <3>1. e \in [result : Result, generation : Nat] /\ ~Change(e) /\ Says(e)
      BY <1>4 DEF Result, Change, Says
    <3> QED BY <2>2, <3>1 DEF Blocked, Log
  <2>3. CASE Report(r)
    BY <2>1, <2>3, <1>2 DEF Report, ActionsInv, LockHeld
  <2>4. CASE Launched(r)
    BY <2>1, <2>4, <1>2 DEF Launched, ActionsInv, LockHeld
  <2> QED BY <2>2, <2>3, <2>4
<1>6. TypeOK'
  <2>1. event' \in Seq([result : Result, generation : Nat])
    <3> DEFINE Events == [result : Result, generation : Nat]
    <3>1. event \in Seq(Events)
      BY DEF ActionsInv, TypeOK
    <3>2. event' = event \/ \E e \in Events : event' = Append(event, e)
      BY <1>5
    <3> HIDE DEF Events
    <3>3. event' \in Seq(Events)
      BY <3>1, <3>2
    <3> QED BY <3>3 DEF Events
  <2> QED BY <1>1, <2>1 DEF ActionsInv, TypeOK, PC
<1>7. HandlerSteps' /\ LockHeld' /\ StartSpent'
  BY <1>1, <1>3 DEF ActionsInv, HandlerSteps, LockHeld, StartSpent, TypeOK
<1>8. AuditInv'
  <2>1. CASE event' = event
    BY <1>1, <2>1, AuditUntouched DEF ActionsInv
  <2>2. CASE event' # event
    <3>1. PICK e \in [result : Result, generation : Nat] :
            /\ event' = Append(event, e)
            /\ e.generation = stop.generation
            /\ Says(e) <=> stop.engaged
            /\ ~Change(e)
      BY <1>5, <2>2
    <3>2. StopParity' /\ e.generation = stop'.generation /\ stop' = stop
      BY <1>1, <1>4, <3>1 DEF StopParity
    <3>3. Says(e) <=> e.generation % 2 = 1
      BY <1>4, <3>1
    <3> QED BY <3>1, <3>2, <3>3, <1>6, AuditAppend DEF ActionsInv
  <2> QED BY <2>1, <2>2
<1> QED BY <1>6, <1>7, <1>8 DEF ActionsInv

\* The planner, the clock and the death of the controller.
LEMMA ActionsAround ==
    ASSUME ActionsInv, Crash \/ \E p \in Proposals : Propose(p) \/ Lapse(p)
    PROVE  ActionsInv'
<1>1. UNCHANGED <<stop, event, started, seen>>
  BY DEF Crash, Propose, Lapse
<1>2. TypeOK'
  <2>1. CASE Crash
    BY <2>1, <1>1, ActionsAssumption DEF Crash, ActionsInv, TypeOK, PC
  <2>2. ASSUME NEW p \in Proposals, Propose(p) \/ Lapse(p)
        PROVE  TypeOK'
    BY <2>2, <1>1 DEF Propose, Lapse, ActionsInv, TypeOK, Status
  <2> QED BY <2>1, <2>2
<1>3. HandlerSteps' /\ LockHeld'
  BY <1>1 DEF Crash, Propose, Lapse, ActionsInv, TypeOK, HandlerSteps, LockHeld,
     Effectful
<1>4. StartSpent'
  BY <1>1 DEF Crash, Propose, Lapse, ActionsInv, TypeOK, StartSpent
<1> QED BY <1>1, <1>2, <1>3, <1>4, AuditUntouched DEF ActionsInv

LEMMA ActionsStep == ActionsInv /\ [Next]_vars => ActionsInv'
<1> SUFFICES ASSUME ActionsInv, [Next]_vars PROVE ActionsInv'
  OBVIOUS
<1>1. ASSUME NEW r \in Requests, Handle(r) PROVE ActionsInv'
  BY <1>1, ActionsStop, ActionsQuiet, ActionsLog DEF Handle
<1>2. CASE UNCHANGED vars
  BY <1>2 DEF vars, ActionsInv, TypeOK, HandlerSteps, LockHeld, StartSpent,
     AuditInv, StopParity, EventsBehind, AuditReplays
<1> QED BY <1>1, <1>2, ActionsAround DEF Next

\* However requests, expiries and deaths of the controller interleave: an
\* approval is used up by one start, no diagnosis and no launch is under way
\* while the stop is engaged, and the audit stream replays to the stop (api.py,
\* diagnostic_executor.py, task_store.py).
THEOREM ActionsSafe == Spec => []ActionsHold
<1>1. Spec => []ActionsInv
  BY ActionsInit, ActionsStep, PTL DEF Spec
<1>2. ActionsInv => ActionsHold
  BY ActionsInvHolds
<1> QED BY <1>1, <1>2, PTL

-----------------------------------------------------------------------------
(* ScriptFirst                                                             *)

Line == [key : ScriptKeys, status : Answers]

ScriptTypes ==
    /\ scriptPc \in [ScriptRequests -> Answers \union {"new", "handler", "done",
                                                      "unanswered", "turned_away"}]
    /\ scriptLog \in Seq(Line) /\ handled \in Seq(ScriptKeys)
    /\ tail \in {"line", "torn"} /\ taskComplete \in BOOLEAN
    /\ lost \subseteq ScriptRequests
    /\ checkedAt \in [ScriptRequests -> Nat]

\* A success is not logged yet, or never will be.
Unlogged(key) ==
    {r \in ScriptRequests : KeyOf[r] = key /\ (scriptPc[r] = "succeeded" \/ r \in lost)}

HandledOf(key) == {i \in DOMAIN handled : handled[i] = key}

\* A success is lost with the answer of its request.
LostWithAnswer == \A r \in lost : scriptPc[r] \in {"done", "unanswered"}

\* A look was at handlers that had returned.
LooksBack == \A r \in ScriptRequests : checkedAt[r] <= Len(handled)

Balanced ==
    \A key \in ScriptKeys :
        /\ IsFiniteSet(Successes(key)) /\ IsFiniteSet(Unlogged(key))
        /\ IsFiniteSet(HandledOf(key))
        /\ Cardinality(Successes(key)) + Cardinality(Unlogged(key))
             = Cardinality(HandledOf(key))

ScriptInv ==
    /\ ScriptTypes /\ LostWithAnswer /\ LooksBack /\ DuplicateIsDone /\ Balanced

LEMMA ScriptInvHolds ==
    ASSUME ScriptInv
    PROVE  ScriptHolds
<1>1. ScriptTypeOK
  <2>1. \A i \in DOMAIN scriptLog : scriptLog[i] \in Line
    BY DEF ScriptInv, ScriptTypes
  <2> QED BY <2>1 DEF ScriptInv, ScriptTypes, ScriptTypeOK, Line
<1>2. LogCountsSuccesses
  BY DEF ScriptInv, Balanced, LogCountsSuccesses, Unlogged, HandledOf
<1> QED BY <1>1, <1>2 DEF ScriptInv, ScriptHolds

LEMMA ScriptInvInit == ScriptInit => ScriptInv
<1> SUFFICES ASSUME ScriptInit PROVE ScriptInv
  OBVIOUS
<1>1. \A key \in ScriptKeys :
         Successes(key) = {} /\ Unlogged(key) = {} /\ HandledOf(key) = {}
  BY DEF ScriptInit, Successes, Unlogged, HandledOf
<1>2. Balanced
  BY <1>1, FS_EmptySet DEF Balanced
<1>3. ScriptTypes /\ LooksBack
  <2>1. scriptLog \in Seq(Line) /\ handled \in Seq(ScriptKeys) /\ Len(handled) = 0
    BY DEF ScriptInit
  <2>2. checkedAt = [r \in ScriptRequests |-> 0]
    BY DEF ScriptInit
  <2>3. scriptPc \in [ScriptRequests -> Answers \union {"new", "handler", "done",
                                                      "unanswered", "turned_away"}]
    BY DEF ScriptInit
  <2>4. LooksBack
    BY <2>1, <2>2 DEF LooksBack
  <2>5. tail \in {"line", "torn"} /\ taskComplete \in BOOLEAN /\ lost \subseteq ScriptRequests
    BY DEF ScriptInit
  <2> QED BY <2>1, <2>2, <2>3, <2>4, <2>5 DEF ScriptTypes
<1>4. LostWithAnswer /\ DuplicateIsDone
  BY DEF ScriptInit, LostWithAnswer, DuplicateIsDone
<1> QED BY <1>2, <1>3, <1>4 DEF ScriptInv

\* A key's handlers have returned exactly when a success of it is logged, under
\* way or lost.
LEMMA SuccessTold ==
    ASSUME Balanced, NEW key \in ScriptKeys
    PROVE  HandledOf(key) # {} <=> Successes(key) # {} \/ Unlogged(key) # {}
<1>1. /\ Cardinality(Successes(key)) \in Nat /\ Cardinality(Unlogged(key)) \in Nat
      /\ Cardinality(Successes(key)) = 0 <=> Successes(key) = {}
      /\ Cardinality(Unlogged(key)) = 0 <=> Unlogged(key) = {}
      /\ Cardinality(HandledOf(key)) = 0 <=> HandledOf(key) = {}
  BY FS_EmptySet, FS_CardinalityType DEF Balanced
<1> QED BY <1>1 DEF Balanced

\* Steps after which the log, the handlers that returned and the unlogged
\* successes are as before.
LEMMA ScriptQuiet ==
    ASSUME Balanced, UNCHANGED <<scriptLog, handled>>,
           \A r \in ScriptRequests :
              (scriptPc'[r] = "succeeded" \/ r \in lost')
                 <=> (scriptPc[r] = "succeeded" \/ r \in lost)
    PROVE  Balanced'
<1>1. \A key \in ScriptKeys : /\ Successes(key)' = Successes(key)
                              /\ Unlogged(key)' = Unlogged(key)
                              /\ HandledOf(key)' = HandledOf(key)
  BY DEF Successes, Unlogged, HandledOf
<1> QED BY <1>1 DEF Balanced

LEMMA ScriptLooks ==
    ASSUME ScriptInv, NEW r \in ScriptRequests, TurnedAway(r) \/ Looks(r)
    PROVE  ScriptInv'
<1>1. /\ UNCHANGED <<scriptLog, tail, taskComplete, handled, lost>>
      /\ scriptPc[r] = "new"
      /\ \E next \in {"turned_away", "escalated", "rejected", "duplicate", "handler"} :
            scriptPc' = [scriptPc EXCEPT ![r] = next]
      /\ checkedAt' = checkedAt \/ checkedAt' = [checkedAt EXCEPT ![r] = Len(handled)]
  BY DEF TurnedAway, Looks
<1>2. Len(handled) \in Nat /\ DOMAIN handled = 1..Len(handled)
  BY DEF ScriptInv, ScriptTypes
<1>3. ScriptTypes'
  BY <1>1, <1>2 DEF ScriptInv, ScriptTypes, Answers
<1>4. LostWithAnswer' /\ LooksBack'
  BY <1>1, <1>2 DEF ScriptInv, ScriptTypes, LostWithAnswer, LooksBack
<1>5. Balanced'
  BY <1>1, ScriptQuiet DEF ScriptInv, ScriptTypes
<1>6. DuplicateIsDone'
  <2> SUFFICES ASSUME NEW q \in ScriptRequests, scriptPc'[q] = "duplicate", ~taskComplete
               PROVE  \E i \in 1..checkedAt'[q] : handled[i] = KeyOf[q]
    BY <1>1 DEF DuplicateIsDone
  <2>1. CASE q # r
    BY <1>1, <2>1 DEF ScriptInv, ScriptTypes, DuplicateIsDone
  <2>2. CASE q = r
    <3>1. SuccessfulRun(KeyOf[r]) /\ checkedAt'[r] = Len(handled)
      BY <2>2 DEF TurnedAway, Looks, ScriptInv, ScriptTypes
    <3>2. KeyOf[r] \in ScriptKeys
      BY ScriptAssumption
    <3>3. HandledOf(KeyOf[r]) # {}
      BY <3>1, <3>2, SuccessTold DEF SuccessfulRun, Successes, ScriptInv
    <3> QED BY <1>2, <2>2, <3>1, <3>3 DEF HandledOf
  <2> QED BY <2>1, <2>2
<1> QED BY <1>3, <1>4, <1>5, <1>6 DEF ScriptInv

\* The handler returns: one more success, which is not logged yet.
LEMMA ScriptHandlerEnds ==
    ASSUME ScriptInv, NEW r \in ScriptRequests, HandlerEnds(r)
    PROVE  ScriptInv'
<1> DEFINE n == Len(handled)
           k == KeyOf[r]
<1>1. /\ scriptPc[r] = "handler"
      /\ UNCHANGED <<scriptLog, tail, taskComplete, lost, checkedAt>>
      /\ \/ scriptPc' = [scriptPc EXCEPT ![r] = "escalated"] /\ handled' = handled
         \/ scriptPc' = [scriptPc EXCEPT ![r] = "succeeded"]
            /\ handled' = Append(handled, k)
  BY DEF HandlerEnds
<1>2. /\ k \in ScriptKeys /\ r \notin lost
      /\ n \in Nat /\ DOMAIN handled = 1..n
  BY <1>1, ScriptAssumption DEF ScriptInv, ScriptTypes, LostWithAnswer
<1>3. /\ handled' = handled \/
        (/\ DOMAIN handled' = 1..(n + 1) /\ Len(handled') = n + 1
         /\ handled'[n + 1] = k /\ \A i \in 1..n : handled'[i] = handled[i])
      /\ handled' \in Seq(ScriptKeys)
  <2>1. handled \in Seq(ScriptKeys)
    BY DEF ScriptInv, ScriptTypes
  <2> HIDE DEF k
  <2>2. handled' = handled \/ handled' = Append(handled, k)
    BY <1>1 DEF k
  <2> QED BY <1>2, <2>1, <2>2
<1>4. ScriptTypes'
  <2>1. scriptPc' \in [ScriptRequests -> Answers \union {"new", "handler", "done",
                                                      "unanswered", "turned_away"}]
    BY <1>1 DEF ScriptInv, ScriptTypes, Answers
  <2> QED BY <1>1, <1>3, <2>1 DEF ScriptInv, ScriptTypes
<1>5. LostWithAnswer' /\ LooksBack'
  BY <1>1, <1>2, <1>3 DEF ScriptInv, ScriptTypes, LostWithAnswer, LooksBack
<1>6. DuplicateIsDone'
  <2> SUFFICES ASSUME NEW q \in ScriptRequests, scriptPc'[q] = "duplicate", ~taskComplete
               PROVE  \E i \in 1..checkedAt'[q] : handled'[i] = KeyOf[q]
    BY <1>1 DEF DuplicateIsDone
  <2>1. scriptPc[q] = "duplicate"
    BY <1>1 DEF ScriptInv, ScriptTypes
  <2>2. PICK i \in 1..checkedAt[q] : handled[i] = KeyOf[q]
    BY <2>1 DEF ScriptInv, DuplicateIsDone
  <2>3. i \in 1..n
    BY <2>2, <1>2 DEF ScriptInv, LooksBack, ScriptTypes
  <2> QED BY <1>1, <1>3, <2>2, <2>3
<1>7. Balanced'
  <2>1. CASE handled' = handled /\ scriptPc' = [scriptPc EXCEPT ![r] = "escalated"]
    BY <1>1, <2>1, ScriptQuiet DEF ScriptInv, ScriptTypes
  <2>2. CASE handled' = Append(handled, k) /\ scriptPc' = [scriptPc EXCEPT ![r] = "succeeded"]
    <3>1. \A key \in ScriptKeys : Successes(key)' = Successes(key)
      BY <1>1 DEF Successes
    <3>2. /\ r \notin Unlogged(k)
          /\ Unlogged(k)' = Unlogged(k) \union {r}
          /\ \A key \in ScriptKeys \ {k} : Unlogged(key)' = Unlogged(key)
      BY <1>1, <1>2, <2>2 DEF Unlogged, ScriptInv, ScriptTypes
    <3>3. /\ DOMAIN handled' = 1..(n + 1)
          /\ handled'[n + 1] = k /\ \A i \in 1..n : handled'[i] = handled[i]
      BY <1>2, <2>2 DEF ScriptInv, ScriptTypes
    <3>4. /\ n + 1 \notin HandledOf(k)
          /\ HandledOf(k)' = HandledOf(k) \union {n + 1}
          /\ \A key \in ScriptKeys \ {k} : HandledOf(key)' = HandledOf(key)
      BY <1>2, <3>3 DEF HandledOf
    <3>5. /\ IsFiniteSet(Unlogged(k)) /\ IsFiniteSet(HandledOf(k))
          /\ IsFiniteSet(Successes(k))
          /\ Cardinality(Successes(k)) + Cardinality(Unlogged(k))
               = Cardinality(HandledOf(k))
      BY <1>2 DEF ScriptInv, Balanced
    <3>6. /\ IsFiniteSet(Unlogged(k)')
          /\ Cardinality(Unlogged(k)') = Cardinality(Unlogged(k)) + 1
      BY <3>2, <3>5, FS_AddElement
    <3>7. /\ IsFiniteSet(HandledOf(k)')
          /\ Cardinality(HandledOf(k)') = Cardinality(HandledOf(k)) + 1
      BY <3>4, <3>5, FS_AddElement
    <3>8. /\ Cardinality(Successes(k)) \in Nat /\ Cardinality(Unlogged(k)) \in Nat
      BY <3>5, FS_CardinalityType
    <3>9. \A key \in ScriptKeys \ {k} :
            /\ IsFiniteSet(Successes(key)') /\ IsFiniteSet(Unlogged(key)')
            /\ IsFiniteSet(HandledOf(key)')
            /\ Cardinality(Successes(key)') + Cardinality(Unlogged(key)')
                 = Cardinality(HandledOf(key)')
      BY <3>1, <3>2, <3>4 DEF ScriptInv, Balanced
    <3>10. Cardinality(Successes(k)') + Cardinality(Unlogged(k)')
             = Cardinality(HandledOf(k)')
      BY <1>2, <3>1, <3>5, <3>6, <3>7, <3>8
    <3> QED BY <1>2, <3>1, <3>5, <3>6, <3>7, <3>9, <3>10 DEF Balanced
  <2> QED BY <1>1, <2>1, <2>2
<1> QED BY <1>4, <1>5, <1>6, <1>7 DEF ScriptInv

\* The answer is appended, or is lost with its line.
LEMMA ScriptAppends ==
    ASSUME ScriptInv, NEW r \in ScriptRequests, Answered(r) \/ AppendTears(r)
    PROVE  ScriptInv'
<1> DEFINE n == Len(scriptLog)
           k == KeyOf[r]
           line == [key |-> KeyOf[r], status |-> scriptPc[r]]
<1>1. /\ scriptPc[r] \in Answers
      /\ \E next \in {"done", "unanswered"} : scriptPc' = [scriptPc EXCEPT ![r] = next]
      /\ tail' \in {"line", "torn"}
      /\ UNCHANGED <<taskComplete, handled, checkedAt>>
      /\ \/ /\ scriptLog' = scriptLog
            /\ lost' = IF scriptPc[r] = "succeeded" THEN lost \union {r} ELSE lost
         \/ scriptLog' = Append(scriptLog, line) /\ lost' = lost
  BY DEF Answered, AppendTears
<1>2. /\ k \in ScriptKeys /\ r \notin lost /\ line \in Line
      /\ n \in Nat /\ DOMAIN scriptLog = 1..n
  <2>1. k \in ScriptKeys /\ line \in Line
    BY <1>1, ScriptAssumption DEF Line
  <2>2. r \notin lost
    BY <1>1 DEF ScriptInv, LostWithAnswer, Answers
  <2> QED BY <2>1, <2>2 DEF ScriptInv, ScriptTypes
<1>3. ScriptTypes'
  <2>1. scriptLog' \in Seq(Line)
    <3>1. scriptLog \in Seq(Line)
      BY DEF ScriptInv, ScriptTypes
    <3> HIDE DEF line
    <3> QED BY <1>1, <1>2, <3>1
  <2> QED BY <1>1, <2>1 DEF ScriptInv, ScriptTypes, Answers
<1>4. LostWithAnswer' /\ LooksBack' /\ DuplicateIsDone'
  BY <1>1 DEF ScriptInv, ScriptTypes, LostWithAnswer, LooksBack, DuplicateIsDone
<1>5. Balanced'
  <2>1. ASSUME scriptLog' = scriptLog,
               lost' = IF scriptPc[r] = "succeeded" THEN lost \union {r} ELSE lost
        PROVE  Balanced'
    <3>1. \A q \in ScriptRequests :
             (scriptPc'[q] = "succeeded" \/ q \in lost')
                <=> (scriptPc[q] = "succeeded" \/ q \in lost)
      BY <1>1, <1>2, <2>1 DEF ScriptInv, ScriptTypes
    <3> QED BY <1>1, <2>1, <3>1, ScriptQuiet DEF ScriptInv
  <2>2. CASE scriptLog' = Append(scriptLog, line) /\ lost' = lost
    <3>1. /\ DOMAIN scriptLog' = 1..(n + 1)
          /\ scriptLog'[n + 1] = line /\ \A i \in 1..n : scriptLog'[i] = scriptLog[i]
      BY <1>2, <2>2 DEF ScriptInv, ScriptTypes
    <3>2. \A key \in ScriptKeys : HandledOf(key)' = HandledOf(key)
      BY <1>1 DEF HandledOf
    <3>3. CASE scriptPc[r] # "succeeded"
      <4>1. \A key \in ScriptKeys : Successes(key)' = Successes(key)
        BY <1>2, <3>1, <3>3 DEF Successes
      <4>2. \A key \in ScriptKeys : Unlogged(key)' = Unlogged(key)
        BY <1>1, <2>2, <3>3 DEF Unlogged, ScriptInv, ScriptTypes
      <4> QED BY <3>2, <4>1, <4>2 DEF ScriptInv, Balanced
    <3>4. CASE scriptPc[r] = "succeeded"
      <4>1. /\ n + 1 \notin Successes(k)
            /\ Successes(k)' = Successes(k) \union {n + 1}
            /\ \A key \in ScriptKeys \ {k} : Successes(key)' = Successes(key)
        BY <1>2, <3>1, <3>4 DEF Successes
      <4>2. /\ r \in Unlogged(k)
            /\ Unlogged(k)' = Unlogged(k) \ {r}
            /\ \A key \in ScriptKeys \ {k} : Unlogged(key)' = Unlogged(key)
        BY <1>1, <1>2, <2>2, <3>4 DEF Unlogged, ScriptInv, ScriptTypes
      <4>3. /\ IsFiniteSet(Unlogged(k)) /\ IsFiniteSet(HandledOf(k))
            /\ IsFiniteSet(Successes(k))
            /\ Cardinality(Successes(k)) + Cardinality(Unlogged(k))
                 = Cardinality(HandledOf(k))
        BY <1>2 DEF ScriptInv, Balanced
      <4>4. /\ IsFiniteSet(Unlogged(k)')
            /\ Cardinality(Unlogged(k)') = Cardinality(Unlogged(k)) - 1
        BY <4>2, <4>3, FS_RemoveElement
      <4>5. /\ IsFiniteSet(Successes(k)')
            /\ Cardinality(Successes(k)') = Cardinality(Successes(k)) + 1
        BY <4>1, <4>3, FS_AddElement
      <4>6. Cardinality(Successes(k)) \in Nat /\ Cardinality(Unlogged(k)) \in Nat
        BY <4>3, FS_CardinalityType
      <4>7. \A key \in ScriptKeys \ {k} :
              /\ IsFiniteSet(Successes(key)') /\ IsFiniteSet(Unlogged(key)')
              /\ IsFiniteSet(HandledOf(key)')
              /\ Cardinality(Successes(key)') + Cardinality(Unlogged(key)')
                   = Cardinality(HandledOf(key)')
        BY <3>2, <4>1, <4>2 DEF ScriptInv, Balanced
      <4>8. /\ IsFiniteSet(HandledOf(k)')
            /\ Cardinality(Successes(k)') + Cardinality(Unlogged(k)')
                 = Cardinality(HandledOf(k)')
        BY <1>2, <3>2, <4>3, <4>4, <4>5, <4>6
      <4> QED BY <1>2, <4>4, <4>5, <4>7, <4>8 DEF Balanced
    <3> QED BY <3>3, <3>4
  <2> QED BY <1>1, <2>1, <2>2
<1> QED BY <1>3, <1>4, <1>5 DEF ScriptInv

LEMMA ScriptStep == ScriptInv /\ [ScriptNext]_scriptVars => ScriptInv'
<1> SUFFICES ASSUME ScriptInv, [ScriptNext]_scriptVars PROVE ScriptInv'
  OBVIOUS
<1>1. CASE TaskCompletes \/ UNCHANGED scriptVars
  <2>1. UNCHANGED <<scriptPc, scriptLog, tail, handled, lost, checkedAt>>
        /\ (taskComplete => taskComplete') /\ taskComplete' \in BOOLEAN
    BY <1>1 DEF TaskCompletes, scriptVars, ScriptInv, ScriptTypes
  <2>2. Balanced'
    BY <2>1, ScriptQuiet DEF ScriptInv
  <2> QED BY <2>1, <2>2 DEF ScriptInv, ScriptTypes, LostWithAnswer, LooksBack,
          DuplicateIsDone
<1> QED BY <1>1, ScriptLooks, ScriptHandlerEnds, ScriptAppends DEF ScriptNext

\* For every set of requests and keys: a duplicate is answered only for work
\* that is done, and the log and what is under way or lost account for every
\* handler that returned (script_first.py).
THEOREM ScriptSafe == ScriptSpec => []ScriptHolds
<1>1. ScriptSpec => []ScriptInv
  BY ScriptInvInit, ScriptStep, PTL DEF ScriptSpec
<1>2. ScriptInv => ScriptHolds
  BY ScriptInvHolds
<1> QED BY <1>1, <1>2, PTL

\* A handler runs again only while the earlier success of its key is not in the
\* log.
THEOREM ScriptRerunOverlaps == ScriptSpec => RerunOverlaps
<1> DEFINE Reruns ==
      \A r \in ScriptRequests :
         scriptPc[r] = "new" /\ scriptPc'[r] = "handler" =>
           \A i \in DOMAIN handled : handled[i] = KeyOf[r] =>
             \E q \in ScriptRequests \ {r} :
               KeyOf[q] = KeyOf[r] /\ (scriptPc[q] = "succeeded" \/ q \in lost)
<1>1. ScriptInv /\ [ScriptNext]_scriptVars => [Reruns]_scriptVars
  <2> SUFFICES ASSUME ScriptInv, ScriptNext, NEW r \in ScriptRequests,
                      scriptPc[r] = "new", scriptPc'[r] = "handler",
                      NEW i \in DOMAIN handled, handled[i] = KeyOf[r]
               PROVE  \E q \in ScriptRequests \ {r} :
                        KeyOf[q] = KeyOf[r] /\ (scriptPc[q] = "succeeded" \/ q \in lost)
    OBVIOUS
  <2>1. Looks(r)
    BY DEF ScriptNext, TurnedAway, Looks, HandlerEnds, Answered, AppendTears,
       TaskCompletes, ScriptInv, ScriptTypes, Answers
  <2>2. ~SuccessfulRun(KeyOf[r])
    BY <2>1 DEF Looks, ScriptInv, ScriptTypes
  <2>3. Successes(KeyOf[r]) = {} /\ HandledOf(KeyOf[r]) # {}
    BY <2>2 DEF SuccessfulRun, Successes, HandledOf
  <2>4. Unlogged(KeyOf[r]) # {}
    BY <2>3, SuccessTold, ScriptAssumption DEF ScriptInv
  <2>5. r \notin Unlogged(KeyOf[r])
    BY DEF Unlogged, ScriptInv, LostWithAnswer
  <2> QED BY <2>4, <2>5 DEF Unlogged
<1>2. ScriptSpec => []ScriptInv
  BY ScriptInvInit, ScriptStep, PTL DEF ScriptSpec
<1> QED BY <1>1, <1>2, PTL DEF ScriptSpec, RerunOverlaps

-----------------------------------------------------------------------------
(* CopilotWork                                                             *)

Stored == [file : Files, by : SUBSET Dispatches]

CopilotTypes ==
    /\ request \in [Packets -> Files] /\ packetJson \in [Packets -> Files]
    /\ response \in [Packets -> Stored]
    /\ preparing \in [Packets -> {"idle", "request", "packet", "event", "done", "dead"}]
    /\ sender \in [Dispatches -> {"new", "refused", "send", "wait", "store", "fill",
                                  "log", "answered", "failed"}]
    /\ answer \in [Dispatches -> {"none", "succeeded", "failed"}]
    /\ prepared \subseteq Packets /\ dispatchedLog \subseteq Dispatches
    /\ sent \in [Packets -> SUBSET Dispatches]

\* A response is of the one dispatch that created its file.
OneCreator ==
    \A p \in Packets : response[p].by = {} \/ \E d \in Dispatches : response[p].by = {d}

\* A dispatch that was admitted, or has started the CLI, had a whole packet.
WholePackets ==
    /\ \A p \in Packets : sent[p] # {} => Loads(p)
    /\ \A d \in Dispatches : sender[d] \in {"send", "wait"} => Loads(PacketOf[d])

\* From the creation of the response to the answer, the file is this dispatch's.
OwnResponse ==
    /\ \A d \in Dispatches :
          /\ sender[d] = "fill" =>
                response[PacketOf[d]] = [file |-> "empty", by |-> {d}]
          /\ sender[d] \in {"log", "answered"} =>
                response[PacketOf[d]] = [file |-> "written", by |-> {d}]
    /\ \A d \in dispatchedLog : sender[d] = "answered"

CopilotInv == CopilotTypes /\ OneCreator /\ WholePackets /\ OwnResponse

LEMMA ResponseRecord ==
    ASSUME NEW d, NEW empty, empty = [file |-> "empty", by |-> {d}]
    PROVE  /\ [empty EXCEPT !.file = "written"] = [file |-> "written", by |-> {d}]
           /\ empty.by = {d} /\ empty.file = "empty"
OBVIOUS

LEMMA CopilotInvHolds ==
    ASSUME CopilotInv
    PROVE  CopilotHolds
<1>1. \A p \in Packets : Cardinality(response[p].by) <= 1
  <2> SUFFICES ASSUME NEW p \in Packets PROVE Cardinality(response[p].by) <= 1
    OBVIOUS
  <2>1. CASE response[p].by = {}
    BY <2>1, FS_EmptySet
  <2>2. ASSUME NEW d \in Dispatches, response[p].by = {d}
        PROVE  Cardinality(response[p].by) <= 1
    <3>1. Cardinality({d}) = 1
      BY FS_Singleton
    <3> QED BY <2>2, <3>1
  <2> QED BY <2>1, <2>2 DEF CopilotInv, OneCreator
<1>2. CopilotTypeOK
  BY <1>1 DEF CopilotInv, CopilotTypes, CopilotTypeOK, Stored
<1>3. \A d, e \in dispatchedLog : PacketOf[d] = PacketOf[e] => d = e
  <2> SUFFICES ASSUME NEW d \in dispatchedLog, NEW e \in dispatchedLog,
                      PacketOf[d] = PacketOf[e]
               PROVE  d = e
    OBVIOUS
  <2>1. d \in Dispatches /\ e \in Dispatches
    BY DEF CopilotInv, CopilotTypes
  <2>2. /\ response[PacketOf[d]] = [file |-> "written", by |-> {d}]
        /\ response[PacketOf[e]] = [file |-> "written", by |-> {e}]
    BY <2>1 DEF CopilotInv, OwnResponse
  <2>3. {d} = {e}
    BY <2>2
  <2> QED BY <2>3
<1> QED BY <1>2, <1>3 DEF CopilotInv, WholePackets, OwnResponse, CopilotHolds,
        OnlyWholePacketsSent, AnswerIsStored

LEMMA CopilotInvInit == CopilotInit => CopilotInv
BY DEF CopilotInit, CopilotInv, CopilotTypes, OneCreator, WholePackets, OwnResponse,
   Stored, NoResponse, Files, NoFile

\* The steps of prepare; what was written stays written.
LEMMA CopilotPrepares ==
    ASSUME CopilotInv, NEW p \in Packets,
           MakesDirectory(p) \/ WritesRequest(p) \/ WritesPacket(p) \/ LogsPrepared(p)
    PROVE  CopilotInv'
<1>1. UNCHANGED <<response, sender, answer, dispatchedLog, copilotCrashes, sent>>
  BY DEF MakesDirectory, WritesRequest, WritesPacket, LogsPrepared, PrepareStep
<1>2. CopilotTypes'
  BY <1>1 DEF MakesDirectory, WritesRequest, WritesPacket, LogsPrepared, PrepareStep,
     CopilotInv, CopilotTypes, Files
<1>3. \A o \in Packets : Loads(o) => Loads(o)'
  BY DEF MakesDirectory, WritesRequest, WritesPacket, LogsPrepared, PrepareStep,
     CopilotInv, CopilotTypes, Loads, NoFile
<1>4. WholePackets'
  BY <1>1, <1>3, CopilotAssumption DEF CopilotInv, WholePackets
<1>5. OneCreator' /\ OwnResponse'
  BY <1>1 DEF CopilotInv, OneCreator, OwnResponse
<1> QED BY <1>2, <1>4, <1>5 DEF CopilotInv

\* The steps of dispatch.
LEMMA CopilotDispatches ==
    ASSUME CopilotInv, NEW d \in Dispatches,
           \/ Refused(d) \/ Admitted(d) \/ Sends(d) \/ CannotStart(d) \/ Responds(d)
           \/ Creates(d) \/ CannotCreate(d) \/ Fills(d) \/ LogsDispatched(d)
    PROVE  CopilotInv'
<1> DEFINE p == PacketOf[d]
<1> USE DEF DispatchStep
<1>1. p \in Packets /\ UNCHANGED <<preparing, request, packetJson, prepared>>
  BY CopilotAssumption DEF Refused, Admitted, Sends, CannotStart, Responds, Creates,
     CannotCreate, Fills, LogsDispatched
<1>2. \/ UNCHANGED response
      \/ /\ response[p].file = NoFile
         /\ response' = [response EXCEPT ![p] = [file |-> "empty", by |-> {d}]]
         /\ sender' = [sender EXCEPT ![d] = "fill"]
      \/ /\ response[p] = [file |-> "empty", by |-> {d}]
         /\ response' = [response EXCEPT ![p].file = "written"]
         /\ sender[d] = "fill"
         /\ sender' = [sender EXCEPT ![d] = "log"]
  BY DEF Refused, Admitted, Sends, CannotStart, Responds, Creates, CannotCreate,
     Fills, LogsDispatched, CopilotInv, OwnResponse
<1>3. /\ response' \in [Packets -> Stored]
      /\ \A o \in Packets : \/ response'[o] = response[o]
                            \/ o = p /\ response'[o].by = {d}
      /\ response' = response \/ response'[p] = [file |-> "empty", by |-> {d}]
                              \/ response'[p] = [file |-> "written", by |-> {d}]
  <2>1. [file |-> "empty", by |-> {d}] \in Stored
        /\ [file |-> "written", by |-> {d}] \in Stored
    BY DEF Stored, Files
  <2>2. CASE response[p] = [file |-> "empty", by |-> {d}]
             /\ response' = [response EXCEPT ![p].file = "written"]
    <3>1. response' = [response EXCEPT ![p] = [file |-> "written", by |-> {d}]]
      BY <1>1, <2>2, ResponseRecord DEF CopilotInv, CopilotTypes
    <3> QED BY <1>1, <2>1, <3>1 DEF CopilotInv, CopilotTypes
  <2> QED BY <1>1, <1>2, <2>1, <2>2 DEF CopilotInv, CopilotTypes
<1>4. CopilotTypes'
  <2>1. sender' \in [Dispatches -> {"new", "refused", "send", "wait", "store", "fill",
                                    "log", "answered", "failed"}]
        /\ answer' \in [Dispatches -> {"none", "succeeded", "failed"}]
    BY DEF Refused, Admitted, Sends, CannotStart, Responds, Creates, CannotCreate,
       Fills, LogsDispatched, CopilotInv, CopilotTypes
  <2>2. dispatchedLog' \subseteq Dispatches /\ sent' \in [Packets -> SUBSET Dispatches]
    BY <1>1 DEF Refused, Admitted, Sends, CannotStart, Responds, Creates, CannotCreate,
       Fills, LogsDispatched, CopilotInv, CopilotTypes
  <2> QED BY <1>1, <1>3, <2>1, <2>2 DEF CopilotInv, CopilotTypes
<1>5. OneCreator'
  BY <1>3 DEF CopilotInv, OneCreator
<1>6. WholePackets'
  <2>1. \A o \in Packets : Loads(o)' = Loads(o)
    BY <1>1 DEF Loads
  <2>2. sender'[d] \in {"send", "wait"} => Loads(p)
    BY CopilotAssumption DEF Refused, Admitted, Sends, CannotStart, Responds, Creates,
       CannotCreate, Fills, LogsDispatched, CopilotInv, CopilotTypes, WholePackets
  <2>3. sent' = sent \/ (sent' = [sent EXCEPT ![p] = @ \union {d}] /\ Loads(p))
    BY DEF Refused, Admitted, Sends, CannotStart, Responds, Creates,
       CannotCreate, Fills, LogsDispatched, CopilotInv, WholePackets
  <2>4. \A q \in Dispatches \ {d} : sender'[q] = sender[q]
    BY DEF Refused, Admitted, Sends, CannotStart, Responds, Creates,
       CannotCreate, Fills, LogsDispatched, CopilotInv, CopilotTypes
  <2> QED BY <1>1, <2>1, <2>2, <2>3, <2>4, CopilotAssumption
          DEF CopilotInv, CopilotTypes, WholePackets
<1>7. OwnResponse'
  <2>1. \A q \in Dispatches \ {d} : sender'[q] = sender[q]
    BY DEF Refused, Admitted, Sends, CannotStart, Responds, Creates,
       CannotCreate, Fills, LogsDispatched, CopilotInv, CopilotTypes
  <2>2. ASSUME NEW q \in Dispatches \ {d},
               sender[q] \in {"fill", "log", "answered"}
        PROVE  response'[PacketOf[q]] = response[PacketOf[q]]
    <3>1. response[PacketOf[q]].by = {q} /\ response[PacketOf[q]].file # NoFile
      <4>1. CASE sender[q] = "fill"
        BY <4>1, ResponseRecord DEF CopilotInv, OwnResponse, NoFile
      <4>2. CASE sender[q] \in {"log", "answered"}
        <5>1. response[PacketOf[q]] = [file |-> "written", by |-> {q}]
          BY <4>2 DEF CopilotInv, OwnResponse
        <5> QED BY <5>1 DEF NoFile
      <4> QED BY <2>2, <4>1, <4>2
    <3>2. CASE response' = response
      BY <3>2
    <3>3. CASE response' # response
      <4>1. PacketOf[q] # p
        BY <1>2, <3>1, <3>3
      <4> QED BY <4>1, <1>3, CopilotAssumption
    <3> QED BY <3>2, <3>3
  <2>3. /\ sender'[d] = "fill" => response'[p] = [file |-> "empty", by |-> {d}]
        /\ sender'[d] \in {"log", "answered"} =>
              response'[p] = [file |-> "written", by |-> {d}]
    <3>1. CASE Creates(d)
      BY <1>1, <3>1 DEF Creates, CopilotInv, CopilotTypes
    <3>2. CASE Fills(d)
      <4>1. response[p] = [file |-> "empty", by |-> {d}]
        BY <3>2 DEF Fills, CopilotInv, OwnResponse
      <4>2. response'[p] = [response[p] EXCEPT !.file = "written"]
        BY <1>1, <3>2 DEF Fills, CopilotInv, CopilotTypes
      <4>3. response'[p] = [file |-> "written", by |-> {d}]
        BY <4>1, <4>2, ResponseRecord
      <4>4. sender'[d] = "log"
        BY <3>2 DEF Fills, CopilotInv, CopilotTypes
      <4> QED BY <4>3, <4>4
    <3>3. CASE LogsDispatched(d)
      BY <3>3 DEF LogsDispatched, CopilotInv, CopilotTypes, OwnResponse
    <3> QED BY <3>1, <3>2, <3>3 DEF Refused, Admitted, Sends, CannotStart, Responds,
            CannotCreate, CopilotInv, CopilotTypes
  <2>4. \A q \in dispatchedLog' : sender'[q] = "answered"
    BY DEF Refused, Admitted, Sends, CannotStart, Responds, Creates, CannotCreate,
       Fills, LogsDispatched, CopilotInv, CopilotTypes, OwnResponse
  <2> QED BY <2>1, <2>2, <2>3, <2>4 DEF CopilotInv, OwnResponse
<1> QED BY <1>4, <1>5, <1>6, <1>7 DEF CopilotInv

LEMMA CopilotStep == CopilotInv /\ [CopilotNext]_copilotVars => CopilotInv'
<1> SUFFICES ASSUME CopilotInv, [CopilotNext]_copilotVars PROVE CopilotInv'
  OBVIOUS
<1>1. CASE ControllerDies
  <2>1. UNCHANGED <<request, packetJson, response, answer, prepared, dispatchedLog, sent>>
        /\ \A q \in Dispatches : /\ sender'[q] \in {sender[q], "failed"}
                                 /\ sender[q] = "answered" => sender'[q] = "answered"
    BY <1>1 DEF ControllerDies, Gone, CopilotInv, CopilotTypes
  <2>2. CopilotTypes'
    BY <1>1 DEF ControllerDies, CopilotInv, CopilotTypes
  <2>3. OneCreator' /\ WholePackets'
    BY <2>1 DEF CopilotInv, OneCreator, WholePackets, Loads
  <2>4. OwnResponse'
    BY <2>1 DEF CopilotInv, CopilotTypes, OwnResponse
  <2> QED BY <2>2, <2>3, <2>4 DEF CopilotInv
<1>2. CASE UNCHANGED copilotVars
  BY <1>2 DEF copilotVars, CopilotInv, CopilotTypes, OneCreator, WholePackets, Loads,
     OwnResponse
<1> QED BY <1>1, <1>2, CopilotPrepares, CopilotDispatches DEF CopilotNext

\* For every set of packets and dispatches and any number of crashes: the CLI is
\* given whole packets only, and a caller that was answered finds its own
\* response stored, alone in the log (copilot_offload.py).
THEOREM CopilotSafe == CopilotSpec => []CopilotHolds
<1>1. CopilotSpec => []CopilotInv
  BY CopilotInvInit, CopilotStep, PTL DEF CopilotSpec
<1>2. CopilotInv => CopilotHolds
  BY CopilotInvHolds
<1> QED BY <1>1, <1>2, PTL

-----------------------------------------------------------------------------
(* ProcessingRuns                                                          *)

RunPlaces == {"lookup", "save", "model_lookup", "provider", "save_model",
              "answered", "failed"}
Task == [status : TaskStatuses \union {"absent"}, source : SUBSET RunRequests]
TaskEvent == [title : Titles, previous : TaskStatuses, new : TaskStatuses]

ProcessingTypes ==
    /\ runPc \in [RunRequests -> RunPlaces]
    /\ plan \in [RunRequests -> SUBSET RunRequests] /\ usage \subseteq RunRequests
    /\ storedRun \in [Inputs -> SUBSET RunRequests]
    /\ task \in [Titles -> Task]
    /\ \A t \in Titles : task[t].status = "absent" => task[t].source = {}
    /\ taskEvents \in Seq(TaskEvent)
    /\ modelRun \in [RunRequests -> SUBSET RunRequests]
    /\ modelAnswer \in [RunRequests -> SUBSET RunRequests]
    /\ spent \in Nat

\* A request knows its run only behind the lookup or the save, and then there
\* is exactly one; it has a model's answer only when it is answered.
Planned ==
    \A r \in RunRequests :
        /\ runPc[r] \in {"lookup", "save"} => plan[r] = {}
        /\ runPc[r] \in {"model_lookup", "provider", "save_model"} =>
             \E x \in RunRequests : plan[r] = {x}
        /\ modelAnswer[r] # {} => /\ runPc[r] \in {"answered", "failed"}
                                  /\ \E x \in RunRequests : plan[r] = {x}

OneRun == \A i \in Inputs : storedRun[i] = {} \/ \E x \in RunRequests : storedRun[i] = {x}

\* A task that the project does not have was never updated.
AbsentUntouched ==
    \A t \in Titles :
        task[t].status = "absent" => \A k \in DOMAIN taskEvents : taskEvents[k].title # t

\* The model runs, and those whose answer was paid for and is not stored yet.
ModelRuns == UNION {modelRun[r] : r \in RunRequests}
PaidFor == ModelRuns \union {r \in RunRequests : runPc[r] = "save_model"}
Paid == IsFiniteSet(PaidFor) /\ Tokens * Cardinality(PaidFor) <= spent

ProcessingInv ==
    /\ ProcessingTypes /\ Planned /\ OneRun /\ AbsentUntouched
    /\ AnswersAgree /\ WorkspaceIsOfStoredRuns /\ TaskEventsReplay /\ Paid

\* A task is absent when its status says so.
LEMMA TaskIsThere ==
    ASSUME ProcessingTypes, NEW t \in Titles
    PROVE  task[t] # NoTask <=> task[t].status # "absent"
<1>1. task[t] \in Task /\ (task[t].status = "absent" => task[t].source = {})
  BY DEF ProcessingTypes
<1> QED BY <1>1 DEF Task, NoTask

LEMMA TimesMonotone ==
    ASSUME NEW a \in Nat, NEW b \in Nat, NEW c \in Nat, b <= c
    PROVE  a * b <= a * c
OBVIOUS

LEMMA TimesOneMore ==
    ASSUME NEW a \in Nat, NEW b \in Nat
    PROVE  a * (b + 1) = a * b + a
OBVIOUS

\* Fewer model runs cost no more.
LEMMA PaidShrinks ==
    ASSUME Paid, PaidFor' \subseteq PaidFor, spent' = spent, spent \in Nat
    PROVE  Paid'
<1>1. /\ IsFiniteSet(PaidFor') /\ Cardinality(PaidFor') <= Cardinality(PaidFor)
  BY FS_Subset DEF Paid
<1>2. Cardinality(PaidFor') \in Nat /\ Cardinality(PaidFor) \in Nat /\ Tokens \in Nat
  BY <1>1, FS_CardinalityType, ProcessingAssumption DEF Paid
<1>3. Tokens * Cardinality(PaidFor') <= Tokens * Cardinality(PaidFor)
  BY <1>1, <1>2, TimesMonotone
<1>4. Tokens * Cardinality(PaidFor') \in Nat /\ Tokens * Cardinality(PaidFor) \in Nat
  BY <1>2
<1>5. Tokens * Cardinality(PaidFor) <= spent
  BY DEF Paid
<1>6. Tokens * Cardinality(PaidFor') <= spent'
  BY <1>3, <1>4, <1>5
<1> QED BY <1>1, <1>6 DEF Paid

LEMMA ProcessingInvHolds ==
    ASSUME ProcessingInv
    PROVE  ProcessingHolds
<1>1. ProcessingTypeOK
  <2>1. \A t \in Titles : task[t] = NoTask \/ task[t].status \in TaskStatuses
    BY TaskIsThere DEF ProcessingInv, ProcessingTypes, Task
  <2> QED BY <2>1 DEF ProcessingInv, ProcessingTypes, ProcessingTypeOK, RunPlaces
<1>2. CountedWereSpent
  <2>1. IsFiniteSet(ModelRuns) /\ Cardinality(ModelRuns) <= Cardinality(PaidFor)
    BY FS_Subset DEF ProcessingInv, Paid, PaidFor
  <2>2. Cardinality(ModelRuns) \in Nat /\ Cardinality(PaidFor) \in Nat /\ Tokens \in Nat
    BY <2>1, FS_CardinalityType, ProcessingAssumption DEF ProcessingInv, Paid
  <2>3. Tokens * Cardinality(ModelRuns) <= Tokens * Cardinality(PaidFor)
    BY <2>1, <2>2, TimesMonotone
  <2>4. Tokens * Cardinality(PaidFor) <= spent /\ spent \in Nat
    BY DEF ProcessingInv, Paid, ProcessingTypes
  <2>5. Tokens * Cardinality(ModelRuns) \in Nat /\ Tokens * Cardinality(PaidFor) \in Nat
    BY <2>2
  <2>6. Tokens * Cardinality(ModelRuns) <= spent
    BY <2>3, <2>4, <2>5
  <2> QED BY <2>6 DEF CountedWereSpent, ModelRuns
<1> QED BY <1>1, <1>2 DEF ProcessingInv, ProcessingHolds

LEMMA ProcessingInvInit == ProcessingInit => ProcessingInv
<1> SUFFICES ASSUME ProcessingInit PROVE ProcessingInv
  OBVIOUS
<1>1. /\ \A r \in RunRequests : runPc[r] = "lookup" /\ plan[r] = {} /\ modelRun[r] = {}
                                /\ modelAnswer[r] = {}
      /\ \A i \in Inputs : storedRun[i] = {}
      /\ \A t \in Titles : task[t] = NoTask
  BY DEF ProcessingInit
<1>2. \A t \in Titles : task[t].status = "absent" /\ task[t].source = {}
  BY <1>1 DEF NoTask
<1>3. taskEvents \in Seq(TaskEvent) /\ taskEvents = <<>>
  BY DEF ProcessingInit
<1>4. ProcessingTypes
  <2>1. NoTask \in Task
    BY DEF NoTask, Task
  <2>2. /\ runPc \in [RunRequests -> RunPlaces]
        /\ plan \in [RunRequests -> SUBSET RunRequests] /\ usage \subseteq RunRequests
        /\ storedRun \in [Inputs -> SUBSET RunRequests]
        /\ task \in [Titles -> Task]
        /\ modelRun \in [RunRequests -> SUBSET RunRequests]
        /\ modelAnswer \in [RunRequests -> SUBSET RunRequests]
    BY <2>1 DEF ProcessingInit, RunPlaces
  <2>3. spent \in Nat
    BY DEF ProcessingInit
  <2> QED BY <1>2, <1>3, <2>2, <2>3 DEF ProcessingTypes
<1>5. Planned /\ OneRun /\ AnswersAgree
  BY <1>1 DEF Planned, OneRun, AnswersAgree
<1>6. AbsentUntouched
  BY <1>3 DEF AbsentUntouched
<1>7. WorkspaceIsOfStoredRuns
  <2>1. StoredRuns = {} /\ usage = {}
    BY <1>1 DEF StoredRuns, ProcessingInit
  <2> QED BY <1>1, <1>2, <2>1 DEF WorkspaceIsOfStoredRuns
<1>8. TaskEventsReplay
  BY <1>1 DEF TaskEventsReplay
<1>9. Paid
  <2>1. PaidFor = {}
    BY <1>1 DEF PaidFor, ModelRuns
  <2>2. Tokens \in Nat /\ spent = 0
    BY ProcessingAssumption DEF ProcessingInit
  <2>3. IsFiniteSet(PaidFor) /\ Cardinality(PaidFor) = 0
    BY <2>1, FS_EmptySet
  <2>4. Tokens * 0 = 0
    BY <2>2
  <2> QED BY <2>2, <2>3, <2>4 DEF Paid
<1> QED BY <1>4, <1>5, <1>6, <1>7, <1>8, <1>9 DEF ProcessingInv

\* Steps that store nothing: a request moves, and its plan may become known.
LEMMA ProcessingMoves ==
    ASSUME ProcessingInv,
           UNCHANGED <<storedRun, usage, task, taskEvents, modelRun, modelAnswer, spent>>,
           runPc' \in [RunRequests -> RunPlaces],
           plan' \in [RunRequests -> SUBSET RunRequests],
           \A r \in RunRequests :
              /\ runPc[r] \in {"answered", "failed"} => runPc'[r] \in {"answered", "failed"}
              /\ runPc'[r] = "save_model" => runPc[r] = "save_model"
              /\ runPc'[r] \in {"lookup", "save"} => plan'[r] = {}
              /\ runPc'[r] \in {"model_lookup", "provider", "save_model"} =>
                    \E x \in RunRequests : plan'[r] = {x}
              /\ plan'[r] = plan[r] \/ (plan'[r] = storedRun[InputOf[r]] /\ modelAnswer[r] = {})
    PROVE  ProcessingInv'
<1>1. ProcessingTypes' /\ Planned'
  BY DEF ProcessingInv, ProcessingTypes, Planned
<1>2. OneRun' /\ AbsentUntouched' /\ WorkspaceIsOfStoredRuns'
  BY DEF ProcessingInv, OneRun, AbsentUntouched, WorkspaceIsOfStoredRuns, StoredRuns
<1>3. AnswersAgree'
  BY DEF ProcessingInv, AnswersAgree, LocalRun
<1>4. TaskEventsReplay'
  BY DEF ProcessingInv, TaskEventsReplay, ReplayedTo
<1>5. Paid'
  <2>1. PaidFor' \subseteq PaidFor
    BY DEF PaidFor, ModelRuns
  <2> QED BY <2>1, PaidShrinks DEF ProcessingInv, ProcessingTypes
<1> QED BY <1>1, <1>2, <1>3, <1>4, <1>5 DEF ProcessingInv

LEMMA ProcessingLookups ==
    ASSUME ProcessingInv, NEW r \in RunRequests, FindsRun(r) \/ PlansRun(r)
    PROVE  ProcessingInv'
<1>1. /\ UNCHANGED <<storedRun, usage, task, taskEvents, modelRun, modelAnswer, spent>>
      /\ runPc[r] = "lookup"
      /\ \/ /\ storedRun[InputOf[r]] # {}
            /\ runPc' = [runPc EXCEPT ![r] = AfterPlan(r)]
            /\ plan' = [plan EXCEPT ![r] = storedRun[InputOf[r]]]
         \/ runPc' = [runPc EXCEPT ![r] = "save"] /\ plan' = plan
  BY DEF FindsRun, PlansRun, RunStep
<1>2. AfterPlan(r) \in {"model_lookup", "answered"}
  BY DEF AfterPlan
<1>3. InputOf[r] \in Inputs
  BY ProcessingAssumption
<1>4. /\ runPc' \in [RunRequests -> RunPlaces]
      /\ plan' \in [RunRequests -> SUBSET RunRequests]
  BY <1>1, <1>2, <1>3 DEF ProcessingInv, ProcessingTypes, RunPlaces
<1>5. storedRun[InputOf[r]] # {} => \E x \in RunRequests : storedRun[InputOf[r]] = {x}
  BY <1>3 DEF ProcessingInv, OneRun
<1>6. modelAnswer[r] = {}
  BY <1>1 DEF ProcessingInv, Planned
<1>7. \A q \in RunRequests :
        /\ runPc[q] \in {"answered", "failed"} => runPc'[q] \in {"answered", "failed"}
        /\ runPc'[q] = "save_model" => runPc[q] = "save_model"
        /\ runPc'[q] \in {"lookup", "save"} => plan'[q] = {}
        /\ runPc'[q] \in {"model_lookup", "provider", "save_model"} =>
              \E x \in RunRequests : plan'[q] = {x}
        /\ plan'[q] = plan[q] \/ (plan'[q] = storedRun[InputOf[q]] /\ modelAnswer[q] = {})
  <2> TAKE q \in RunRequests
  <2>1. CASE q # r
    <3>1. runPc'[q] = runPc[q] /\ plan'[q] = plan[q]
      BY <1>1, <2>1 DEF ProcessingInv, ProcessingTypes
    <3>2. /\ runPc[q] \in {"lookup", "save"} => plan[q] = {}
          /\ runPc[q] \in {"model_lookup", "provider", "save_model"} =>
               \E x \in RunRequests : plan[q] = {x}
      BY DEF ProcessingInv, Planned
    <3> QED BY <3>1, <3>2
  <2>2. CASE q = r
    <3>1. runPc[r] = "lookup" /\ plan[r] = {}
      BY <1>1 DEF ProcessingInv, Planned
    <3>2. ASSUME storedRun[InputOf[r]] # {}, runPc' = [runPc EXCEPT ![r] = AfterPlan(r)],
                 plan' = [plan EXCEPT ![r] = storedRun[InputOf[r]]]
          PROVE  /\ runPc'[r] \in {"model_lookup", "answered"}
                 /\ plan'[r] = storedRun[InputOf[r]]
      BY <1>2, <3>2 DEF ProcessingInv, ProcessingTypes
    <3>3. ASSUME runPc' = [runPc EXCEPT ![r] = "save"], plan' = plan
          PROVE  runPc'[r] = "save" /\ plan'[r] = {}
      BY <3>1, <3>3 DEF ProcessingInv, ProcessingTypes
    <3> QED BY <1>1, <1>5, <1>6, <2>2, <3>1, <3>2, <3>3
  <2> QED BY <2>1, <2>2
<1> QED BY <1>1, <1>4, <1>7, ProcessingMoves

LEMMA ProcessingGoesOn ==
    ASSUME ProcessingInv,
           (\E r \in RunRequests : CallsProvider(r) \/ ProviderFails(r)) \/ RequestsDie
    PROVE  ProcessingInv'
<1>1. UNCHANGED <<plan, storedRun, usage, task, taskEvents, modelRun, modelAnswer, spent>>
  BY DEF CallsProvider, ProviderFails, RequestsDie
<1>2. /\ runPc' \in [RunRequests -> RunPlaces]
      /\ \A q \in RunRequests :
            \/ runPc'[q] = runPc[q]
            \/ runPc'[q] = "failed"
            \/ runPc[q] = "model_lookup" /\ runPc'[q] = "provider"
  <2>1. ASSUME NEW r \in RunRequests, CallsProvider(r) \/ ProviderFails(r)
        PROVE  /\ runPc' \in [RunRequests -> RunPlaces]
               /\ \A q \in RunRequests :
                     \/ runPc'[q] = runPc[q]
                     \/ runPc'[q] = "failed"
                     \/ runPc[q] = "model_lookup" /\ runPc'[q] = "provider"
    <3>1. \/ runPc[r] = "model_lookup" /\ runPc' = [runPc EXCEPT ![r] = "provider"]
          \/ runPc' = [runPc EXCEPT ![r] = "failed"]
      BY <2>1 DEF CallsProvider, ProviderFails, RunStep
    <3> QED BY <3>1 DEF RunPlaces, ProcessingInv, ProcessingTypes
  <2>2. ASSUME RequestsDie
        PROVE  /\ runPc' \in [RunRequests -> RunPlaces]
               /\ \A q \in RunRequests : runPc'[q] = runPc[q] \/ runPc'[q] = "failed"
    BY <2>2 DEF RequestsDie, RunPlaces, ProcessingInv, ProcessingTypes
  <2> QED BY <2>1, <2>2
<1>3. \A q \in RunRequests :
        /\ runPc[q] \in {"answered", "failed"} => runPc'[q] \in {"answered", "failed"}
        /\ runPc'[q] = "save_model" => runPc[q] = "save_model"
        /\ runPc'[q] \in {"lookup", "save"} => plan'[q] = {}
        /\ runPc'[q] \in {"model_lookup", "provider", "save_model"} =>
              \E x \in RunRequests : plan'[q] = {x}
        /\ plan'[q] = plan[q] \/ (plan'[q] = storedRun[InputOf[q]] /\ modelAnswer[q] = {})
  <2> TAKE q \in RunRequests
  <2>1. /\ runPc[q] \in {"lookup", "save"} => plan[q] = {}
        /\ runPc[q] \in {"model_lookup", "provider", "save_model"} =>
             \E x \in RunRequests : plan[q] = {x}
    BY DEF ProcessingInv, Planned
  <2>2. plan'[q] = plan[q]
    BY <1>1
  <2> QED BY <1>2, <2>1, <2>2
<1> QED BY <1>1, <1>2, <1>3, ProcessingMoves DEF ProcessingInv, ProcessingTypes

\* The provider is paid.
LEMMA ProcessingPays ==
    ASSUME ProcessingInv, NEW r \in RunRequests, ProviderAnswers(r)
    PROVE  ProcessingInv'
<1>1. /\ UNCHANGED <<plan, storedRun, usage, task, taskEvents, modelRun, modelAnswer>>
      /\ runPc[r] = "provider" /\ runPc' = [runPc EXCEPT ![r] = "save_model"]
      /\ spent' = spent + Tokens
  BY DEF ProviderAnswers, RunStep
<1>2. Tokens \in Nat /\ spent \in Nat
  BY ProcessingAssumption DEF ProcessingInv, ProcessingTypes
<1>3. ProcessingTypes' /\ Planned'
  <2>1. runPc' \in [RunRequests -> RunPlaces] /\ spent' \in Nat
    BY <1>1, <1>2 DEF ProcessingInv, ProcessingTypes, RunPlaces
  <2>2. ProcessingTypes'
    BY <1>1, <2>1 DEF ProcessingInv, ProcessingTypes
  <2>3. Planned'
    BY <1>1 DEF ProcessingInv, ProcessingTypes, Planned
  <2> QED BY <2>2, <2>3
<1>4. OneRun' /\ AbsentUntouched' /\ WorkspaceIsOfStoredRuns' /\ AnswersAgree'
      /\ TaskEventsReplay'
  <2>1. OneRun' /\ AbsentUntouched' /\ WorkspaceIsOfStoredRuns'
    BY <1>1 DEF ProcessingInv, OneRun, AbsentUntouched, WorkspaceIsOfStoredRuns, StoredRuns
  <2>2. AnswersAgree'
    BY <1>1 DEF ProcessingInv, AnswersAgree, LocalRun
  <2>3. TaskEventsReplay'
    BY <1>1 DEF ProcessingInv, TaskEventsReplay, ReplayedTo
  <2> QED BY <2>1, <2>2, <2>3
<1>5. Paid'
  <2>1. PaidFor' = PaidFor \union {r}
    BY <1>1 DEF PaidFor, ModelRuns, ProcessingInv, ProcessingTypes
  <2>2. IsFiniteSet(PaidFor) /\ Tokens * Cardinality(PaidFor) <= spent
    BY DEF ProcessingInv, Paid
  <2>3. /\ IsFiniteSet(PaidFor')
        /\ \/ Cardinality(PaidFor') = Cardinality(PaidFor)
           \/ Cardinality(PaidFor') = Cardinality(PaidFor) + 1
    BY <2>1, <2>2, FS_AddElement
  <2>4. Cardinality(PaidFor) \in Nat
    BY <2>2, FS_CardinalityType
  <2>5. Tokens * (Cardinality(PaidFor) + 1) = Tokens * Cardinality(PaidFor) + Tokens
    BY <1>2, <2>4, TimesOneMore
  <2>6. Tokens * Cardinality(PaidFor) \in Nat
    BY <1>2, <2>4
  <2>7. Tokens * Cardinality(PaidFor') <= spent'
    BY <1>1, <1>2, <2>2, <2>3, <2>5, <2>6
  <2> QED BY <2>3, <2>7 DEF Paid
<1> QED BY <1>3, <1>4, <1>5 DEF ProcessingInv

\* The model's answer is looked up, or stored.
LEMMA ProcessingModelAnswers ==
    ASSUME ProcessingInv, NEW r \in RunRequests, FindsModelRun(r) \/ SaveModelRun(r)
    PROVE  ProcessingInv'
<1> DEFINE l == LocalRun(r)
<1>1. /\ UNCHANGED <<plan, storedRun, usage, task, taskEvents, spent>>
      /\ runPc[r] \in {"model_lookup", "save_model"}
      /\ runPc' = [runPc EXCEPT ![r] = "answered"]
      /\ modelAnswer' = [modelAnswer EXCEPT ![r] = modelRun'[l]]
      /\ \/ modelRun' = modelRun
         \/ runPc[r] = "save_model"
            /\ modelRun' = [modelRun EXCEPT ![l] = IF @ = {} THEN {r} ELSE @]
  BY DEF FindsModelRun, SaveModelRun, RunStep
<1>2. l \in RunRequests /\ plan[r] = {l}
  BY <1>1 DEF ProcessingInv, Planned, LocalRun
<1> HIDE DEF l
<1>3. /\ modelRun' \in [RunRequests -> SUBSET RunRequests]
      /\ \A x \in RunRequests : modelRun[x] # {} => modelRun'[x] = modelRun[x]
      /\ \A x \in RunRequests : modelRun'[x] \subseteq modelRun[x] \union {r}
      /\ runPc[r] # "save_model" => modelRun' = modelRun
  BY <1>1, <1>2 DEF ProcessingInv, ProcessingTypes
<1>4. ProcessingTypes'
  <2>1. modelRun'[l] \subseteq RunRequests
    BY <1>2, <1>3
  <2>2. modelAnswer' \in [RunRequests -> SUBSET RunRequests]
    BY <1>1, <2>1 DEF ProcessingInv, ProcessingTypes
  <2>3. runPc' \in [RunRequests -> RunPlaces]
    BY <1>1 DEF ProcessingInv, ProcessingTypes, RunPlaces
  <2> QED BY <1>1, <1>3, <2>2, <2>3 DEF ProcessingInv, ProcessingTypes
<1>5. Planned'
  BY <1>1 DEF ProcessingInv, ProcessingTypes, Planned
<1>6. OneRun' /\ AbsentUntouched' /\ WorkspaceIsOfStoredRuns' /\ TaskEventsReplay'
  BY <1>1 DEF ProcessingInv, OneRun, AbsentUntouched, WorkspaceIsOfStoredRuns, StoredRuns,
     TaskEventsReplay, ReplayedTo
<1>7. AnswersAgree'
  <2> SUFFICES ASSUME NEW q \in RunRequests
               PROVE  /\ plan'[q] # {} => plan'[q] = storedRun'[InputOf[q]]
                      /\ modelAnswer'[q] # {} => modelAnswer'[q] = modelRun'[LocalRun(q)']
    BY DEF AnswersAgree
  <2>1. LocalRun(q)' = LocalRun(q)
    BY <1>1 DEF LocalRun
  <2>2. plan'[q] # {} => plan'[q] = storedRun'[InputOf[q]]
    BY <1>1 DEF ProcessingInv, AnswersAgree
  <2>3. CASE q = r
    BY <1>1, <2>1, <2>2, <2>3 DEF l, ProcessingInv, ProcessingTypes
  <2>4. CASE q # r
    <3>1. modelAnswer'[q] = modelAnswer[q]
      BY <1>1, <2>4 DEF ProcessingInv, ProcessingTypes
    <3>2. modelAnswer[q] # {} => modelAnswer[q] = modelRun[LocalRun(q)]
      BY DEF ProcessingInv, AnswersAgree
    <3>3. modelAnswer[q] # {} => LocalRun(q) \in RunRequests
      BY DEF ProcessingInv, Planned, LocalRun
    <3> QED BY <1>3, <2>1, <2>2, <3>1, <3>2, <3>3
  <2> QED BY <2>3, <2>4
<1>8. Paid'
  <2>1. PaidFor' \subseteq PaidFor
    <3>1. \A q \in RunRequests : runPc'[q] = "save_model" => runPc[q] = "save_model"
      BY <1>1 DEF ProcessingInv, ProcessingTypes
    <3>2. \A x \in RunRequests : modelRun'[x] \subseteq PaidFor
      BY <1>3 DEF PaidFor, ModelRuns
    <3> QED BY <3>1, <3>2 DEF PaidFor, ModelRuns
  <2> QED BY <1>1, <2>1, PaidShrinks DEF ProcessingInv, ProcessingTypes
<1> QED BY <1>4, <1>5, <1>6, <1>7, <1>8 DEF ProcessingInv

\* A run is stored, with its usage and its tasks, unless another one is.
LEMMA ProcessingSaves ==
    ASSUME ProcessingInv, NEW r \in RunRequests, Save(r)
    PROVE  ProcessingInv'
<1> DEFINE i == InputOf[r]
           stored == StoredRuns
<1>1. /\ UNCHANGED <<taskEvents, modelRun, modelAnswer, spent>>
      /\ runPc[r] = "save" /\ runPc' = [runPc EXCEPT ![r] = AfterPlan(r)]
      /\ plan' = [plan EXCEPT ![r] = storedRun'[i]]
      /\ \/ storedRun[i] # {} /\ UNCHANGED <<storedRun, usage, task>>
         \/ /\ storedRun[i] = {}
            /\ storedRun' = [storedRun EXCEPT ![i] = {r}]
            /\ usage' = usage \union {r} /\ task' = Materialized(r)
  BY DEF Save, RunStep
<1>2. i \in Inputs /\ AfterPlan(r) \in {"model_lookup", "answered"}
  BY ProcessingAssumption DEF AfterPlan
<1>3. /\ modelAnswer[r] = {} /\ plan[r] = {}
  BY <1>1 DEF ProcessingInv, Planned
<1>4. /\ storedRun' \in [Inputs -> SUBSET RunRequests]
      /\ \A x \in Inputs : storedRun[x] # {} => storedRun'[x] = storedRun[x]
      /\ \E x \in RunRequests : storedRun'[i] = {x}
      /\ OneRun'
  <2>1. storedRun[i] = {} \/ \E x \in RunRequests : storedRun[i] = {x}
    BY <1>2 DEF ProcessingInv, OneRun
  <2>2. ASSUME storedRun[i] # {}, storedRun' = storedRun
        PROVE  /\ storedRun' \in [Inputs -> SUBSET RunRequests]
               /\ \A x \in Inputs : storedRun[x] # {} => storedRun'[x] = storedRun[x]
               /\ \E x \in RunRequests : storedRun'[i] = {x}
               /\ OneRun'
    BY <2>1, <2>2 DEF ProcessingInv, ProcessingTypes, OneRun
  <2>3. ASSUME storedRun[i] = {}, storedRun' = [storedRun EXCEPT ![i] = {r}]
        PROVE  /\ storedRun' \in [Inputs -> SUBSET RunRequests]
               /\ \A x \in Inputs : storedRun[x] # {} => storedRun'[x] = storedRun[x]
               /\ \E x \in RunRequests : storedRun'[i] = {x}
               /\ OneRun'
    BY <1>2, <2>3 DEF ProcessingInv, ProcessingTypes, OneRun
  <2> QED BY <1>1, <2>2, <2>3
<1> DEFINE Kept ==
      /\ task' \in [Titles -> Task] /\ usage' \subseteq RunRequests
      /\ \A t \in Titles : /\ task'[t].status = "absent" =>
                                 task'[t].source = {} /\ task[t].status = "absent"
                           /\ task[t].status # "absent" => task'[t] = task[t]
                           /\ task[t].status = "absent" /\ task'[t].status # "absent"
                                => task'[t].status = "open"
<1>5. Kept
  <2>1. ASSUME UNCHANGED <<usage, task>>
        PROVE  Kept
    BY <2>1 DEF ProcessingInv, ProcessingTypes
  <2>2. ASSUME usage' = usage \union {r}, task' = Materialized(r)
        PROVE  Kept
    <3>1. usage' \subseteq RunRequests
      BY <2>2 DEF ProcessingInv, ProcessingTypes
    <3>2. \A t \in Titles :
            \/ task'[t] = task[t]
            \/ task'[t] = [status |-> "open", source |-> {r}] /\ task[t].status = "absent"
      BY <2>2, TaskIsThere DEF Materialized, ProcessingInv
    <3>3. [status |-> "open", source |-> {r}] \in Task
      BY DEF Task, TaskStatuses
    <3>4. task' \in [Titles -> Task]
      BY <2>2, <3>3 DEF Materialized, ProcessingInv, ProcessingTypes
    <3> QED BY <3>1, <3>2, <3>4 DEF ProcessingInv, ProcessingTypes
  <2> QED BY <1>1, <2>1, <2>2
<1>6. ProcessingTypes'
  <2>1. storedRun'[i] \subseteq RunRequests
    BY <1>2, <1>4
  <2>2. /\ runPc' \in [RunRequests -> RunPlaces]
        /\ plan' \in [RunRequests -> SUBSET RunRequests]
    BY <1>1, <1>2, <2>1 DEF ProcessingInv, ProcessingTypes, RunPlaces
  <2> QED BY <1>1, <1>4, <1>5, <2>2 DEF ProcessingInv, ProcessingTypes
<1>7. Planned'
  BY <1>1, <1>2, <1>3, <1>4 DEF ProcessingInv, ProcessingTypes, Planned
<1>8. AbsentUntouched'
  BY <1>1, <1>5 DEF ProcessingInv, AbsentUntouched
<1>9. AnswersAgree'
  <2> SUFFICES ASSUME NEW q \in RunRequests
               PROVE  /\ plan'[q] # {} => plan'[q] = storedRun'[InputOf[q]]
                      /\ modelAnswer'[q] # {} => modelAnswer'[q] = modelRun'[LocalRun(q)']
    BY DEF AnswersAgree
  <2>1. InputOf[q] \in Inputs
    BY ProcessingAssumption
  <2>2. CASE q = r
    BY <1>1, <1>3, <2>2 DEF ProcessingInv, ProcessingTypes
  <2>3. CASE q # r
    <3>1. plan'[q] = plan[q]
      BY <1>1, <2>3 DEF ProcessingInv, ProcessingTypes
    <3>2. LocalRun(q)' = LocalRun(q)
      BY <3>1 DEF LocalRun
    <3>3. /\ plan[q] # {} => plan[q] = storedRun[InputOf[q]]
          /\ modelAnswer[q] # {} => modelAnswer[q] = modelRun[LocalRun(q)]
      BY DEF ProcessingInv, AnswersAgree
    <3> QED BY <1>1, <1>4, <2>1, <3>1, <3>2, <3>3
  <2> QED BY <2>2, <2>3
<1>10. WorkspaceIsOfStoredRuns'
  <2>1. CASE UNCHANGED <<storedRun, usage, task>>
    BY <2>1 DEF ProcessingInv, WorkspaceIsOfStoredRuns, StoredRuns
  <2>2. ASSUME storedRun[i] = {}, storedRun' = [storedRun EXCEPT ![i] = {r}],
               usage' = usage \union {r}, task' = Materialized(r)
        PROVE  WorkspaceIsOfStoredRuns'
    <3>1. StoredRuns' = StoredRuns \union {r}
      BY <1>2, <2>2 DEF StoredRuns, ProcessingInv, ProcessingTypes
    <3>2. usage' = StoredRuns'
      BY <2>2, <3>1 DEF ProcessingInv, WorkspaceIsOfStoredRuns
    <3>3. ASSUME NEW t \in Titles
          PROVE  /\ task'[t].source \subseteq StoredRuns'
                 /\ (task'[t] # NoTask) <=> \E q \in StoredRuns' : t \in TitlesOf[InputOf[q]]
      <4>1. task'[t] = IF t \in TitlesOf[i] /\ task[t] = NoTask
                       THEN [status |-> "open", source |-> {r}] ELSE task[t]
        BY <2>2 DEF Materialized
      <4>2. /\ task[t].source \subseteq StoredRuns
            /\ (task[t] # NoTask) <=> \E q \in StoredRuns : t \in TitlesOf[InputOf[q]]
        BY DEF ProcessingInv, WorkspaceIsOfStoredRuns
      <4>3. [status |-> "open", source |-> {r}] # NoTask
        BY DEF NoTask
      <4> QED BY <3>1, <4>1, <4>2, <4>3
    <3> QED BY <3>2, <3>3 DEF WorkspaceIsOfStoredRuns
  <2> QED BY <1>1, <2>1, <2>2
<1>11. TaskEventsReplay'
  <2> SUFFICES ASSUME NEW t \in Titles, task'[t] # NoTask
               PROVE  /\ ReplayedTo(taskEvents, t, Len(taskEvents), task'[t].status)
                      /\ \A k \in DOMAIN taskEvents : taskEvents[k].title = t =>
                            ReplayedTo(taskEvents, t, k - 1, taskEvents[k].previous)
    BY <1>1 DEF TaskEventsReplay
  <2>1. CASE task[t].status # "absent"
    <3>1. task'[t] = task[t] /\ task[t] # NoTask
      BY <1>5, <2>1, TaskIsThere DEF ProcessingInv
    <3> QED BY <3>1 DEF ProcessingInv, TaskEventsReplay
  <2>2. CASE task[t].status = "absent"
    <3>1. task'[t].status # "absent"
      <4>1. task'[t] \in Task
        BY <1>5
      <4>2. task'[t].status = "absent" => task'[t].source = {}
        BY <1>5
      <4> QED BY <4>1, <4>2 DEF Task, NoTask
    <3>2. task'[t].status = "open"
      BY <1>5, <2>2, <3>1
    <3>3. \A k \in DOMAIN taskEvents : taskEvents[k].title # t
      BY <2>2 DEF ProcessingInv, AbsentUntouched
    <3>4. DOMAIN taskEvents = 1..Len(taskEvents)
      BY DEF ProcessingInv, ProcessingTypes
    <3> QED BY <3>2, <3>3, <3>4 DEF ReplayedTo
  <2> QED BY <2>1, <2>2
<1>12. Paid'
  <2>1. PaidFor' \subseteq PaidFor
    BY <1>1, <1>2 DEF PaidFor, ModelRuns, ProcessingInv, ProcessingTypes
  <2> QED BY <1>1, <2>1, PaidShrinks DEF ProcessingInv, ProcessingTypes
<1> QED BY <1>4, <1>6, <1>7, <1>8, <1>9, <1>10, <1>11, <1>12 DEF ProcessingInv

\* A task changes its status, and the event that says so is appended.
LEMMA ProcessingUpdates ==
    ASSUME ProcessingInv, NEW t \in Titles, NEW status \in TaskStatuses,
           UpdateTask(t, status)
    PROVE  ProcessingInv'
<1> DEFINE n == Len(taskEvents)
           e == [title |-> t, previous |-> task[t].status, new |-> status]
<1>1. /\ task[t] # NoTask /\ task' = [task EXCEPT ![t].status = status]
      /\ taskEvents' = Append(taskEvents, e)
      /\ UNCHANGED <<runPc, plan, storedRun, usage, modelRun, modelAnswer, spent>>
  BY DEF UpdateTask
<1>2. task[t].status \in TaskStatuses /\ status # "absent"
  BY <1>1, TaskIsThere DEF ProcessingInv, ProcessingTypes, Task, TaskStatuses
<1>3. e \in TaskEvent /\ e.title = t /\ e.new = status /\ e.previous = task[t].status
  BY <1>2 DEF TaskEvent
<1> HIDE DEF e
<1>4. taskEvents \in Seq(TaskEvent)
  BY DEF ProcessingInv, ProcessingTypes
<1>5. /\ n \in Nat /\ DOMAIN taskEvents = 1..n
      /\ taskEvents' \in Seq(TaskEvent) /\ Len(taskEvents') = n + 1
      /\ DOMAIN taskEvents' = 1..(n + 1) /\ taskEvents'[n + 1] = e
      /\ \A k \in 1..n : taskEvents'[k] = taskEvents[k]
  BY <1>1, <1>3, <1>4
<1>6. /\ task' \in [Titles -> Task]
      /\ \A u \in Titles : /\ task'[u].source = task[u].source
                           /\ task'[u].status = "absent" <=> task[u].status = "absent"
                           /\ u # t => task'[u] = task[u]
      /\ task'[t].status = status
  <2>1. task \in [Titles -> Task] /\ task[t].status # "absent"
    BY <1>2 DEF ProcessingInv, ProcessingTypes, TaskStatuses
  <2> QED BY <1>1, <1>2, <2>1 DEF Task
<1>7. ProcessingTypes'
  BY <1>1, <1>5, <1>6 DEF ProcessingInv, ProcessingTypes
<1>8. \A u \in Titles : (task'[u] # NoTask) <=> (task[u] # NoTask)
  <2> TAKE u \in Titles
  <2>1. task'[u] \in Task /\ (task'[u].status = "absent" => task'[u].source = {})
    BY <1>7 DEF ProcessingTypes
  <2>2. task'[u] # NoTask <=> task'[u].status # "absent"
    BY <2>1 DEF Task, NoTask
  <2> QED BY <1>6, <2>2, TaskIsThere DEF ProcessingInv
<1>9. Planned' /\ OneRun' /\ AnswersAgree'
  <2>1. Planned' /\ OneRun'
    BY <1>1 DEF ProcessingInv, Planned, OneRun
  <2>2. AnswersAgree'
    BY <1>1 DEF ProcessingInv, AnswersAgree, LocalRun
  <2> QED BY <2>1, <2>2
<1>10. WorkspaceIsOfStoredRuns'
  <2>1. StoredRuns' = StoredRuns
    BY <1>1 DEF StoredRuns
  <2> QED BY <1>1, <1>6, <1>8, <2>1 DEF ProcessingInv, WorkspaceIsOfStoredRuns
<1>11. AbsentUntouched'
  <2> SUFFICES ASSUME NEW u \in Titles, task'[u].status = "absent", NEW k \in 1..(n + 1)
               PROVE  taskEvents'[k].title # u
    BY <1>5 DEF AbsentUntouched
  <2>1. u # t
    BY <1>2, <1>6
  <2>2. CASE k = n + 1
    BY <1>3, <1>5, <2>1, <2>2
  <2>3. CASE k \in 1..n
    BY <1>5, <1>6, <2>3 DEF ProcessingInv, AbsentUntouched
  <2> QED BY <1>5, <2>2, <2>3
<1>12. TaskEventsReplay'
  <2> SUFFICES ASSUME NEW u \in Titles, task'[u] # NoTask
               PROVE  /\ ReplayedTo(taskEvents', u, n + 1, task'[u].status)
                      /\ \A k \in 1..(n + 1) : taskEvents'[k].title = u =>
                            ReplayedTo(taskEvents', u, k - 1, taskEvents'[k].previous)
    BY <1>5 DEF TaskEventsReplay, ReplayedTo
  <2>1. /\ ReplayedTo(taskEvents, u, n, task[u].status)
        /\ \A k \in 1..n : taskEvents[k].title = u =>
              ReplayedTo(taskEvents, u, k - 1, taskEvents[k].previous)
    BY <1>5, <1>8 DEF ProcessingInv, TaskEventsReplay
  <2>2. ASSUME NEW m \in 0..n, NEW s, ReplayedTo(taskEvents, u, m, s)
        PROVE  ReplayedTo(taskEvents', u, m, s)
    <3>1. \A k \in 1..m : taskEvents'[k] = taskEvents[k]
      BY <1>5
    <3>2. CASE s = "open" /\ \A k \in 1..m : taskEvents[k].title # u
      BY <3>1, <3>2 DEF ReplayedTo
    <3>3. ASSUME NEW k \in 1..m, taskEvents[k].title = u, taskEvents[k].new = s,
                 \A j \in (k + 1)..m : taskEvents[j].title # u
          PROVE  /\ taskEvents'[k].title = u /\ taskEvents'[k].new = s
                 /\ \A j \in (k + 1)..m : taskEvents'[j].title # u
      BY <3>1, <3>3
    <3> QED BY <2>2, <3>2, <3>3 DEF ReplayedTo
  <2>3. ASSUME NEW k \in 1..n, taskEvents'[k].title = u
        PROVE  ReplayedTo(taskEvents', u, k - 1, taskEvents'[k].previous)
    <3>1. k - 1 \in 0..n /\ taskEvents'[k] = taskEvents[k]
      BY <1>5
    <3>2. ReplayedTo(taskEvents, u, k - 1, taskEvents[k].previous)
      BY <2>1, <2>3, <3>1
    <3> QED BY <2>2, <3>1, <3>2
  <2>4. taskEvents'[n + 1].title = u => ReplayedTo(taskEvents', u, n, taskEvents'[n + 1].previous)
    <3> SUFFICES ASSUME u = t
                 PROVE  ReplayedTo(taskEvents', u, n, taskEvents'[n + 1].previous)
      BY <1>3, <1>5
    <3>1. taskEvents'[n + 1].previous = task[u].status
      BY <1>3, <1>5
    <3>2. n \in 0..n
      BY <1>5
    <3> QED BY <2>1, <2>2, <3>1, <3>2
  <2>5. ReplayedTo(taskEvents', u, n + 1, task'[u].status)
    <3>1. CASE u = t
      <4>1. taskEvents'[n + 1].title = u /\ taskEvents'[n + 1].new = task'[u].status
        BY <1>3, <1>5, <1>6, <3>1
      <4>2. n + 1 \in 1..(n + 1) /\ \A j \in (n + 2)..(n + 1) : FALSE
        BY <1>5
      <4> QED BY <4>1, <4>2 DEF ReplayedTo
    <3>2. CASE u # t
      <4>1. task'[u] = task[u] /\ taskEvents'[n + 1].title # u
        BY <1>3, <1>5, <1>6, <3>2
      <4>2. n \in 0..n
        BY <1>5
      <4>3. ReplayedTo(taskEvents', u, n, task[u].status)
        BY <2>1, <2>2, <4>2
      <4> QED BY <1>5, <4>1, <4>3 DEF ReplayedTo
    <3> QED BY <3>1, <3>2
  <2> QED BY <1>5, <2>3, <2>4, <2>5
<1>13. Paid'
  <2>1. PaidFor' = PaidFor
    BY <1>1 DEF PaidFor, ModelRuns
  <2> QED BY <1>1, <2>1 DEF ProcessingInv, Paid
<1> QED BY <1>7, <1>9, <1>10, <1>11, <1>12, <1>13 DEF ProcessingInv

LEMMA ProcessingStep == ProcessingInv /\ [ProcessingNext]_processingVars => ProcessingInv'
<1> SUFFICES ASSUME ProcessingInv, [ProcessingNext]_processingVars PROVE ProcessingInv'
  OBVIOUS
<1>1. CASE UNCHANGED processingVars
  <2>1. ProcessingTypes' /\ Planned' /\ OneRun' /\ AbsentUntouched' /\ Paid'
    BY <1>1 DEF processingVars, ProcessingInv, ProcessingTypes, Planned, OneRun,
       AbsentUntouched, Paid, PaidFor, ModelRuns
  <2>2. AnswersAgree' /\ WorkspaceIsOfStoredRuns' /\ TaskEventsReplay'
    BY <1>1 DEF processingVars, ProcessingInv, AnswersAgree, LocalRun, StoredRuns,
       WorkspaceIsOfStoredRuns, TaskEventsReplay, ReplayedTo
  <2> QED BY <2>1, <2>2 DEF ProcessingInv
<1>2. CASE \E r \in RunRequests : FindsRun(r) \/ PlansRun(r)
  BY <1>2, ProcessingLookups
<1>3. CASE (\E r \in RunRequests : CallsProvider(r) \/ ProviderFails(r)) \/ RequestsDie
  BY <1>3, ProcessingGoesOn
<1>4. CASE \E r \in RunRequests : Save(r)
  BY <1>4, ProcessingSaves
<1>5. CASE \E r \in RunRequests : ProviderAnswers(r)
  BY <1>5, ProcessingPays
<1>6. CASE \E r \in RunRequests : FindsModelRun(r) \/ SaveModelRun(r)
  BY <1>6, ProcessingModelAnswers
<1>7. CASE \E t \in Titles, status \in TaskStatuses : UpdateTask(t, status)
  BY <1>7, ProcessingUpdates
<1> QED BY <1>1, <1>2, <1>3, <1>4, <1>5, <1>6, <1>7 DEF ProcessingNext

\* For every set of requests, inputs and plans: who asks about one input is
\* answered with the one stored run and its one model run, usage and tasks are
\* those of the stored runs, the events of a task replay to its status, and no
\* more tokens are counted than were spent (processing_store.py).
THEOREM ProcessingSafe == ProcessingSpec => []ProcessingHolds
<1>1. ProcessingSpec => []ProcessingInv
  BY ProcessingInvInit, ProcessingStep, PTL DEF ProcessingSpec
<1>2. ProcessingInv => ProcessingHolds
  BY ProcessingInvHolds
<1> QED BY <1>1, <1>2, PTL

-----------------------------------------------------------------------------
(* The services together (MCServices)                                      *)

\* A behaviour of the composition is one of every service.
LEMMA ServicesProject ==
    ServicesSpec => Spec /\ ScriptSpec /\ CopilotSpec /\ ProcessingSpec
<1>1. ServicesInit => Init /\ ScriptInit /\ CopilotInit /\ ProcessingInit
  BY DEF ServicesInit
<1>2. [ServicesNext]_servicesVars =>
         [Next]_vars /\ [ScriptNext]_scriptVars /\ [CopilotNext]_copilotVars
         /\ [ProcessingNext]_processingVars
  BY DEF ServicesNext, OnlyActions, Only, servicesVars
<1> QED BY <1>1, <1>2, PTL DEF ServicesSpec, Spec, ScriptSpec, CopilotSpec, ProcessingSpec

\* Neither a script nor a packet is answered for work that was not done, and
\* their logs tell what happened.
THEOREM OffloadSafe == ServicesSpec => []OffloadHolds
<1>1. ScriptHolds /\ CopilotHolds => OffloadHolds
  BY DEF OffloadHolds
<1> QED BY <1>1, ServicesProject, ScriptSafe, CopilotSafe, PTL

\* Every property of the services that is one of states, in the composition.
THEOREM ServicesSafe ==
    ServicesSpec => [](ActionsHold /\ OffloadHolds /\ ProcessingHolds) /\ RerunOverlaps
BY ServicesProject, ActionsSafe, OffloadSafe, ProcessingSafe, ScriptRerunOverlaps, PTL
=============================================================================
