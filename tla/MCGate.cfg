\* One effectful operation sent three times, two overlapping reads, a stop
\* request and a read; a worker with two directives.
SPECIFICATION ClientsSpec
CONSTANTS
  r1 = r1  r2 = r2  r3 = r3  q1 = q1  q2 = q2  e1 = e1
  op = op  look = look  halt = halt  NULL = NULL
  Requests = {r1, r2, r3, q1, q2, e1}
  Workloads = {{r1, r2, r3}, {q1, q2}, {q1, e1}}
  Fingerprints = {op, look, halt}
  FingerprintOf <- mcFingerprintOf
  Recovery = {look, halt}
  EngageStop = halt
  MaxCrashes = 1
  d1 = d1  d2 = d2  i1 = i1  i2 = i2  i3 = i3
  plan = plan  check = check  watch = watch  nosuch = nosuch
  Directives = {d1, d2}
  InHive = {d2}
  Items = {i1, i2, i3}
  PlanOf <- mcPlanOf
  Goal <- mcGoal
  DependsOn <- mcDependsOn
  FallbackFor <- mcFallbackFor
  Operations = {plan, check, watch, nosuch}
  OperationOf <- mcOperationOf
  Observations = {watch}
  Unsupported = {nosuch}
  Backlog = 2
  MaxDeaths = 1
INVARIANTS GateHolds
PROPERTIES FailedIsFinal RequestsSettle WorkerSafe WakeDrains
CHECK_DEADLOCK FALSE
