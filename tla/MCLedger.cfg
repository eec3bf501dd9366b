\* Two jobs with the same operation, or one with a fallback.
CONSTANTS
    j1 = j1  j2 = j2  j3 = j3  b1 = b1  b2 = b2  b3 = b3  b4 = b4
    op1 = op1  op2 = op2  scope1 = scope1  NULL = NULL
    Jobs = {j1, j2, j3}
    Branches = {b1, b2, b3, b4}
    Workloads = {{j1, j2}, {j3}}
    Owners = {s1, s2}
    Ops = {op1, op2}
    Scopes = {scope1}
    Failures = {f1}
    JobOf <- mcJobOf
    OpOf <- mcOpOf
    ScopeOf <- mcScopeOf
    MaxAttempts <- mcMaxAttempts
    AttemptBound = 2
    Admissible = {b1, b2, b3, b4}
    Score <- mcScore
    Priority <- mcPriority
    DedupeKey <- mcDedupeKey
    AuthorityReady = {b1, b2, b3, b4}
    DependenciesSatisfied = {b1, b2, b3, b4}
    HumanBoundary = {}
    JobLease = 0
    MaxLag = 1
    ParkDelay = 1
    Delays = {1}
SPECIFICATION WorkloadSpec
SYMMETRY OwnerSymmetry
INVARIANTS RecordsHold OneRunner AttemptBudget VerifiedOnce
PROPERTIES ClosedForever ImplementsLifecycle
