\* One job, one branch with two attempts; process s1 may crash.
CONSTANTS
    j1 = j1  j2 = j2  b1 = b1  b2 = b2  b3 = b3
    op1 = op1  op2 = op2  scope1 = scope1  NULL = NULL
    Jobs = {j1}
    Branches = {b1}
    Owners = {s1, s2}
    Ops = {op1, op2}
    Scopes = {scope1}
    Failures = {}
    JobOf <- mcJobOf
    OpOf <- mcOpOf
    ScopeOf <- mcScopeOf
    MaxAttempts <- mcMaxAttempts
    AttemptBound = 2
    Admissible = {b1}
    Score <- mcScore
    Priority <- mcPriority
    DedupeKey <- mcDedupeKey
    AuthorityReady = {b1}
    DependenciesSatisfied = {b1}
    HumanBoundary = {}
    JobLease = 0
    MaxLag = 1
    ParkDelay = 1
    Delays = {1}
    SupervisorLease = 2
    MayCrash = {s1}
SPECIFICATION FairSpec
PROPERTY EventuallySettled
