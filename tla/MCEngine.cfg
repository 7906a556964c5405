SPECIFICATION MCSpec
CONSTANTS
    j1 = j1
    j2 = j2
    Jobs = {j1, j2}
    c1 = c1
    c2 = c2
    Clients = {c1, c2}
    NoJob = NoJob
    MaxWorkers = 2
    MaxPending = 1
    EngineCodes = {"BUDGET_EXHAUSTED"}
    TimeoutEnabled = TRUE
    WaitForever = FALSE
    Sessions = {s1}
    Replicas = {c1, c2}
    Calls = {c1, c2}
    ShotRequests <- MCShotRequests
    MaxSession = 4
    MaxExperiment = 2
    DefaultBudget = 1
    Ttl = 2
    Modes = {"local", "closed", "open"}
CHECK_DEADLOCK FALSE
SYMMETRY Symmetry
INVARIANTS
    CapacityBound
    QueuedIsReachable
    TypeOK
    FailureAccounting
    RunningHasThread
    StoreAgreement
    MetricsAgreement
    BudgetTypeOK
    HardCap
    FailClosed
PROPERTIES
    LifecycleSpec
    SlidingTtl
