SPECIFICATION TimedSpec
CONSTANTS
    j1 = j1
    j2 = j2
    Jobs = {j1, j2}
    c1 = c1
    Clients = {c1}
    NoJob = NoJob
    MaxWorkers = 1
    MaxPending = 2
    EngineCodes = {"BUDGET_EXHAUSTED"}
    TimeoutEnabled = TRUE
    WaitForever = TRUE
CHECK_DEADLOCK FALSE
PROPERTIES
    QueuedFinishes
    RunningEnds
    FailureReachesStore
