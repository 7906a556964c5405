SPECIFICATION FairSpec
CONSTANTS
    j1 = j1
    j2 = j2
    Jobs = {j1, j2}
    c1 = c1
    Clients = {c1}
    NoJob = NoJob
    MaxWorkers = 1
    MaxPending = 2
    EngineCodes = {"BUDGET_EXHAUSTED"}
    TimeoutEnabled = FALSE
    WaitForever = TRUE
CHECK_DEADLOCK FALSE
PROPERTY ShutdownEnds
