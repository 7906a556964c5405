SPECIFICATION FairSpec
CONSTANTS
    j1 = j1
    j2 = j2
    j3 = j3
    w1 = w1
    w2 = w2
    NoJob = NoJob
    Jobs = {j1, j2, j3}
    MulticallJobs = {j1}
    Workers = {w1, w2}
    EngineCodes = {"INTERNAL_ERROR", "BUDGET_EXHAUSTED"}
    TimeoutEnabled = TRUE
    MaxFaults = 1
    MaxCrashes = 1
CHECK_DEADLOCK FALSE
INVARIANTS
    ClaimedOnce
    CountsExact
    ReportedOutcome
PROPERTIES
    LifecycleSpec
    QueuedEnds
