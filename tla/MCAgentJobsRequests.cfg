SPECIFICATION FairSpec
CONSTANTS
    Jobs = {j1}
    Keys = {k1}
    NoKey = NoKey
    Clients = {c1, c2}
    Workers = {w1}
    NoJob = NoJob
    Sandbox = FALSE
    MaxAttempts = 2
    PumpLimit = 1
    MaxFaults = 1
INVARIANT
    IdempotencyBound
PROPERTIES
    FinalIsFinal
    JobEnds
