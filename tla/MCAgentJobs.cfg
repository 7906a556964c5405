SPECIFICATION Spec
CONSTANTS
    Jobs = {j1, j2}
    Keys = {}
    NoKey = NoKey
    Clients = {c1}
    Workers = {w1, w2}
    NoJob = NoJob
    Sandbox = TRUE
    MaxAttempts = 2
    PumpLimit = 1
    MaxFaults = 1
SYMMETRY Symmetry
INVARIANTS
    PlacedOnce
    ExecutionsBound
    OutcomeRecorded
