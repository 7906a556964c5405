SPECIFICATION Spec
CONSTANTS
    Tasks = {a, b}
    Requests <- MCRequests
    None = None
    ApiKey = "k"
    RequireKey = TRUE
    RequireAuth = FALSE
    MaxBody = 1
    RatePerMinute = 2
    Minute = 2
    RateKeyTtl = 3
    ChatMax = 1
    ChatSpan = 2
    HealthTtl = 2
    MaxOutages = 1
    GateEnd = 4
    Workers = {a, b}
    Deployments <- MCDeployments
    Submissions <- MCSubmissions
    Profiles <- MCProfiles
    NoProfile = NoProfile
    MaxShots = 5
    DefaultShots = 2
    MaxProviderShots = 4
    MinBatch = 2
    Confidence = 3
    QiskitBatch = 1
    PayloadShots = {1, 6}
    DemoRuns = 1
    MaxRuns = 2
    MaxUpdates = 1
    p1 = p1
    Free = Free
    Runs = {1, 2, 3}
    Procs = {p1}
    Threads = {a, b, c}
    ProcOf <- OneProcess
    Readers = {a, b, c}
    MaxEntries = 2
    MaxFaults = 1
    MaxCrashes = 1
CHECK_DEADLOCK FALSE
INVARIANTS
    RequestLimits CountersExpire
    ReportedShots FailureShown FallbackSound SummarySound ControlsDurable
    Bounded Coherent
SYMMETRY Sym
