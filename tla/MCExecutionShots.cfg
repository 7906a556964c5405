SPECIFICATION ExecSpec
CONSTANTS
    Workers = {w1}
    Deployments <- MCDeployments
    Submissions <- MCSubmissions
    Profiles <- MCProfiles
    NoProfile = NoProfile
    MaxShots = 5
    DefaultShots = 2
    MaxProviderShots = 4
    MinBatch = 2
    Confidence = 3
    QiskitBatch = 1
    PayloadShots = {1, 6}
    DemoRuns = 1
    MaxRuns = 1
    MaxUpdates = 1
CHECK_DEADLOCK FALSE
INVARIANT ShotBudgetObeyed
