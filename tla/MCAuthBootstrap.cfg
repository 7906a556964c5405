SPECIFICATION Spec
CONSTANTS
    Slots = {s1}
    NoSlot = NoSlot
    Emails = {"a", "b"}
    PoolSize = 4
    BusyTimeout = 1
    CacheTtl = 2
    SessionTtl = 2
    TokenTtls = {1}
    MaxRows = 1
    LastStart = 1
    AuthEnd = 3
    Labels = {"a", "b"}
    Backoff = 2
    Interval = 1
    Timeout = 3
    Limits = {300}
    FlowEnd = 6
CHECK_DEADLOCK FALSE
INVARIANT BootstrapOnce
