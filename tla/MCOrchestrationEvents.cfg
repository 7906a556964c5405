SPECIFICATION FlowSpec
CONSTANTS
    Interval = 1
    Timeout = 3
    Limits = {1, 300}
    FlowEnd = 6
CHECK_DEADLOCK FALSE
INVARIANT EventsListed
