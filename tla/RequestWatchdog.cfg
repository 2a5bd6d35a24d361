SPECIFICATION Spec
CONSTANTS
    Requests = {r1, r2}
    max_request_ms = 5
    poll_interval_ms = 2
    MaxTime = 14
    None = None
INVARIANT StuckRequestsEnd
PROPERTY KilledForCause
CHECK_DEADLOCK FALSE
