SPECIFICATION FairSpec
CONSTANTS
    Threads = {t1, t2}
    Ids = {s1}
    TTL = 1
    MaxTime = 2
    Pill = Pill
    None = None
PROPERTIES EveryRequestReturns ClosedSessionEnds
CHECK_DEADLOCK FALSE
