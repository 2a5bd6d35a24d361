SPECIFICATION FairSpec
CONSTANTS
    Threads = {t1, t2, t3}
    Opener = t1
    Pill = Pill
    None = None
PROPERTY EverySubmitReturns
CHECK_DEADLOCK FALSE
