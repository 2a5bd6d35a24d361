SPECIFICATION Spec
CONSTANTS
    Threads = {t1, t2}
    Ids = {s1, s2}
    TTL = 1
    MaxTime = 2
    Pill = Pill
    None = None
SYMMETRY Interchangeable
INVARIANTS TypeOK ListedIsUsable NoOrphanBrowser WaiterHasWorker PoppedOnce
PROPERTIES EverySessionHeld
CHECK_DEADLOCK FALSE
