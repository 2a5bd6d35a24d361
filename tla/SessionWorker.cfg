SPECIFICATION FairSpec
CONSTANTS
    Threads = {t1, t2, t3}
    Opener = t1
    Pill = Pill
    None = None
INVARIANTS PendingIsOwned RunsOnLiveBrowser StopIsOnItsWay
PROPERTIES HeldSessionSpec ServedInTurn AcceptedCallAnswered StopReleasesBrowser FailedOpenEndsThread
CHECK_DEADLOCK FALSE
