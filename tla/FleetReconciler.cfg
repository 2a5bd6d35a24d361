SPECIFICATION Spec
CONSTANTS
    Proxies = {p1, p2, p3}
    Visitors = {v}
    Reconcilers = {r}
    Checker = c
    target_count = 2
    idle_threshold = 2
    MaxDeaths = 1
    None = None
INVARIANTS RecordIsTheFleet TeardownEarned
PROPERTY ConvergesUnlessTorn
CONSTRAINT Untorn
