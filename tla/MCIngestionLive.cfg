SPECIFICATION FairSpec
CONSTANTS
    Requests = {r1, r2}
    Workers = {w1, w2}
    Paths = {p1}
    Contents = {c1, c2, c3}
    LowCoverage = {c3}
    Batches = 2
    MaxRetries = 2
    MaxFaults = 1
    Nil = Nil
INVARIANTS
    IndexedIsSearchable
PROPERTIES
    RunningTaskSettles
CHECK_DEADLOCK FALSE
