SPECIFICATION Spec
CONSTANTS
    Requests = {r1, r2}
    Workers = {w1}
    Paths = {p1}
    Contents = {c1}
    LowCoverage = {}
    Batches = 1
    MaxRetries = 1
    MaxFaults = 0
    Nil = Nil
INVARIANTS
    ReindexOverwrites
CHECK_DEADLOCK FALSE
