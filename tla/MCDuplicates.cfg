SPECIFICATION Spec
CONSTANTS
    Requests = {r1, r2}
    Workers = {w1, w2}
    Paths = {p1}
    Contents = {c1}
    LowCoverage = {}
    Batches = 1
    MaxRetries = 1
    MaxFaults = 0
    Nil = Nil
INVARIANTS
    NoDuplicateIndexed
CHECK_DEADLOCK FALSE
