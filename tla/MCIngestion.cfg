SPECIFICATION Spec
CONSTANTS
    Requests = {r1, r2, r3}
    Workers = {w1, w2}
    Paths = {p1}
    Contents = {c1}
    LowCoverage = {}
    Batches = 1
    MaxRetries = 1
    MaxFaults = 1
    Nil = Nil
SYMMETRY Symmetry
INVARIANTS
    TypeOK
    IndexedIsSearchable
    PointsNeedDocument
    OneExecutionPerTask
    RunningIsOwned
    DuplicatesNeedARace
    CountNeverExceedsCompletions
PROPERTIES
    AppearsOnlyByUpload
    TaskRowsFollowLifecycle
CHECK_DEADLOCK FALSE
