SPECIFICATION FairSpec
CONSTANTS
    c1 = c1
    q1 = q1
    k1 = k1
    Filings = {q1, k1}
    Coverages = {c1}
    CoverageOf <- MCCoverageOf
    FormOf <- MCFormOf
    Uploading = {c1}
    Workers = {w1, w2}
    MaxDays = 2
    MaxFaults = 1
    Nil = Nil
INVARIANTS
    TypeOK
    KnownIsMonitored
    TwoRowsNeedOverlap
    MonitorFollowsIngestion
PROPERTY SweepsEnd
CHECK_DEADLOCK FALSE
