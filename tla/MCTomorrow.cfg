SPECIFICATION Spec
CONSTANTS
    c1 = c1
    q1 = q1
    k1 = k1
    Filings = {q1, k1}
    Coverages = {c1}
    CoverageOf <- MCCoverageOf
    FormOf <- MCFormOf
    Uploading = {}
    Workers = {w1, w2}
    MaxDays = 2
    MaxFaults = 0
    Nil = Nil
INVARIANT SecondIsPickedUp
CHECK_DEADLOCK FALSE
