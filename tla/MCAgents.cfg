SPECIFICATION Spec
CONSTANTS
    Docs = {"a", "b"}
    Answer <- KpiAnswer
    Cited <- KpiCited
    Trackers = {r1, r2, r3}
    Analyses <- MCAnalyses
    CoverageOfAnalysis <- MCCoverage
    Words = {1, 2}
    Models = {m1, m2}
    NoIndustry = NoIndustry
    Runs = {x, y}
    MaxDbErrors = 1
    RetryCounts = {0, 2}
    Intents = {"industry", "documents", "bull", "bear", "quarterly", "other"}
SYMMETRY TrackerSymmetry
INVARIANTS
    TypeOK
    RestatedMeansChanged
    OneIndustry
    PrimerIsOneAnswer
    EveryRunLeavesATrace
    PitchesEndJudged
CHECK_DEADLOCK FALSE
