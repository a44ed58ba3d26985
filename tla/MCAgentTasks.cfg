SPECIFICATION FairSpec
CONSTANTS
    Tasks = {t1, t2}
    Agents = {"lynch_pitch", "earnings_monitor", "kpi_tracker", "document_ingestion"}
    Browsers = {b1}
    MaxDrops = 1
    MaxFaults = 1
    Nil = Nil
INVARIANTS
    TypeOK
    AtMostOneOutput
    CompletedTellsWhatWasSaved
    EarlyListenersHear
    LastEventTellsTheRow
PROPERTIES
    TaskRowsFollowLifecycle
    SentTaskSettles
CHECK_DEADLOCK FALSE
