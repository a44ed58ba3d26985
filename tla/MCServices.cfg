SPECIFICATION Spec
CONSTANTS
    Scenes = {"retrieval", "enforcer", "chunker", "normalizer", "views", "edgar", "inbox", "report"}
    Chunk <- MCChunk
    Queries <- MCQueries
    Quotes <- MCQuotes
    Stopwords = {"the"}
    RrfK = 60
    TopK = 2
    TopN = 2
    MaxPieces = 3
    Paddings = {0, 4, 19}
    WordCounts = {1, 2, 6}
    MaxSentences = 5
    ParentMax = 9
    ChildMax = 5
    OverlapTokens = 2
    Numbers = {0, 3, 10}
    Thousand = 10
    Years = {2023, 2024}
    Periods <- MCPeriods
    KpiValues = {0, 2}
    TrendLength = 2
    MaxRows = 3
    Callers = {c1, c2}
    Interval = 2
    Backoff = 1
    MaxTicks = 10
    Notices = {n1, n2, n3}
    Recipients <- MCRecipients
    Requests = {r1, r2}
    MaxInbox = 2
    References = {1, 2, 3}
    Contents <- MCContents
    MaxOutputs = 2
INVARIANTS
    TypeOK
    BothListsFirst
    EnforcerIsStricter
    ChildrenCover
    NormalizedOrRefused
    ViewsAgree
    RequestsPaced
    UnreadKept
    FootnotesResolve
CHECK_DEADLOCK FALSE
