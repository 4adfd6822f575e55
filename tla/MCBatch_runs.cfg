SPECIFICATION FairSpec

CONSTANTS
    Corpus <- FourFiles
    LargeFiles <- ThreeLarge
    workers = 2
    Capacity = 2
    resume = TRUE
    MaxDeaths = 1
    MaxRuns = 2

INVARIANTS
    OneSummaryEach
    ReportsAreOwn
    PoolsStayWithinBounds

PROPERTIES
    FinishedReportsStay
    RunsEnd
