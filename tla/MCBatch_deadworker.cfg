SPECIFICATION Spec

CONSTANTS
    Corpus <- FourFiles
    LargeFiles <- None
    workers = 1
    Capacity = 1
    resume = FALSE
    MaxDeaths = 1
    MaxRuns = 1

INVARIANTS
    EveryFileAccountedFor
