SPECIFICATION FairSpec

CONSTANTS
    Images <- BudgetImages
    RESOLVE_TAILCALLS = TRUE
    BudgetLimited = TRUE
    PollBlocks = 1

PROPERTIES
    StopsAfterTimeout
    Terminates
