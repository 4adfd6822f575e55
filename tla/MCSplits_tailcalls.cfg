SPECIFICATION HistorySpec

CONSTANTS
    Images <- SplitImages
    RESOLVE_TAILCALLS = TRUE
    BudgetLimited = FALSE
    PollBlocks = 1

INVARIANTS
    SplitsKeepCode
