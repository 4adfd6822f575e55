SPECIFICATION Spec

CONSTANTS
    Images <- AnalysisImages
    RESOLVE_TAILCALLS = FALSE
    BudgetLimited = FALSE
    PollBlocks = 1

INVARIANTS
    Consistent
    FunctionsAreOwned
    UndoneIsMadeGood
    EdgesAreBranches
    DataStaysApart
    CandidatesAreDecided

PROPERTIES
    LandingPadsStay
    OwnershipSpec
