SPECIFICATION FairSpec

CONSTANTS
    Images <- AllImages
    Calls <- AllCalls
    Settings <- AllSettings
    MaxCalls = 2
    MaxTime = 2

INVARIANTS
    AnswersAreTheirOwn
    NothingStaysBehind

PROPERTIES
    CallsAreAnswered

CHECK_DEADLOCK FALSE
