SPECIFICATION Spec

CONSTANTS
    Images <- AllImages
    Calls <- AllCalls
    Settings <- AllSettings
    MaxCalls = 1
    MaxTime = 1

INVARIANTS
    NamesAreMerged

CHECK_DEADLOCK FALSE
