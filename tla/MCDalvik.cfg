SPECIFICATION FairSpec
CONSTANTS
    Images <- DexFiles
    HeaderUnits = 2
    AlignUnits = 2
    MaxPasses = 8
    MaxAttempts = 4
    MaxCandidates = 2
    SampleUnits = 3

INVARIANTS
    MethodsAreWalkedWhole
    MethodsAreSettled

PROPERTIES
    RunEnds

CHECK_DEADLOCK FALSE
