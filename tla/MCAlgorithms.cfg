SPECIFICATION Spec

CONSTANTS
    Page = 4
    HeaderGap = 4
    Bogus = 40
    MAX_IMAGE_SIZE = 30
    HeaderSize = 1
    MaxPrologue = 8
    Grain = 2
    FileUnit = 2
    BaseUnit = 8
    PointerSize = 1
    MaxPadding = 4
    StringReach = 2
    MaxStringSpan = 12
    MaxOrdinal = 2
    Resolvable = {1}
    Narrow = 64
    Wide = 128
    Word = 2
    MaxSized = 5
    MaxDerefs = 2
    CacheEntries = 2
    PtrSize = 4
    MaxRecords = 8
    MaxLsdaBytes = 40
    MaxHdrEntries = 3
    CandidateAlignment = 4
    HoistWindow = 3
    PollInterval = 2
    MinCallTargets = 2
    MinEntries = 4
    SeedEntries = 2
    SampleStride = 16
    GapRunLimit = 16
    StartWindow = 8
    MaxFunctionSize = 24
    MinRun = 2
    KnownShare = 50
    AlignmentSample = 0
    Tasks <- AllTasks

INVARIANTS
    FilesAreMapped
    ReportsAreRight
    TablesAreResolved
    RegistersAreTracked
    RebuiltFilesLoad
    StringsAreWhole
    StartsAreFound
    PatternsAreStarts

CHECK_DEADLOCK FALSE
