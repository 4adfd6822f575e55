SPECIFICATION FairSpec
CONSTANTS
    Images <- GapImages
    Alignment = 4
    Window = 5
    MaxBody = 3

INVARIANTS
    ScanIsOrderly
    GapsAreOpened
    NotesAreConsumed

PROPERTIES
    ScanEnds

CHECK_DEADLOCK FALSE
