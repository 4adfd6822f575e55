SPECIFICATION FairSpec

CONSTANTS
    Addr = {1, 2, 3}
    Scores = {0, 1, 2}
    MaxItems = 4

INVARIANTS
    QueueOk

PROPERTIES
    Promised
    NextAnswers
