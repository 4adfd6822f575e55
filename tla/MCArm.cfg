SPECIFICATION HistorySpec
CONSTANT Images <- ArmImages

INVARIANTS
    ModesAreSettled
    PoolsAreApart
    EntriesAreApart

CHECK_DEADLOCK FALSE
