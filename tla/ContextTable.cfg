\* Three processes that start, end and are killed at any point.
SPECIFICATION FairSpec
CONSTANTS
    Procs = {p1, p2, p3}
    NContexts = 3
    CountMod = 4
    NONE = NONE
INVARIANTS
    TypeOK
    CalmTable
PROPERTIES
    DeadHolderCleared
CHECK_DEADLOCK FALSE
