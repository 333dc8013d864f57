\* Three processes that start, end and are killed at any point.
SPECIFICATION Spec
CONSTANTS
    Procs = {p1, p2, p3}
    NContexts = 3
    CountMod = 4
    NONE = NONE
SYMMETRY Symmetry
INVARIANTS
    LockExcludes
CHECK_DEADLOCK FALSE
