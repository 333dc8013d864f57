\* Two threads, which may each take a slot for the same lock.
SPECIFICATION Spec
CONSTANTS
    a = a
    b = b
    Threads = {t1, t2}
    Locks = {a, b}
    TicketMod = 4
    NQueues = 2
    Switch = 1
    Hash <- HashZero
    NULL = NULL
    BUSY = BUSY
SYMMETRY ThreadSymmetry
INVARIANTS
    SlotsComeBack
