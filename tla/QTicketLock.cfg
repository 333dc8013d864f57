\* Two locks that compete for one slot; three threads and three tickets.
SPECIFICATION FairSpec
CONSTANTS
    a = a
    b = b
    Threads = {t1, t2, t3}
    Locks = {a, b}
    TicketMod = 3
    NQueues = 1
    Switch = 1
    Hash <- HashZero
    NULL = NULL
    BUSY = BUSY
INVARIANTS
    TypeOK
    MutualExclusion
    TicketsAccountForThreads
    NoDanglingElement
PROPERTIES
    NoStarvation
