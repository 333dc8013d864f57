\* A lock that can take either of two slots, three threads.
SPECIFICATION FairSpec
CONSTANTS
    a = a
    b = b
    Threads = {t1, t2, t3}
    Locks = {a}
    TicketMod = 4
    NQueues = 2
    Switch = 1
    Hash <- HashZero
    NULL = NULL
    BUSY = BUSY
PROPERTIES
    NoStarvation
CHECK_DEADLOCK FALSE
