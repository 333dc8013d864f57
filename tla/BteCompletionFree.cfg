\* A client that migrates, waits as ncbte_wait_completion's comment says it may,
\* and frees its completion.
SPECIFICATION Spec
CONSTANTS
    Threads = {t1, t2}
    Chips = {c1, c2}
    NQueues = 1
    MaxQueued = 2
    NULL = NULL
    OneInFlight = TRUE
    WaitBeforeFree = TRUE
    TrustsWait = {t1, t2}
    Migrants = {t1}
INVARIANTS
    NoLateFence
CHECK_DEADLOCK FALSE
