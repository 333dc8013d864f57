\* Two chips with two queues each; t1 stays where it is and trusts wait, t2
\* migrates and polls.  Either has one transfer in flight, and frees a
\* completion only when it thinks that its transfers are done.
SPECIFICATION Spec
CONSTANTS
    Threads = {t1, t2}
    Chips = {c1, c2}
    NQueues = 2
    MaxQueued = 2
    NULL = NULL
    OneInFlight = TRUE
    WaitBeforeFree = TRUE
    TrustsWait = {t1}
    Migrants = {t2}
INVARIANTS
    TypeOK
    QueueHasOneOwner
    WaitMeansDone
    CheckMeansDone
    FenceIsPinned
    NoLateFence
    NoQueueLeak
    FenceComes
PROPERTIES
    RegionStays
SYMMETRY ChipSymmetry
CHECK_DEADLOCK FALSE
