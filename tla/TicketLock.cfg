\* As many threads as ticket values: the counters wrap and meet.
SPECIFICATION FairSpec
CONSTANTS
    Threads = {t1, t2, t3, t4}
    TicketMod = 4
INVARIANTS
    TypeOK
    MutualExclusion
    TicketsInLine
PROPERTIES
    FirstComeFirstServed
    NoStarvation
