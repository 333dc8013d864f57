SPECIFICATION Spec
CONSTANTS
    Counters <- MCCounters
    LowMod = 2
    HighMod = 2
    CaveSeq <- MCCaveSeq
    TotSeq <- MCTotSeq
    ProbeSeq <- MCProbeSeq
    Workers = {"w1"}
    PapiPairs <- MCPapiPairs
    PapiStart <- MCPapiStart
    MaxFd = 1
    MaxEvents = 4
INVARIANTS
    TypeOK
    TotalsExact
    ReportsReal
    WorkersFollow
