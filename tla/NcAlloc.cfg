\* The main thread and one that comes and goes, blocks of two chunks, three blocks in all.
SPECIFICATION Spec
CONSTANTS
    BlkSize = 1024
    AdjustMin = 256
    main = main
    w1 = w1
    w2 = w2
    Threads = {main, w1}
    Main = main
    NBlk = 3
    MaxThreads = 2
    KeepBlk = 1
    KeepBig = 2
    Sizes = {300, 500, 1000}
    Aligns = {32}
    InfoSize = 300
    MaxLive = 4
    Clients = {}
    NULL = NULL
INVARIANTS
    TypeOK
    BuffersApart
    ListsSound
    ChunksAccounted
    RoomFirst
    NoFault
