SPECIFICATION FairSpec
CONSTANTS
    Line = 4
    Page = 8
    Small = 2
    MaxBtce = 8
    Word = 32
    Size = 256
    Regions <- TwoPages
    NULL = NULL
    MaxOffset = 16
    MaxLength = 16
    Short = FALSE
INVARIANTS
    TypeOK
    ExactlyTheRequest
    NeverBeyond
PROPERTIES
    Succeeds
CHECK_DEADLOCK FALSE
