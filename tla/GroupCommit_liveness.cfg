\* Every append is answered, every fence ends, and Close leaves nothing behind.
SPECIFICATION FairSpec
CONSTANTS
    Appender = {a1, a2}
    Promoter = promoter
    Closer = {c1, c2}
    Settings <- BatchedOnly
    MaxRetries = 0
INVARIANTS
    NothingPendingAfterClose
PROPERTIES
    AppendIsAnswered
    FenceEnds
CHECK_DEADLOCK FALSE
