SPECIFICATION Spec
CONSTANTS
    Appender = {a1, a2}
    Promoter = promoter
    Closer = {}
    Settings <- BatchedOnly
    MaxRetries = 0
INVARIANT NeverRawEpochFenced
CHECK_DEADLOCK FALSE
