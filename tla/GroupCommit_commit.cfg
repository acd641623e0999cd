\* Two commands with one retry between them, a fence, and windows of two or no
\* batcher: the append path against a promotion, without Close.
SPECIFICATION Spec
CONSTANTS
    Appender = {a1, a2}
    Promoter = promoter
    Closer = {}
    Settings <- BothSettings
    MaxRetries = 1
SYMMETRY Symmetry
INVARIANTS
    TypeOK
    NilMeansDurable
    ErrorMeansAbsent
    CommandAtMostOnce
    NothingPendingBehindFence
    CountFlushesFullWindow
PROPERTIES
    FencedLogIsFrozen
\* Appenders make finitely many submissions: the system stops when they have.
CHECK_DEADLOCK FALSE
