SPECIFICATION Spec
CONSTANTS
    Caller = {a, b}
    Consumer = {w}
    Cursors <- MCCursors
    Requests <- MCRequests
    Ops = {"start", "finish"}
    MaxAttempts = 2
    MaxIds = 2
    MaxEvents = 4
    MaxGhosts = 1
SYMMETRY Exchange
INVARIANT FinishedOnce
CHECK_DEADLOCK FALSE
