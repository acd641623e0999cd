SPECIFICATION Spec
CONSTANTS
    Caller = {a, b}
    Consumer = {w}
    Cursors <- MCCursors
    Requests <- MCRequests
    Ops = {"create", "start", "send", "record", "finish", "correct", "ack", "move_effort", "move_run", "advance"}
    MaxAttempts = 2
    MaxIds = 2
    MaxEvents = 4
    MaxGhosts = 1
SYMMETRY Exchange
INVARIANTS
    HistoryIsLegal
    AnswersAreCurrent
    AttemptsAreOvertaken
CHECK_DEADLOCK FALSE
