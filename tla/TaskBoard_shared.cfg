\* Two agents of one clone.  Run by hand.
SPECIFICATION Spec
CONSTANTS
    x = x
    y = y
    cx = cx
    cy = cy
    task1 = task1
    task2 = task2
    mark1 = mark1
    mark2 = mark2
    Agent = {x, y}
    Clone = {cx}
    At <- Together
    Task = {task1}
    NoTask = notask
    Stamp = {mark1, mark2}
    NoStamp = nostamp
    NoGuard = noguard
    NoRow = norow
    StartStatus = {"queued"}
    MaxCalls = 3
    MaxFailures = 0
INVARIANTS
    OneClaimWins
CHECK_DEADLOCK FALSE
