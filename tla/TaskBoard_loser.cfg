\* Two claims race; nothing fails.  Run by hand.
SPECIFICATION Spec
CONSTANTS
    x = x
    y = y
    cx = cx
    cy = cy
    task1 = task1
    task2 = task2
    mark1 = mark1
    mark2 = mark2
    Agent = {x, y}
    Clone = {cx, cy}
    At <- Apart
    Task = {task1}
    NoTask = notask
    Stamp = {mark1, mark2}
    NoStamp = nostamp
    NoGuard = noguard
    NoRow = norow
    StartStatus = {"queued"}
    MaxCalls = 2
    MaxFailures = 0
PROPERTIES
    LoserReceivesErrConflict
CHECK_DEADLOCK FALSE
