\* Two clones that merge, boards read past conflict markers, boards rebuilt,
\* and a failure: of a git command, of an answer, or of the process of a command.
SPECIFICATION Spec
CONSTANTS
    x = x
    y = y
    cx = cx
    cy = cy
    task1 = task1
    task2 = task2
    mark1 = mark1
    mark2 = mark2
    Agent = {x, y}
    Clone = {cx, cy}
    At <- Apart
    Task = {task1}
    NoTask = notask
    Stamp = {mark1, mark2}
    NoStamp = nostamp
    NoGuard = noguard
    NoRow = norow
    StartStatus = {"queued"}
    MaxCalls = 3
    MaxFailures = 1
INVARIANTS
    MarkersStayLocal
    OneClaimWins
PROPERTIES
    ClaimsAreSerial
    NilClaimIsPublished
    RemoteStepsAreLegal
SYMMETRY Exchange
CHECK_DEADLOCK FALSE
