\* An endpoint and a second clone that appends envelopes to the same branch.
SPECIFICATION Spec
CONSTANTS
    Clone = {a, b}
    Endpoint = {a}
    Envelope <- One
    FenceKey = {k}
    Nobody = nobody
    MaxSource = 1
    MaxEvents = 1
    MaxFailures = 2
INVARIANTS
    DurableMeansRemote
    RecordedOnce
    UnpushedIsExplained
    ReceiptNamesItsCommit
CHECK_DEADLOCK FALSE
