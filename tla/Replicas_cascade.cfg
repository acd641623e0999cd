\* Two callers over an active endpoint, its git mirror and a replica of the mirror.
SPECIFICATION Spec
CONSTANTS
    a = a
    g = g
    d = d
    Endpoint = {a, g, d}
    Active = a
    ReplicaIDs <- Cascade
    RemoteBacked = {g}
    Worker = {w, x}
    MaxEvents = 2
    MaxEpoch = 2
    MaxCalls = 3
    MaxFailures = 1
INVARIANTS
    TypeOK
    NothingIsLost
    SatisfiedMeansDurable
    RestoredMeansReplayed
    NoFalseDivergence
PROPERTIES
    ImplementsMirroredChain
CHECK_DEADLOCK FALSE
