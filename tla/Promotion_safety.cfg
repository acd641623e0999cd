\* Three endpoints, two concurrent operators, two promotions, one restart.
SPECIFICATION Spec
CONSTANTS
    Endpoint = {a, b, c}
    First = a
    Operator = {o1, o2}
    ExplicitKey = {k}
    Nobody = nobody
    MaxEpoch = 3
    MaxCommands = 2
    MaxRestarts = 1
SYMMETRY Symmetry
INVARIANTS
    TypeOK
    AtMostOneWriter
    NoDivergence
    WriterHasEverything
PROPERTIES
    ImplementsAuthority
\* Epochs, commands and restarts are bounded: the system may stop.
CHECK_DEADLOCK FALSE
