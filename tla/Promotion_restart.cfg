\* The same after the fenced endpoint has restarted with its configured role.
SPECIFICATION PersistentSpec
CONSTANTS
    Endpoint = {a, b}
    First = a
    Operator = {o1}
    ExplicitKey = {}
    Nobody = nobody
    MaxEpoch = 2
    MaxCommands = 1
    MaxRestarts = 1
PROPERTY PromotionCompletes
CHECK_DEADLOCK FALSE
