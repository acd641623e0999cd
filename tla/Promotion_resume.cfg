\* An operator that keeps retrying ends every interrupted promotion.
SPECIFICATION PersistentSpec
CONSTANTS
    Endpoint = {a, b, c}
    First = a
    Operator = {o1}
    ExplicitKey = {}
    Nobody = nobody
    MaxEpoch = 3
    MaxCommands = 2
    MaxRestarts = 0
PROPERTY PromotionCompletes
CHECK_DEADLOCK FALSE
