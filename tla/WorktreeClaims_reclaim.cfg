\* A run that keeps claiming a branch whose holder is gone.
SPECIFICATION PersistentSpec
CONSTANTS
    Run = {r1, r2}
    Thread = {t1}
    Resource = {x}
    TTLs = {1}
    Nothing = nothing
    MaxLeases = 2
    MaxTransfers = 0
    MaxAttempts = 1
PROPERTY ExpiredIsReclaimed
