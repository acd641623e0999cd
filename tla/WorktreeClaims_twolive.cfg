\* A branch is claimed, abandoned and reclaimed while claim events are late.
SPECIFICATION ClaimsSpec
CONSTANTS
    Run = {r1, r2}
    Thread = {t1}
    Resource = {x}
    TTLs = {1}
    Nothing = nothing
    MaxLeases = 2
    MaxTransfers = 1
    MaxAttempts = 1
SYMMETRY Symmetry
INVARIANT OneLiveClaimPerBranch
