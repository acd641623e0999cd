\* Two runs, one branch: the leases and the claims recorded after them, with
\* deadlines that pass, lost races and retries, abandoned appends, a reclaim
\* and a handoff of each lease.
SPECIFICATION ClaimsSpec
CONSTANTS
    Run = {r1, r2}
    Thread = {t1}
    Resource = {x}
    TTLs = {1}
    Nothing = nothing
    MaxLeases = 2
    MaxTransfers = 1
    MaxAttempts = 2
SYMMETRY Symmetry
INVARIANTS
    ClaimsTypeOK
    OneLeasePerResource
    PinnedDecisionHolds
    OneWriterPerResource
    ReleasedClaimIsOver
