CONSTANTS
    Rows = {e1, e2}
    Writers = {w1}
    Workers = {k1, k2}
    Route = Route
    Nobody = Nobody
    BatchSize = 1
    MaxAttempts = 2
    MaxRecovers = 1
    MaxCount = 2
SPECIFICATION FairSpec
INVARIANTS
    TypeOK
    CompletedMeansClean
PROPERTIES
    EnforcedOrFailed
