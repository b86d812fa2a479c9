CONSTANTS
    Rows = {e1, e2, e3}
    Writers = {w1}
    Workers = {k1}
    Route = Route
    Nobody = Nobody
    BatchSize = 1
    MaxAttempts = 2
    MaxRecovers = 0
    MaxCount = 2
SPECIFICATION Spec
INVARIANTS
    PartialBatchExhausts
