CONSTANTS
    Passes = {p1}
    Rebuilds = {b1}
    Adders = {a1, a2, a3}
    Nobody = Nobody
    PoolSize = 4
SPECIFICATION FairSpec
PROPERTIES
    LockIsReleased
CHECK_DEADLOCK FALSE
