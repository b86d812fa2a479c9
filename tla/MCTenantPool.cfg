CONSTANTS
    Passes = {p1, p2}
    Rebuilds = {b1}
    Adders = {a1, a2}
    Nobody = Nobody
    PoolSize = 4
SPECIFICATION FairSpec
INVARIANTS
    TypeOK
    NoStandstill
PROPERTIES
    AdderIsServed
