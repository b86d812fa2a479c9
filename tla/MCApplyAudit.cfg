CONSTANTS
    Wrappers = {w1, w2}
    Sweeps = {s1, s2}
SPECIFICATION FairSpec
INVARIANTS
    TypeOK
    AuditedAtMostOnce
    CompletedIsDurable
    NeverRemovedUnaudited
PROPERTIES
    EventuallyAudited
CHECK_DEADLOCK FALSE
