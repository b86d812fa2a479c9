SPECIFICATION FairSpec
CONSTANTS
    q1 = q1
    q2 = q2
    Requests = {q1, q2}
    NumEvents = 3
    Excluded = {2}
    PageCap = 2
    MaxRuns = 3
    MaxChanges = 1
INVARIANTS
    TypeOK
    ReadyIsWhole
    LineageIsTwoWay
PROPERTIES
    TerminalStays
    SlotIsFreed
CHECK_DEADLOCK FALSE
