SPECIFICATION FairSpec
CONSTANTS
    a = a
    b = b
    Tabs = {a, b}
    NumKeys = 2
    MaxVersion = 3
    MaxBatches = 1
    Retries = 0
    MaxFaults = 1
    Page = 2
    QueueRows = 2
    WindowRows = 1
    MaxPeek = 2
    MaxNotices = 2
    Spans <- WholeSpan
    Floor <- ToTheMillisecond
INVARIANTS
    TypeOK
    NothingLost
    AckIsEarned
    MirrorConverges
PROPERTIES
    EverythingIsTold
    AtLeastOnceHolds
