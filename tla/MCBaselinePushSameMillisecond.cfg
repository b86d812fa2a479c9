SPECIFICATION FairSpec
CONSTANTS
    a = a
    b = b
    Tabs = {a}
    NumKeys = 2
    MaxVersion = 1
    MaxBatches = 1
    Retries = 0
    MaxFaults = 0
    Page = 1
    QueueRows = 2
    WindowRows = 1
    MaxPeek = 2
    MaxNotices = 0
    Spans <- WholeSpan
    Floor <- ToTheMillisecond
PROPERTIES
    NeverADeadlock
