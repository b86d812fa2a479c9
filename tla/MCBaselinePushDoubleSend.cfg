SPECIFICATION Spec
CONSTANTS
    a = a
    b = b
    Tabs = {a, b}
    NumKeys = 2
    MaxVersion = 2
    MaxBatches = 2
    Retries = 0
    MaxFaults = 1
    Page = 2
    QueueRows = 2
    WindowRows = 1
    MaxPeek = 1
    MaxNotices = 1
    Spans <- WholeSpan
    Floor <- ToTheMillisecond
INVARIANTS
    DoubleSendIsHarmless
