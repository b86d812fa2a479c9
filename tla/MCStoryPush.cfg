SPECIFICATION FairSpec
CONSTANTS
    left = left
    right = right
    NumKeys = 2
    Tabs = {left, right}
    Analysts = {"analyst"}
    Page = 1
    Refreshed = {1}
    MaxGen = 2
    MaxNow = 3
    MaxNotices = 1
    MaxMints = 1
    MaxFaults = 1
INVARIANTS
    TypeOK
    MarksAreTrue
PROPERTIES
    AnalystKept
    EveryStoryIsTold
