CONSTANTS
    Runs = {r1, r2}
    NoRun = NoRun
    PageSize = 1
    MaxPages = 2
    MaxEvents = 3
SPECIFICATION FairSpec
INVARIANTS
    TypeOK
    NoGap
PROPERTIES
    EventsAreIngested
