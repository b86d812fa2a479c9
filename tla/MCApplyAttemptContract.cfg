CONSTANTS
    Confirmers = {c1}
    Retriers = {r1}
    External = {e1}
    MaxAttempts = 2
    NoCall = NoCall
SPECIFICATION FairSpec
PROPERTIES
    ContractSpec
    AttemptEnds
CHECK_DEADLOCK FALSE
