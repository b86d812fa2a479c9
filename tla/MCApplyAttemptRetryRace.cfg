\* Two retries of one attempt at a time.
CONSTANTS
    Confirmers = {c1}
    Retriers = {r1, r2}
    External = {e1}
    MaxAttempts = 2
    NoCall = NoCall
SPECIFICATION Spec
PROPERTIES
    CapHardLocks
CHECK_DEADLOCK FALSE
