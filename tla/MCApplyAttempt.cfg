CONSTANTS
    Confirmers = {c1, c2}
    Retriers = {r1}
    External = {e1}
    MaxAttempts = 2
    NoCall = NoCall
SPECIFICATION Spec
SYMMETRY ConfirmSymmetry
INVARIANTS
    TypeOK
    ClaimDiscipline
    OneRequestPerDispatch
    RequestsWithinCap
    NothingBeforeManagerDb
    SucceededEverywhere
    StatusAgrees
PROPERTIES
    TerminalIsFinal
    SettledDispatchIsFinal
CHECK_DEADLOCK FALSE
