SPECIFICATION Spec
CONSTANTS
    Stem <- MCStem
    Threshold = 2
    Unwritten = Unwritten
INVARIANTS
    AccountsAreComplete
PROPERTIES
    BreakerHolds
CHECK_DEADLOCK FALSE
