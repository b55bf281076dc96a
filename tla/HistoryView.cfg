SPECIFICATION Spec
CONSTANTS
    r1 = r1
    r2 = r2
    Ids <- MCIds
    None = None
    MaxFaults = 1
INVARIANTS
    ViewAgrees
    OfferIsFree
    ClosedAfterResult
PROPERTIES
    GenerationSettles
CHECK_DEADLOCK FALSE
