SPECIFICATION StatusSpec
CONSTANTS
    MaxChecks = 3
INVARIANTS
    ChecksAreOwned
    ClosedIsQuiet
PROPERTIES
    ChecksSettle
CHECK_DEADLOCK FALSE
