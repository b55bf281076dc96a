SPECIFICATION Spec
CONSTANTS
    Folders <- MCFolders
INVARIANTS
    ViewFitsRun
    HaltTakesHold
PROPERTIES
    OutcomesAreReal
    RunsEnd
CHECK_DEADLOCK FALSE
