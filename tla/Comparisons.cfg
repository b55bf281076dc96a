SPECIFICATION Spec
CONSTANTS
    Lists <- MCLists
    Classes <- MCClasses
    MatchIou = 500
    ConfidenceThreshold = 150
    BoundaryMargin = 1
    StrictTolerance = 1
    BoxTolerance = 1
    Results <- MCResults
    Unmeasured = Unmeasured
    Backends <- MCBackends
    ComparedPairs <- MCComparedPairs
    ImageCount = 2
    Namings <- MCNamings
    Repeat = 2
    Measurements <- MCMeasurements
    Absent = Absent
    PairedStem <- MCPairedStem
    PairedLists <- MCPairedLists
    FailOnWarning = FALSE
    NoFile = NoFile
INVARIANTS
    MatchingsAreSound
    VerdictsAreSound
    CountsAreSound
    RecommendationIsSound
    ReportsTellMeasurements
    BatchTellsResults
CHECK_DEADLOCK FALSE
