SPECIFICATION Spec
CONSTANTS
    Replies <- MCReplies
    Described = 2
    MaxRetries = 2
    None = None
INVARIANTS
    UnloadedAtRest
    RecordsTellCall
    AcceptsExactly
