CONSTANTS
    Roles = {"variant", "evaluator"}
    NumCases = 2
    RequestSize = 2
    PipeSize = 4
    StrayLines = {"malformed", "oversize"}
    MaxWritten = 9
SPECIFICATION FairSpec
INVARIANTS
    NoSurvivors
    FailureIsFinal
    SessionIsExact
PROPERTIES
    SessionEnds
CHECK_DEADLOCK FALSE
