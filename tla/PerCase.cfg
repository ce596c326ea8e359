CONSTANTS
    NumCases = 2
    RequestSize = 2
    PipeSize = 2
    StrayLines = {"malformed", "blank"}
    OutputLimit = 2
    MaxWritten = 4
SPECIFICATION FairSpec
PROPERTIES
    CasesAreSeparate
    RunEnds
CHECK_DEADLOCK FALSE
