CONSTANTS
    j1 = j1
    j2 = j2
    d1 = d1
    NoOne = NoOne
    Jobs <- TwoJobs
    Direct <- OneDirect
    WritesMayFail = TRUE
    MayPanic = TRUE
    MayCrash = TRUE
SPECIFICATION FairSpec
INVARIANTS
    CompleteIsReadable
PROPERTIES
    LinearHistory
    KeepsContract
    JobsSettle
CHECK_DEADLOCK FALSE
