CONSTANTS
    NumCases = 3
    Retries = 1
    Concurrency = 2
    Deadline = 2
    BaseDelay = 1
    MaxDelay = 2
    RetryAfter = 3
SPECIFICATION FairSpec
INVARIANTS
    AttemptsExplained
PROPERTIES
    RepeatsAreLicensed
    RunSettles
CHECK_DEADLOCK FALSE
