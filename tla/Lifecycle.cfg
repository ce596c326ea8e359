CONSTANTS
    p1 = p1
    p2 = p2
    c1 = c1
    c2 = c2
    Procs <- OneProcess
    Cases <- TwoCases
    MaxVersion = 1
    MaxInvocations = 4
    Rewriting = {0}
    AllowRevert = FALSE
SPECIFICATION FairSpec
INVARIANTS
    CompleteIsConsistent
    ScoringUsesCapture
    BoundSources
    CheckpointRestorable
PROPERTIES
    CompletedOnce
    EventuallyComplete
CHECK_DEADLOCK FALSE
