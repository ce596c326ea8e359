CONSTANTS
    p1 = p1
    p2 = p2
    c1 = c1
    c2 = c2
    Procs <- TwoProcesses
    Cases <- OneCase
    MaxVersion = 0
    MaxInvocations = 2
    Rewriting = {0}
    AllowRevert = FALSE
SPECIFICATION Spec
PROPERTIES
    CompleteIsFinal
CHECK_DEADLOCK FALSE
