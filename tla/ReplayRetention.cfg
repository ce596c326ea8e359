CONSTANTS
    q1 = q1
    q2 = q2
    yes = yes
    no = no
    None = None
    Garbled = Garbled
    Values <- TwoValues
    Requests <- TwoRequests
    MaxEdits = 2
SPECIFICATION Spec
INVARIANT RawDisabledRunsReplay
CHECK_DEADLOCK FALSE
