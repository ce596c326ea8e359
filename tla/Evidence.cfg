CONSTANTS
    q1 = q1
    q2 = q2
    yes = yes
    no = no
    None = None
    Garbled = Garbled
    Values <- TwoValues
    Requests <- TwoRequests
    MaxEdits = 2
SPECIFICATION Spec
INVARIANTS
    ReplayIsExact
    ArchiveIsWhole
PROPERTIES
    IntegrityAnswersAreTrue
    PageShowsBoundRows
    AuthorizationIsReproduced
CHECK_DEADLOCK FALSE
