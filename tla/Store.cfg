CONSTANTS
    j1 = j1
    j2 = j2
    p1 = p1
    None = None
    Jobs <- TwoJobs
    Promotions <- OnePromotion
    Traffics <- AllTraffics
    MaxUploads = 1
    MaxCrashes = 1
SPECIFICATION CiSpec
SYMMETRY JobSymmetry
INVARIANTS
    ProjectIsWhole
    ReferencesStaged
    PromotedBytes
    ExportIsOneRevision
PROPERTIES
    HistoryKept
CHECK_DEADLOCK FALSE
