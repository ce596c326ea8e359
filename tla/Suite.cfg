CONSTANTS
    c1 = c1
    q1 = q1
    Cases <- OneCase
    MaxRuns = 3
    Kinds = {"job", "direct"}
    Requests <- OneRequest
    MaxCrashes = 1
    MaxLabels = 4
SPECIFICATION SuiteSpec
INVARIANTS
    LabelsFollowHistory
PROPERTIES
    PromotionRespectsLabels
CHECK_DEADLOCK FALSE
