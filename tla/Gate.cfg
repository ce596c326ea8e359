SPECIFICATION Spec
CONSTANTS
    builtin = builtin
    custom = custom
    Evaluators <- MCEvaluators
    External <- MCExternal
    Rows <- MCRows
    Configs <- MCConfigs
    MaxRows = 3
INVARIANTS
    CasesDecide
    DecisionIsEarned
    DegradingNeverHelps
CHECK_DEADLOCK FALSE
