CONSTANTS
    MaxDecimal = 3
    MaxCases = 2
    Inputs <- FileInputs
    Sessions <- MCSessions
    Occupied <- MCOccupied
SPECIFICATION MCSpec
INVARIANTS
    OutputsAreJudged
    FactsAddUp
    FinancialIsConsistent
    StimulusDecides
    ImportIsSound
CHECK_DEADLOCK FALSE
