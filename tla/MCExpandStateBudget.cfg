CONSTANTS
    CheckPeriod = 2
    BatchCheck = 2
    MaxRounds = 50
    History = 2
    SmallDep = 1
    FullWidth = 2
    MaxU = 3
    ManyOuter = 1
    Levels <- MCLevels
    Scenarios <- BothScenarios
SPECIFICATION Spec
INVARIANT
    ExhaustionIsUnsat
CHECK_DEADLOCK FALSE
