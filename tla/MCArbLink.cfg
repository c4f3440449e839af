CONSTANTS
    CheckPeriod = 2
    BatchCheck = 2
    MaxRounds = 50
    History = 2
    SmallDep = 1
    FullWidth = 2
    MaxU = 3
    ManyOuter = 1
    Levels <- MCLevels
    Scenarios <- LinkScenarios
SPECIFICATION Spec
INVARIANT
    RefutedRowIsFalse
CHECK_DEADLOCK FALSE
