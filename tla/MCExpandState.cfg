CONSTANTS
    CheckPeriod = 2
    BatchCheck = 2
    MaxRounds = 50
    History = 2
    SmallDep = 1
    FullWidth = 2
    MaxU = 3
    ManyOuter = 1
    Levels <- MCLevels
    Scenarios <- MCScenarios
SPECIFICATION Spec
INVARIANTS
    TypeOK
    SatIsModel
    UnsatIsFalse
    NothingLost
PROPERTY
    Terminates
CHECK_DEADLOCK FALSE
