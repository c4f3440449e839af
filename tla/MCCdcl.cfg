CONSTANTS
    Instances <- MCInstances
    RestartUnit = 2
SPECIFICATION FairSpec
INVARIANTS TypeOK TrailJustified NothingMissed AnswersRight CutsExact
PROPERTY Terminates
