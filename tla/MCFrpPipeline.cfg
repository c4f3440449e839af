CONSTANTS
    None = None
    MaxProof = 300
    Problems <- MCProblems
SPECIFICATION PipelineSpec
INVARIANTS
    TypeOK
    IdxComplete
    UnsatSound
    SatSound
    NeverRejected
PROPERTIES
    Terminates
    UnsatIsVerified
CHECK_DEADLOCK FALSE
