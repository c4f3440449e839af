CONSTANTS
    None = None
    MaxProof = 300
    PassCap = 3
    BceSlack = 0
    Problems <- MCProblems
SPECIFICATION PipelineSpec
INVARIANTS
    TypeOK
    UnsatSound
    SatSound
    NothingSkipped
    NeverRejected
    FedIsImplied
CHECK_DEADLOCK FALSE
