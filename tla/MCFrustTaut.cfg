CONSTANTS
    None = None
    MaxProof = 300
    PassCap = 256
    BceSlack = 256
    Problems <- TautProblems
SPECIFICATION PipelineSpec
INVARIANT
    UnsatSound
CHECK_DEADLOCK FALSE
