CONSTANTS
    None = None
    MaxProof = 300
    PassCap = 256
    BceSlack = 256
    Problems <- CutProblems
SPECIFICATION PipelineSpec
INVARIANT
    SatSound
CHECK_DEADLOCK FALSE
