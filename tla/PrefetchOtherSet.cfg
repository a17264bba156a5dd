SPECIFICATION Spec
CONSTANTS
    k1 = k1
    k2 = k2
    None = None
    Live = Live
    Keys <- TwoKeys
    JobSets <- DifferentSets
    MaxBatches = 3
    ChunkSize = 2
    RetrieveMayFail = FALSE
INVARIANT
    CollectedIsCached
CHECK_DEADLOCK FALSE
