SPECIFICATION FairSpec
CONSTANTS
    k1 = k1
    k2 = k2
    None = None
    Live = Live
    Keys <- TwoKeys
    JobSets <- WholeSet
    MaxBatches = 3
    ChunkSize = 2
    RetrieveMayFail = TRUE
INVARIANTS
    CollectedIsCached
PROPERTIES
    ResubmitsOnlySkipped
    NeverRebuysCached
    RunEnds
CHECK_DEADLOCK FALSE
