CONSTANTS
    NonFinite = 999999
    PriceFloor = 0
    PriceCeiling = 300
    PreCeiling = 30000
    ThresholdAbs = 35
    Lookahead = 2
    Window = 3
    RecoveryTol = 1
    ParLevel = 100
    ParBand = 2
    ParMinRun = 2
    ParCooldown = 1
    Files <- MCFiles
    Profiles <- MCProfiles
    ChunkSizes = {1, 3}
    BatchSizes = {1, 2}
    OldRow <- MCOldRow
SPECIFICATION Spec
INVARIANTS CleanedFilesAreExact FilteringIgnoresBatches
CHECK_DEADLOCK FALSE
