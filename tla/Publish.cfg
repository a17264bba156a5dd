SPECIFICATION PublishSpec
CONSTANTS
    r1 = r1
    r2 = r2
    NoDirectory = NoDirectory
    Runs <- TwoRuns
    MaxBundles = 2
    MaxEditions = 4
INVARIANTS
    OutcomeIsTrue
PROPERTY
    PublicationIsAtomic
CHECK_DEADLOCK FALSE
