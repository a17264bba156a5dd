SPECIFICATION FairSpec
CONSTANTS
    r1 = r1
    r2 = r2
    r3 = r3
    r4 = r4
    Runs <- ThreeRuns
    Exclusive = TRUE
INVARIANTS
    TypeOK
    AtMostOneEvaluation
    RestartBudget
    ProvenanceOrder
    MarkerTellsTheStages
PROPERTIES
    PromiseKept
    SingleCrashSurvived
