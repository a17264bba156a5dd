CONSTANTS
    Bonds = {1, 2, 3}
    Cells <- MCCells
    NaN = 999
    Rulebooks <- MCRulebooks
    Holding = 2
    MaxMonths = 3
    Anchors <- MCAnchors
    OffLag = 0
    OnLag = 1
    Scale = 576
    ShareUnit = 60
SPECIFICATION AuditSpec
INVARIANTS CohortsOpenAsTheEngine TrimBoundsEveryMonth AttributionAddsUp
    TestedIsReported NoOpIsMeasured EachCellIsItsOwnRun
PROPERTIES RealisedNeverRevised
CHECK_DEADLOCK FALSE
