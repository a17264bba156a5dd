SPECIFICATION Spec
CONSTANTS
    Members <- MCMembers
    Models <- MCModels
    Responses = {"script", "prose"}
    Scripts = {"script"}
    Costs = {2}
    CallBound = 2
    UsdCap = 5
    Options <- MCOptions
    ABSENT = ABSENT
    MaxStarts = 2
    MaxFaults = 1
INVARIANTS
    SpendWithinPreflight
    PaidOnce
    SeriesIsThisRuns
    ReportableIsEarned
PROPERTIES
    RecordedOnce
CHECK_DEADLOCK FALSE
