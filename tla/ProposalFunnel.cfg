CONSTANTS
    p1 = p1
    p2 = p2
    s1 = s1
    s2 = s2
    s3 = s3
    None = None
    Invalid = Invalid
    Funnels = {p1, p2}
    Strategies = {s1, s2, s3}
    Arms <- MCArms
    K = 2
    M = 2
    Responses <- MCResponses
    Survives <- MCSurvives
    Cached <- MCCached
    Earlier = Earlier
    Caps = {1, 2}
    MaxFaults = 1
SYMMETRY Symmetry
SPECIFICATION Spec
INVARIANTS
    SurvivorsAreTheFunnels
    LoggedBeforeSelection
    PlannedOrHalted
CHECK_DEADLOCK FALSE
