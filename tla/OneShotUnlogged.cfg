SPECIFICATION Spec
CONSTANTS
    r1 = r1
    r2 = r2
    r3 = r3
    r4 = r4
    Runs <- ThreeRuns
    Exclusive = TRUE
INVARIANT
    EveryAccessLogged
