SPECIFICATION Spec
CONSTANTS
    None = None
    N = 3
    Keys <- FiveKeys
    Strategies <- ThreeStrategies
    Compiled <- CompiledTo
    PValues <- TriedPValues
    Q = 6
    One = 60
    Medians <- TwoMedians
INVARIANTS
    OneHypothesisPerStrategy
    RejectionIsStepUp
    SignAware
    FunnelAgrees
CHECK_DEADLOCK FALSE
