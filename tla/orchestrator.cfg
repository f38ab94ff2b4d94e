SPECIFICATION Spec
CONSTANTS
    a = a
    b = b
    c = c
    d = d
    NoName = NoName
    Container = {a, b, c, d}
    Plans <- EveryPlan
CHECK_DEADLOCK FALSE
INVARIANTS
    TypeOK
    DependencyGate
    StageBarrier
    AbortHaltsItsChain
    ReportIsTruthful
    LayeringIsRight
PROPERTIES
    ResultsAreFinal
    KeepsThePromise
    Terminates
