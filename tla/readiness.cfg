SPECIFICATION FairSpec
CONSTANTS
    Probes <- EveryProbe
    Timeout = 4
    Interval = 1
    Grace = 2
    MaxProbe = 2
CHECK_DEADLOCK FALSE
INVARIANTS
    TypeOK
    ReadyIsEarned
    GraceIsExact
    BoundedWait
    SteadyReadinessIsSeen
    CancelEnds
PROPERTY
    Terminates
