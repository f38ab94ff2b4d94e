SPECIFICATION LoopSpec
CONSTANTS
    Client = {c1, c2}
    Configs <- SomeConfigs
    MinutesPerDay = 2
    MaxHalfMinutes = 8
    MaxSaves = 2
    Faults = {"slow", "load", "restart"}
CHECK_DEADLOCK FALSE
INVARIANTS
    LoopTypeOK
    OncePerMinute
    SaveIsPickedUp
PROPERTY
    EveryMinuteIsServed
