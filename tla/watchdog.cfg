SPECIFICATION Spec
CONSTANTS
    Name = {n1}
    Nobody = Nobody
    Entries <- AllEntries
    Hour = 3
    MaxTime = 7
    StopCodes = {"quiet"}
CHECK_DEADLOCK FALSE
INVARIANTS
    TypeOK
    HistoryIsExact
PROPERTY
    CapHolds
