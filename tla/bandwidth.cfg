SPECIFICATION FairSpec
CONSTANTS
    Name = {n1}
    Iface = {"eth0", "eth1"}
    Caps <- SomeCaps
    Settings = {"eth0", ""}
    Route = "eth1"
    Faults = {"clear", "detect", "pause", "pid", "recreate", "restart"}
CHECK_DEADLOCK FALSE
INVARIANTS
    TypeOK
    CapsAreRemembered
PROPERTIES
    Converges
    Reasserts
