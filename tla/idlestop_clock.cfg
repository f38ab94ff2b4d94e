SPECIFICATION Spec
CONSTANTS
    Name = {n1}
    Nobody = Nobody
    Windows = {0, 2, 3}
    Others = {TRUE, FALSE}
    Floor = 1
    MaxNet = 2
    MaxTime = 4
CHECK_DEADLOCK FALSE
INVARIANT TypeOK
PROPERTY StopsExactlyTheIdle
