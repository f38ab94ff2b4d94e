SPECIFICATION Spec
CONSTANTS
    a = a
    b = b
    c = c
    d = d
    NoName = NoName
    Container = {a, b, c, d}
    Plans <- AllPlans
CHECK_DEADLOCK FALSE
INVARIANT OutsideDepsStarted
