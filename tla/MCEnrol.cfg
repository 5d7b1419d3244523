SPECIFICATION Spec
CONSTANTS
    Boots = {b1, b2}
    Keys = {k1, k2, k3, k4, k5, k6}
    Ports = {p1, p2}
    MaxInvites = 6
    MaxFaults = 3
    MaxDelays = 1
    None = None
INVARIANTS
    ProfileIsTrue
    OneWayIn
    DeadEndsNeedFaults

    
CHECK_DEADLOCK FALSE
