CONSTANTS
    CPU = {c1, c2}
    p1 = p1
    p2 = p2
    p3 = p3
    p4 = p4
    Proc = {p1, p2, p3, p4}
    NULL = NULL
    MAX_PRIO = 2
    MAX_QUEUE_SIZE = 2
    UINT_MAX = 3
    prio <- CrowdPrio
SPECIFICATION HistorySpec
SYMMETRY Symmetry
INVARIANTS
    SchedTypeOK
    OnePlace
    NoneLost
    OverrunOnlyIfCrowded
