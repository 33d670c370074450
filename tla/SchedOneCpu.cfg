CONSTANTS
    CPU = {c1}
    p1 = p1
    p2 = p2
    p3 = p3
    p4 = p4
    Proc = {p1, p2, p3}
    NULL = NULL
    MAX_PRIO = 3
    MAX_QUEUE_SIZE = 3
    UINT_MAX = 4
    prio <- MCPrio
SPECIFICATION HistoryFairSpec
INVARIANTS
    SlotRange
PROPERTIES
    HighestPriorityFirst
    NoStarvation
