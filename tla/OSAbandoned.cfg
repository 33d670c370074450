CONSTANTS
    CPU = {c1}
    LD = ld
    Device = {c1, ld}
    TimeCap = 2
    p1 = p1
    p2 = p2
    p3 = p3
    p4 = p4
    Proc = {p1}
    NULL = NULL
    MAX_PRIO = 2
    MAX_QUEUE_SIZE = 3
    UINT_MAX = 3
    time_slot = 1
    prio <- OnePrio
    start_time <- OneStart
    size <- OneSize
    ld_processes <- OneOrder
SPECIFICATION Spec
INVARIANT NoneAbandoned
