CONSTANTS
    CPU = {c1, c2}
    LD = ld
    Device = {c1, c2, ld}
    TimeCap = 3
    p1 = p1
    p2 = p2
    p3 = p3
    p4 = p4
    Proc = {p1, p2, p3, p4}
    NULL = NULL
    MAX_PRIO = 2
    MAX_QUEUE_SIZE = 2
    UINT_MAX = 3
    time_slot = 2
    prio <- MCPrio
    start_time <- MCStart
    size <- MCSize
    ld_processes <- MCOrder
SPECIFICATION FairSpec
INVARIANTS
    OSTypeOK
    FinishedInFull
    LastLevelServed
    QuantaInFull
PROPERTIES
    RunOncePerSlot
    SlotEnds
    Progress
