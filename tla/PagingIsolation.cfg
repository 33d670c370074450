CONSTANTS
    Proc = {p1, p2}
    Value = {v1}
    None = None
    RamFrames = 3
    SwpFrames = 3
    PAGING_PAGESZ = 1
    SwpUnit = 4
    FpnMod = 8
    SwpMod = 4
    MaxPages = 3
SPECIFICATION Spec
INVARIANT Isolated
