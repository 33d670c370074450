CONSTANTS
    Proc = {p1, p2}
    Value = {v1}
    None = None
    RamFrames = 4
    SwpFrames = 2
    PAGING_PAGESZ = 1
    SwpUnit = 2
    FpnMod = 8
    SwpMod = 4
    MaxPages = 3
SPECIFICATION Spec
SYMMETRY Symmetry
CONSTRAINT UntilAstray
INVARIANTS
    PagingTypeOK
    RamExclusive
    SwpExclusive
    DataKept
    PagesPlaced
    VictimsTracked
