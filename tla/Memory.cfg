CONSTANTS
    Proc = {p1, p2}
    Rgid = {r1, r2}
    Value = {r1, r2}
    Size = {1, 3}
    None = None
    RamFrames = 2
    SwpFrames = 3
    PAGING_PAGESZ = 2
    SwpUnit = 4
    FpnMod = 8
    SwpMod = 4
    MaxPages = 3
    MaxWritten = 1
    Offsets = {0, 1, 3}
    Small = {p2}
SPECIFICATION MemSpec
SYMMETRY Symmetry
CONSTRAINT Bounded
INVARIANTS
    RegionsHold
    FirstByteHarmed
    AccessInReach
PROPERTIES
    MemoryImplementsRegion
