CONSTANTS
    Rgid = {r1, r2, r3}
    Size = {1, 2, 3}
    PAGING_PAGESZ = 2
    Frames = 4
    MaxBreak = 7
SPECIFICATION Spec
INVARIANTS
    RegionTypeOK
    Partition
    Coalesced
    MappedUnlessOutOfFrames
