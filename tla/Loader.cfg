CONSTANTS
    Configs <- MCConfigs
    Programs <- MCPrograms
    Unset = Unset
    PAGING_MAX_MMSWP = 1
    PAGING_PAGESZ = 2
    INT_MAX = 15
    MaxSize = 2
SPECIFICATION Spec
INVARIANTS
    ConfigAsWritten
    DevicesReady
    LoadedAsWritten
