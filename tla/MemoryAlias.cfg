SPECIFICATION Spec
CONSTANTS
    None = None
    MemoryMaps <- MCMaps
    Frames = {0, 1, 2, 3, 4, 5, 6, 7, 8, 9, 10, 11, 12, 13, 14}
    BootTables <- MCBootTables
    P4 = 0
    HugeEntries <- MCHugeEntries
    Entries = 3
    PageSize = 4
    HEAP_START = 160
    HEAP_SIZE = 8
    ClientPages = {0, 4, 40, 43, 54}
    MaxCalls = 3
    KeepsContract = FALSE
INVARIANT FreshFrameIsUnused
CHECK_DEADLOCK FALSE
