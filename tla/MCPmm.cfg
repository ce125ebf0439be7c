SPECIFICATION Spec
CONSTANTS
    Core = {0}
    MemoryMaps <- MCMaps
    PageSize = 4
    MaxAllocs = 8
INVARIANTS
    TypeOK
    PagesApart
CHECK_DEADLOCK FALSE
