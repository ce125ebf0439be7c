SPECIFICATION Spec
CONSTANTS
    Initial = 2
    KmallocSlabs = 3
    HeapBytes = 2350
    Requests = {60, 100}
    PoolSizes = {64, 160}
    MaxPools = 1
    MaxLive = 3
INVARIANTS
    TypeOK
    ListsSound
    HeaderHonest
    OneOwnerButLast
CHECK_DEADLOCK FALSE
