SPECIFICATION Spec
CONSTANTS
    CpuCounts = {1, 2, 3}
    SingleCoreMax = 2
    MaxTasks = 8
INVARIANTS
    TypeOK
    
    ExecutesRunning
    LoadGapBounded
PROPERTY NeverReassigned
CHECK_DEADLOCK FALSE
