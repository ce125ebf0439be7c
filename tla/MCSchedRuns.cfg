SPECIFICATION FairSpec
CONSTANTS
    CpuCounts = {1}
    SingleCoreMax = 4
    MaxTasks = 3
PROPERTY EveryTaskRuns
CHECK_DEADLOCK FALSE
