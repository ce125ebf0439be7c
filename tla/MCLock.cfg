SPECIFICATION Spec
CONSTANTS
    Core = {c1, c2, c3}
    exec_lock = exec_lock
    sched_lock = sched_lock
    malloc_lock = malloc_lock
    SwitchLock = task_switch_lock
    Mutex = {exec_lock, sched_lock, malloc_lock, task_switch_lock}
    NoMutex = NoMutex
    Calls <- MCCalls
    Rank <- MCRank
INVARIANTS
    TypeOK
    MutualExclusion
    NoSelfDeadlock
    LeafSectionsUninterrupted
    NoWaitCycle
SYMMETRY Symmetry
CHECK_DEADLOCK FALSE
