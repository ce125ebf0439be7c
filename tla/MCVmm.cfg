SPECIFICATION VmmSpec
CONSTANTS
    Cpu = {0, 1}
    Bsp = 0
    Frame <- MCFrames
    BitmapFrame = 1
    BitmapPages = 5
    Entries = 6
    LowPages = 7
    PhysOffset <- MCPhys
    KernOffset <- MCKern
    KernPages = 2
    HeapLow <- MCHeapLow
    HeapPages = 3
    StackLow <- MCStack
    StackPages = 1
    ProcHeapLow <- MCHeap
    ProcHeapPages = 2
    PageBytes = 2
    Segments <- MCSegments
    Device = {3}
    MaxCalls = 5
INVARIANTS
    VmmTypeOK
    KernelStaysMapped
    TablesAreTrees
PROPERTY
    ImplementsSpaces
CHECK_DEADLOCK FALSE
