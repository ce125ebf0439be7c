SPECIFICATION RaceFairSpec
CONSTANTS
    Thread = {1, 2}
    PagesInitial = 2
    MaxPages = 5
    MaxCalls = 6
INVARIANTS
    ListSound
PROPERTY
    CallsReturn
CHECK_DEADLOCK FALSE
