SPECIFICATION RtcFairSpec
CONSTANTS
    Starts <- MCStarts
    Quiet = 2
INVARIANTS
    SnapshotWasTime
    ExactInFebruary
PROPERTY
    CallReturns
CHECK_DEADLOCK FALSE
