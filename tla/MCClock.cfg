SPECIFICATION FairSpec
CONSTANTS
    CoreCounts = {1, 2}
    Hooks <- MCHooks
    Word = 4
    HZ = 1000
    Delays <- MCDelays
INVARIANTS
    TypeOK
    HooksComplete
PROPERTIES
    FaultsOnlyInsideHook
    DelayAtLeast
    DelayReturns
CHECK_DEADLOCK FALSE
