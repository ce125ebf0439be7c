SPECIFICATION BootFairSpec
CONSTANTS
    Madts <- MCPlain
    Bsp = 0
    MaxCpus = 8
INVARIANTS
    BootTypeOK
    StartsSeparately
PROPERTY AllOnline
CHECK_DEADLOCK FALSE
