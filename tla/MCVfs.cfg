SPECIFICATION Spec
CONSTANTS
    Proc = {1, 2}
    File = {21, 22, 23}
    NameOf <- MCNames
    OnRamfs = {21, 22}
    Archive <- MCArchive
    Behind <- MCBehind
    Mounts <- MCMounts
    ExecPaths <- MCExec
    Paths <- MCPaths
    MaxNodes = 7
INVARIANTS
    TypeOK
    OpenForOne
    ClosedAfterUse
PROPERTY
    ImplementsNamespace
CHECK_DEADLOCK FALSE
