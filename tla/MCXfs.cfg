SPECIFICATION Spec
CONSTANTS
    p1 = p1
    p2 = p2
    Total = 9
    BlockSize = 2
    DirSlots = 2
    MaxDirect = 2
    MaxFds = 1
    SeedName = "a"
    Procs = {p1, p2}
    Paths <- MCPaths
    Modes = {TRUE}
    Lens = {1, 3}
    MaxSize = 3
    MaxCalls = 4
    MaxBoots = 1
    Uses = {}
SYMMETRY Symmetry
INVARIANTS
    BlocksExact
    
PROPERTIES
    ImplementsFileStore
CHECK_DEADLOCK FALSE
