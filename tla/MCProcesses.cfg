SPECIFICATION ProcSpec
CONSTANTS
    s1 = s1
    s2 = s2
    s3 = s3
    s4 = s4
    Spaces = {s1, s2, s3, s4}
    NoSpace = NoSpace
    CPUs = {c1}
    Procs <- ThreeSlots
    Chans = {ch}
    NPrio = 1
    Idle = Idle
    NoProc = NoProc
    NoChan = NoChan
    BootCPU = c1
    InitProc = 1
    NoPreemptUsers = {}
    CloneKinds <- NoSharing
    MaxRefs = 3
    Kills = TRUE
    Waits = TRUE
    p1 = p1
    p2 = p2
    p3 = p3
    PipeProcs = {p1, p2}
    FirstProc = p1
    NPipes = 1
    BufSize = 2
    Bytes = {0, 1}
    MaxSent = 3
    MaxPipes = 2
    OthersFork = FALSE
    ExitOpen = FALSE
SYMMETRY SpaceNames
INVARIANTS
    SpacesExact
    
    SlotsExact
    PipesExact

    
