SPECIFICATION LifeSpec
CONSTANTS
    s1 = s1
    s2 = s2
    s3 = s3
    s4 = s4
    Spaces = {s1, s2, s3, s4}
    NoSpace = NoSpace
    CPUs = {c1, c2}
    Procs <- TwoSlots
    Chans = {}
    NPrio = 1
    Idle = Idle
    NoProc = NoProc
    NoChan = NoChan
    BootCPU = c1
    InitProc = 1
    NoPreemptUsers = {}
    CloneKinds <- ForkOnly
    MaxRefs = 3
    Kills = TRUE
    Waits = FALSE
SYMMETRY SpaceNames
PROPERTY
    KilledStaysDead
