SPECIFICATION Spec
CONSTANTS
    c1 = c1
    c2 = c2
    p1 = p1
    p2 = p2
    p3 = p3
    CPUs = {c1, c2}
    Procs = {p1, p2, p3}
    Chans = {ch}
    NPrio = 2
    Idle = Idle
    NoProc = NoProc
    NoChan = NoChan
    BootCPU = c1
    InitProc = p1
    NoPreemptUsers = {p1}
SYMMETRY Interchangeable
INVARIANTS
    TypeOK
    OneCpuPerProcess
    QueuesExact
PROPERTIES
    DispatchesHighest
