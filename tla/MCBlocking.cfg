SPECIFICATION WaitSpec
CONSTANTS
    CPUs = {c1, c2, c3}
    NoCPU = NoCPU
    TicketMod = 4
    t1 = t1
    t2 = t2
    t3 = t3
    s1 = s1
    s2 = s2
    nobody = nobody
    Threads = {t1, t2, t3}
    Home <- OneSpace
    Addrs = {1, 2}
    WordUses <- OwnAndCommon
    Vals = {0, 1}
    NSlots = 3
    Nobody = nobody
    Victims = {t3}
    Procs <- MCProcs
    SigCPUs = 1
    Signals = {15, 20, 30}
    Fatal = {15, 30}
    Dispositions <- MCDispositions
    Masks <- MCMasks
    MaxImages = 1
    Uses = {}
    k1 = k1
    k2 = k2
    k3 = k3
    Clients = {k1, k2, k3}
    NPorts = 1
    Depth = 2
    Msgs = {m1, m2}
    Ids = {svc}
    Nothing = Nothing
    MaxOpens = 1
    PipeProcs = {p1, p2}
    FirstProc = p1
    NPipes = 1
    BufSize = 1
    Bytes = {1}
    MaxSent = 1
    MaxPipes = 1
    OthersFork = FALSE
    ExitOpen = FALSE
    Pollers = {1, 2}
    CallsOf <- AnyCall
    Forever <- MCForever
    PollBackstop = 1
INVARIANTS
    MutualExclusion
    TableExact
    HandlersNest
    PortsExact
    PollsExact
PROPERTIES
    ImplementsFifoLock
    
    
    ImplementsMsgQueue
