SPECIFICATION WaitFairSpec
CONSTANTS
    CPUs = {c1, c2}
    NoCPU = NoCPU
    TicketMod = 4
    t1 = t1
    t2 = t2
    t3 = t3
    s1 = s1
    s2 = s2
    nobody = nobody
    Threads = {t1, t2}
    Home <- OneSpace
    Addrs = {1, 2}
    WordUses <- OwnAndCommon
    Vals = {0, 1}
    NSlots = 2
    Nobody = nobody
    Victims = {t2}
    Procs <- MCProcs
    SigCPUs = 1
    Signals = {15, 20}
    Fatal = {15}
    Dispositions <- ChildOnly
    Masks <- MCMasks
    MaxImages = 0
    Uses = {}
    k1 = k1
    k2 = k2
    k3 = k3
    Clients = {k1, k2}
    NPorts = 1
    Depth = 2
    Msgs = {m1, m2}
    Ids = {svc}
    Nothing = Nothing
    MaxOpens = 1
    PipeProcs = {p1, p2}
    FirstProc = p1
    NPipes = 1
    BufSize = 1
    Bytes = {1}
    MaxSent = 2
    MaxPipes = 1
    OthersFork = FALSE
    ExitOpen = FALSE
    Pollers = {1, 2}
    CallsOf <- OwnCall
    Forever <- MCForever
    PollBackstop = 1
PROPERTIES
    SpinnerServed
    WaitEnds
    JobNoticed
    ReceiverServed
    ReaderReturns
    PollReturns
