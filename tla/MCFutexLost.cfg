SPECIFICATION FutexSpec
CONSTANTS
    t1 = t1
    t2 = t2
    t3 = t3
    s1 = s1
    s2 = s2
    nobody = nobody
    Threads = {t1, t2}
    Home <- OneSpace
    Addrs = {1}
    WordUses <- Everything
    Vals = {0, 1}
    NSlots = 2
    Nobody = nobody
    Victims = {}
INVARIANT
    NoLostWake
