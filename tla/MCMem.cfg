SPECIFICATION AllMemSpec
CONSTANTS
    s1 = s1
    s2 = s2
    s3 = s3
    v1 = v1
    v2 = v2
    Spaces = {s1, s2}
    NThreads = 1
    VAs = {v1, v2}
    ShareVAs = {v2}
    NFrames = 3
    RefMax = 7
    Vals = {0, 1}
    Zero = 0
    InitSpace = s1
    ShareCow = FALSE
    ShareDying = FALSE
    ArenaSize = 208
    Sizes = {1, 17, 48}
    Slots = {1, 2}
    FirstSlot = 1
    PageSize = 2
    MaxPages = 3
    Stored = {1, 2}
    Increments <- MCIncrements
    Limits = {}
    Apps = {1, 2, 3}
    Panels = {3}
    Place <- MCPlace
    MAX_SURFACES = 2
    FbH = 5
    BarH = 2
    Edge = 1
    MinH = 1
    Scenes <- MCScenes
    PortCap = 1
    MaxDraws = 1
    Buttons = {"left"}
    Habits = {"no_frames"}
INVARIANTS
    
    MemoryCoherent
    HeapCorrect
    BreakExact
    SurfacesExact
    
