SPECIFICATION MemSpec
CONSTANTS
    s1 = s1
    s2 = s2
    s3 = s3
    v1 = v1
    v2 = v2
    Spaces = {s1, s2, s3}
    NThreads = 1
    VAs = {v1}
    ShareVAs = {}
    NFrames = 3
    RefMax = 2
    Vals = {0, 1}
    Zero = 0
    InitSpace = s1
    ShareCow = FALSE
    ShareDying = FALSE
CHECK_DEADLOCK FALSE
SYMMETRY ChildNames
INVARIANT
    MappedIsAllocated
