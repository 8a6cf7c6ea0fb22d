SPECIFICATION ApiSpec
CONSTANTS
    Workers = {w1, w2, w3}
    Master = m
    None = None
    MaxRoots = 4
    DeathPoints = {"start", "listed", "running"}
    MaxNums = {0, 1}
    Faults = {"shm", "rcb lock", "regions_lock", "group locks", "gc", "groot", "lib lock"}
    Users = {p1, p2}
    Mortal = {p2}
    CrashPoints = {"idle", "new", "free", "get", "next", "foreach"}
    Keys = {1, 2}
    Values = {v1, v2}
    Addrs = {a1, a2, a3}
    NULL = NULL
    MaxVersion = 3
    Strs = {s1, s2, s3}
    Buffers = {b1, b2}
    MaxInt = 2
SYMMETRY Symmetry
INVARIANTS
    LiveProcessKept
    DeadAreFoundWhileUp
    InitAllOrNothing
    DestroyIsComplete
    NoDoubleFault
    NoStaleElement
    IterationIsExact
    ElementsAccounted
    OneOwner
    
PROPERTY
    CleanFindsAll
