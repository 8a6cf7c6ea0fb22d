SPECIFICATION CapiSpec
CONSTANTS
    Workers = {w1}
    Master = m
    None = None
    MaxRoots = 2
    DeathPoints = {"running"}
    MaxNums = {0}
    Faults = {"regions_lock", "pages_lock"}
INVARIANT
    NoDoubleFault
