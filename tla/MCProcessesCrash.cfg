SPECIFICATION ProcSpec
CONSTANTS
    Workers = {w1, w2}
    Master = m
    None = None
    MaxRoots = 3
    DeathPoints = {"start", "pstate", "proot", "root", "alive", "locked", "listed", "running"}
    MaxNums = {0, 1}
INVARIANT
    DeadAreFound
