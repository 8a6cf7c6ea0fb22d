SPECIFICATION FairSpec
CONSTANTS
    Procs = {p1, p2}
    Mortal = {p2}
    Tables = {t1}
    None = None
INVARIANTS
    CirclesCopyOut
    LocksTakenInOrder
PROPERTY LocksRecovered
