SPECIFICATION FairSpec
CONSTANTS
    Tables = {t1, t2, t3}
    Keys = {k1, k2}
    NoTable = NoTable
    MaxRoots = 1
    MaxReferences = 3
    RootTable = t1
    ChildKey = k1
CONSTRAINTS
    OneRoot
    FewReferences
CHECK_DEADLOCK FALSE
INVARIANT
    IInv
PROPERTIES
    EventuallyCollected
    DestroyTerminates
    ImplementsTableHeap
