SPECIFICATION Spec
CONSTANTS
    Tables = {t1, t2, t3}
    Keys = {k1, k2}
    NoTable = NoTable
    MaxRoots = 2
    MaxReferences = 3
SYMMETRY Symmetry
CONSTRAINT FewReferences
CHECK_DEADLOCK FALSE
INVARIANTS
    LiveTablesKept
    NoLeak
    DestroyIsClean
