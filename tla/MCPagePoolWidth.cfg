SPECIFICATION Spec
CONSTANTS
    RegCnt = 2
    RegSize = 16
    PageSize = 2
    DescSize = 1
    INT16_MAX = 3
INVARIANT BlocksTile
CHECK_DEADLOCK FALSE
