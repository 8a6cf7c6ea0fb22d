SPECIFICATION SlabSpec
CONSTANTS
    RegCnt = 2
    RegSize = 20
    PageSize = 4
    DescSize = 1
    INT16_MAX = 4
    MinShift = 0
    MaxShift = 2
    ObjCnt = 2
    ObjSizes = {1, 3, 4, 9}
    MadviseMayFail = FALSE
    MaxObjs = 3
CONSTRAINT FewObjects
INVARIANTS
    ObjectsDisjoint
    SlabsAreListed
    SearchStaysValid
    NoReleaseRefused

