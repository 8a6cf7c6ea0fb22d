SPECIFICATION MemorySpec
CONSTANTS
    RegCnt = 2
    RegSize = 16
    PageSize = 2
    DescSize = 1
    INT16_MAX = 5
    Masters = {m1, m2, m3, m4}
    BlockSizes = {1, 2}
    NodeKeys = {1, 2, 3, 4, 5, 6, 7, 8}
    Twins = {3}
    Degree = 2
    BKeys = {1, 2, 3, 4}
    BVals = {1, 2}
    MaxEntries = 9
    MaxRoom = 2
    WordBits = 3
    Words = 3
    Elements = {1, 2, 3}
    MinSize = 2
    MaxTotal = 4
    Heads = {h1, h2}
    LNodes = {n1, n2, n3, n4}
    Nothing = Nothing
INVARIANTS
    BlocksTile
    IndexIsExact
    NoFragments
    AddrFindsPage
    IndexIsSets
    RedBlack
    LookupsNearest
    BTreeSound
    OperationsExact
    LookupsExact
    BitmapExact
    ArrayExact
    ListsExact
PROPERTIES
    ImplementsBlockHeap
    ImplementsNodeSet
CHECK_DEADLOCK FALSE
