CONSTANTS
    Threads = {t1}
    NoThread = NoThread
    NoKey = NoKey
    Keys <- MCKeys
    Work <- MCWork
    InitTree <- BulkInit
    Window = 1
    HalfRange = 32
    LEAF_KEY_NUM = 2
    NON_LEAF_KEY_NUM = 2
    MaxLevel = 3
    MaxLeaf = 5
    MaxNode = 6
    MaxCalls = 0
    BulkKeys = 3
    BulkStep = 2
    LeafFill = 1
    NodeFill = 1
SPECIFICATION Spec
INVARIANTS
    TypeOK
    LocksOwned
    LeavesAccounted
    CheckPasses
    ShapeFits
PROPERTIES
    Linearizable
