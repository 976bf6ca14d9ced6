CONSTANTS
    w1 = w1
    w2 = w2
    Threads = {w1, w2}
    NoThread = NoThread
    NoKey = NoKey
    Keys <- MCKeys
    Work <- MCWork
    InitTree <- BulkInit
    Window = 1
    HalfRange = 32
    LEAF_KEY_NUM = 2
    NON_LEAF_KEY_NUM = 4
    MaxLevel = 2
    MaxLeaf = 7
    MaxNode = 1
    BulkKeys = 4
    BulkStep = 2
    LeafFill = 1
    NodeFill = 3
    MaxCalls = 3
SPECIFICATION Spec
INVARIANTS
    ChainOrdered
    LeavesAccounted
    CheckPasses
    NoWildRead
PROPERTIES
    Linearizable
