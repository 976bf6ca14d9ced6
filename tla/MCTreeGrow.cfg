CONSTANTS
    w1 = w1
    w2 = w2
    Threads = {w1, w2}
    NoThread = NoThread
    NoKey = NoKey
    Keys <- MCKeys
    Work <- MCWork
    InitTree <- BulkInit
    Window = 1
    HalfRange = 32
    LEAF_KEY_NUM = 2
    NON_LEAF_KEY_NUM = 2
    MaxLevel = 3
    MaxLeaf = 7
    MaxNode = 4
    BulkKeys = 8
    BulkStep = 2
    LeafFill = 2
    NodeFill = 1
    MaxCalls = 2
SPECIFICATION FairSpec
INVARIANTS
    LocksOwned
    CheckPasses
    ShapeFits
PROPERTIES
    Linearizable
    OnlyHolderWrites
    EveryCallReturns
