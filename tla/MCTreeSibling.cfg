CONSTANTS
    w1 = w1
    w2 = w2
    Threads = {w1, w2}
    NoThread = NoThread
    NoKey = NoKey
    Keys <- MCKeys
    Work <- MCWorkDeep
    InitTree <- BulkInit
    Window = 1
    HalfRange = 32
    LEAF_KEY_NUM = 2
    NON_LEAF_KEY_NUM = 2
    MaxLevel = 3
    MaxLeaf = 6
    MaxNode = 4
    BulkKeys = 4
    BulkStep = 3
    LeafFill = 1
    NodeFill = 1
    MaxCalls = 2
SPECIFICATION Spec
INVARIANTS
    CheckPasses
CHECK_DEADLOCK FALSE
