CONSTANTS
    w1 = w1
    w2 = w2
    Threads = {w1, w2}
    NoThread = NoThread
    NoKey = NoKey
    Keys <- MCKeys
    Work <- MCWorkRoot
    InitTree <- BulkInit
    Window = 1
    HalfRange = 32
    LEAF_KEY_NUM = 2
    NON_LEAF_KEY_NUM = 3
    MaxLevel = 3
    MaxLeaf = 6
    MaxNode = 4
    BulkKeys = 2
    BulkStep = 2
    LeafFill = 2
    NodeFill = 3
    MaxCalls = 1
SPECIFICATION Spec
PROPERTIES
    Linearizable
CHECK_DEADLOCK FALSE
