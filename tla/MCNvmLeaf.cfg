SPECIFICATION Spec
CONSTANTS
    Keys <- MCKeys
    NoKey = 0
    Hash <- MCHash
    hashcode1B <- MCHashcode1B
    LEAF_KEY_NUM = 3
    Line0Slots = 1
    Word0Slots = 2
    last_slot_in_line <- MCLastSlot
    Nodes <- MCNodes
    NULL = NULL
    InitKeys = {2, 3}
    Threads = 1
    h0 = h0
    h1 = h1
    n1 = n1
    n2 = n2
SYMMETRY MCSymmetry
INVARIANTS TypeOK FingerprintsMatch NoDuplicates ReturnedIsDurable NextIsWhole
PROPERTIES SplitLosesNothing ImplementsDurableLeaf
