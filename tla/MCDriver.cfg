CONSTANTS
    LEAF_KEY_NUM = 2
    NON_LEAF_KEY_NUM = 2
    MaxLevel = 5
    MaxLeaf = 12
    MaxNode = 12
    PerThread = 2
    MaxWorkers = 3
    File <- MCFile
    KeyBuffer = 3
    Jobs <- MCJobs
    MaxPoolSize = 45
    PageSize = 1
    Align = 1
    LeastSize = 2
    StableShare = 2
SPECIFICATION FairSpec
INVARIANTS
    TypeOK
    LoadedAllKeys
    SubtreesAsComputed
    TopNodesFew
    
    PartsApart
    
    NodesApart
PROPERTIES
    UsesPools
    CommandEnds
