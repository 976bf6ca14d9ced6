CONSTANTS
    NumLines = 4
    LineSize = 5
    EvictShared = TRUE
    AbortAnywhere = FALSE
    MaxTx = 3
    Addr <- MCAddr
    Node <- MCNode
    Value <- MCValue
SPECIFICATION Spec
INVARIANTS
    RecoversCommitted
CHECK_DEADLOCK FALSE
