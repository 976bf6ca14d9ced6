CONSTANTS
    NumLines = 4
    LineSize = 5
    EvictShared = FALSE
    AbortAnywhere = TRUE
    MaxTx = 3
    Addr <- MCAddr
    Node <- MCNode
    Value <- MCValue
SPECIFICATION Spec
INVARIANTS
    AbortReadsRecords
CHECK_DEADLOCK FALSE
