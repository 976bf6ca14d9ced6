CONSTANTS
    NumLines = 4
    LineSize = 5
    EvictShared = FALSE
    AbortAnywhere = FALSE
    MaxTx = 3
    Addr <- MCAddr
    Node <- MCNode
    Value <- MCValue
SPECIFICATION FairSpec
INVARIANTS
    TypeOK
    AccountFits
    AbortReadsWhatWasLogged
    RecoversCommitted
PROPERTIES
    ImplementsTxStore
    TransactionsEnd
CHECK_DEADLOCK FALSE
