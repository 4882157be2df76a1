SPECIFICATION FairSpec
CONSTANTS
    RxLen = 3
    TxLen = 3
    FifoLen = 2
    TxTrigger = 1
    MaxRx = 4
    MaxTx = 4
    MaxSetups = 1
INVARIANTS TypeOK TxNothingSkipped
PROPERTIES AcceptedIsSent RxIsQueue
CHECK_DEADLOCK FALSE
