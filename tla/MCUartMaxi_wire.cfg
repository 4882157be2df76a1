SPECIFICATION Spec
CONSTANTS
    RxLen = 3
    TxLen = 3
    FifoLen = 2
    TxTrigger = 1
    MaxRx = 2
    MaxTx = 4
    MaxSetups = 1
INVARIANTS
    TxWireInOrder
CHECK_DEADLOCK FALSE
