SPECIFICATION FairSpec
CONSTANTS
    Files <- MCFiles
    NumBlocks <- MCNumBlocks
    Orderly = TRUE
    MaxUploads = 3
    MaxLoss = 2
    MaxInFlight = 1
INVARIANTS TypeOK DeliveredWhole CompletedIsDelivered
PROPERTIES TransfersEnd
CHECK_DEADLOCK FALSE
