SPECIFICATION Spec
CONSTANTS
    Files <- MCFiles
    NumBlocks <- MCNumBlocks
    Orderly = FALSE
    MaxUploads = 2
    MaxLoss = 0
    MaxInFlight = 1
INVARIANTS
    DeliveredWhole
CHECK_DEADLOCK FALSE
