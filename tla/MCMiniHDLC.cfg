SPECIFICATION Spec
CONSTANTS
    Contents <- MCContents
    Tricky <- MCTricky
    MaxFrameLength = 5
    MaxFrames = 3
    MaxFaults = 2
INVARIANTS TypeOK OnlySent OneFaultOneFrame
PROPERTIES Delivered
CHECK_DEADLOCK FALSE
