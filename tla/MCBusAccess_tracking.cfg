SPECIFICATION Spec
CONSTANTS
    NumSockets = 2
    MaxSignals = 1
    SlowAck = TRUE
    Uses <- TrackingUses
PROPERTIES
    HeldCycleKept
    WaitedCycleIsSeen
    PageInBetweenReads
