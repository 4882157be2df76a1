SPECIFICATION FairSpec
CONSTANTS
    NumSockets = 2
    MaxSignals = 1
    SlowAck = TRUE
    Uses <- MachineUses
PROPERTIES
    RequestsSettled
