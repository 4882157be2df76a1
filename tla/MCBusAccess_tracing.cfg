SPECIFICATION Spec
CONSTANTS
    NumSockets = 2
    MaxSignals = 2
    SlowAck = TRUE
    Uses <- TracingUses
INVARIANTS
    TypeOK
    DrivesOnlyGrantedBus
    GrantRoundHasBus
    BusrqHasOwner
    BusInv
PROPERTIES
    SignalBeforeRelease
    BusRequestAnswered
    ImplementsArbiter
