SPECIFICATION Spec
CONSTANTS
    powertrain = powertrain
    camera = camera
    Bus <- OneBus
    Route <- Alone
    TxSize = 3
    RxSize = 2
    RxFifo = 2
    MinSlots = 2
    MsgsPerWrite = 2
    Faults = {"bus_off"}
    MaxSends = 2
    MaxFrames = 1
    MaxResets = 1
INVARIANTS
    BusOffIsSeen
CHECK_DEADLOCK FALSE
