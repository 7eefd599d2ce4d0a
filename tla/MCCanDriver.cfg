SPECIFICATION Spec
CONSTANTS
    powertrain = powertrain
    camera = camera
    Bus <- TwoBuses
    Route <- Forwarding
    TxSize = 2
    RxSize = 2
    RxFifo = 2
    MinSlots = 2
    MsgsPerWrite = 2
    Faults = {"bus_off", "error", "bad"}
    MaxSends = 2
    MaxFrames = 2
    MaxResets = 1
SYMMETRY Turned
INVARIANTS
    TypeOK
    
    StallsOnlyWhenSpoiled
    NotReadyMeansFull
CHECK_DEADLOCK FALSE
