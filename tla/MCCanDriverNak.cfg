SPECIFICATION Spec
CONSTANTS
    powertrain = powertrain
    camera = camera
    Bus <- TwoBuses
    Route <- Apart
    TxSize = 3
    RxSize = 2
    RxFifo = 2
    MinSlots = 2
    MsgsPerWrite = 2
    Faults = {}
    MaxSends = 6
    MaxFrames = 0
    MaxResets = 0
INVARIANTS
    CongestionIsNaked
CHECK_DEADLOCK FALSE
