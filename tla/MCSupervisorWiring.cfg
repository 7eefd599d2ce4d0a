SPECIFICATION Spec
CONSTANTS
    TICK_HZ = 1
    HEARTBEAT_IGNITION_CNT_ON = 2
    HEARTBEAT_IGNITION_CNT_OFF = 1
    SirenTicks = 0
    AllowedTicks = 0
    MaxMismatches = 1
    CounterCap = 2
    Registered <- Release
    Requests <- WiringRequests
    MaxPlugs = 1
INVARIANTS
    
    BusesAreWired
