SPECIFICATION Spec
CONSTANTS
    TICK_HZ = 2
    HEARTBEAT_IGNITION_CNT_ON = 3
    HEARTBEAT_IGNITION_CNT_OFF = 2
    SirenTicks = 1
    AllowedTicks = 1
    MaxMismatches = 2
    CounterCap = 3
    Registered <- Release
    Requests <- NoRequests
    MaxPlugs = 1
INVARIANTS
    MainBusIsOn
