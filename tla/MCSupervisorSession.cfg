SPECIFICATION FairSpec
CONSTANTS
    TICK_HZ = 1
    HEARTBEAT_IGNITION_CNT_ON = 2
    HEARTBEAT_IGNITION_CNT_OFF = 1
    SirenTicks = 1
    AllowedTicks = 1
    MaxMismatches = 1
    CounterCap = 2
    Registered <- Debug
    Requests <- SessionRequests
    MaxPlugs = 1
INVARIANTS
    LostHostHasNoOutput
    ControlsAreUsed
    RelayFollowsMode

    
