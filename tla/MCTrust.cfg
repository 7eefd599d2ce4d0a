SPECIFICATION TrustSpec
CONSTANTS
    MAX_WRONG_COUNTERS = 2
    NoMsg = NoMsg
    pcm = pcm
    speed = speed
    pedals = pedals
    pedals2 = pedals2
    Msg <- CarMsg
    Check <- CarCheck
    Alternatives <- CarAlternatives
    Carries <- CarCarries
    StockEcu = {speed}
    MaxCounter <- CarCounter
    Lag <- CarLag
    Experiences = {FALSE}
    Second = 1
    Wrap = 100
    Horizon = 3
    Brands = {"CHRYSLER", "HYUNDAI", "HONDA_NIDEC", "HONDA_BOSCH", "GM", "VOLKSWAGEN_MQB", "VOLKSWAGEN_PQ"}
    Brakes = {0, 1}
    HYUNDAI_PREV_BUTTON_SAMPLES = 2
    NoAeb = FALSE
SYMMETRY Swapped
INVARIANTS
    ControlsAreTrusted
    StatusIsTrue
    NoControlsWhenBraking
    RelayHasTime
    OffMeansOff
    AebIsLatched
PROPERTIES
    ControlsFollowCruise
    
CHECK_DEADLOCK FALSE
