SPECIFICATION SteerSpec
CONSTANTS
    DriverLimited = TRUE
    max_steer = 3
    max_rate_up = 1
    max_rate_down = 1
    max_rt_delta = 2
    max_rt_interval = 1
    driver_torque_allowance = 0
    driver_torque_factor = 1
    max_torque_error = 1
    has_steer_req_tolerance = TRUE
    min_valid_request_frames = 2
    max_invalid_request_frames = 2
    min_valid_request_rt_interval = 2
    MAX_SAMPLE_VALS = 2
    Measured <- Driver
    Commanded <- Asked
    Wrap = 3
    Limits <- Ford
    MaxSpeed = 1
    RateUp <- Slower
    RateDown <- Slower
    Samples = 2
    MeasAngles <- MeasuredAngles
    Angles <- AskedAngles
INVARIANTS
    RampTakesTime
    DriverOverrules
    SomeAngleIsAllowed
    ErrorIsCorrected
PROPERTIES
    CutsAreRare
    GrowsSlowly
