SPECIFICATION ChannelsSpec
CONSTANTS
    Total = 16
    Length <- PacketLength
    Boundary <- PacketEnds
    MaxLength = 5
    Chunks = {1, 2, 3, 4, 7}
    ReadSize = 3
    BulkReads = 2
    Kept = {FALSE, TRUE}
    Slots = 5
    MinFree = 3
    Armed = 3
    FifoSize = 4
    Chunk <- HostChunks
    MaxForwards = 1
    MaxConnects = 2
    Kind = {"read", "write"}
    Refusable = {"write"}
    HeaderSize = 2
    DataSize <- SpiData
    ResponseSize <- SpiResponse
    PollSize = 3
    Patience = 7
    MaxCalls = 2
    MaxFaults = 3
INVARIANTS
    HostParses
CHECK_DEADLOCK FALSE
