SPECIFICATION DevicesSpec
CONSTANTS
    Packet = {p1, p2}
    fifo_size = 5
    NoPacket = NoPacket
    Byte = {b1, b2}
    FIFO_SIZE_INT = 3
    NoByte = NoByte
    WaitTicks = 3
    ResetTicks = 2
    Sectors = 3
    SectorWords = 2
    Size <- SizeOf
    Transports = {"usb", "spi"}
    MaxFaults = 4
    MaxRecovers = 1
INVARIANTS
    NothingWaits
    OnlyDfuIsDangerous
    
PROPERTIES
    RefinesFifo
    RingsAreRecent
    
    UpdateIsAtomic
    UpdateSucceeds
CHECK_DEADLOCK FALSE
