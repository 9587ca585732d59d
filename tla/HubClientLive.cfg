CONSTANTS
    IdModulus = 4
    MaxPacketId = 9
    PacketIdBound = 2
    Used = {2}
    Qualities = {0}
    WaitInterval = 1
    Timeouts = {2}
    CleanSessions = {FALSE}
    MaxWire = 1
    MaxOwed = 2
SPECIFICATION ServedSpec
PROPERTIES
    SubscribeReturns
    RequestedPropertiesArrive
