\* Two packet identifiers, used again and again: a context may hold the
\* identifier of a later subscription.
CONSTANTS
    IdModulus = 4
    MaxPacketId = 2
    PacketIdBound = 2
    Used = {1, 2}
    Qualities = {0}
    WaitInterval = 1
    Timeouts = {0, 2}
    CleanSessions = {FALSE}
    MaxWire = 1
    MaxOwed = 1
SPECIFICATION ContractSpec
PROPERTIES
    ImplementsContract
