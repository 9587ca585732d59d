\* Two packet identifiers: the second subscription is given the identifier
\* the first one still holds.
CONSTANTS
    IdModulus = 4
    MaxPacketId = 2
    PacketIdBound = 2
    Used = {0, 1}
    Qualities = {1}
    WaitInterval = 1
    Timeouts = {2}
    CleanSessions = {FALSE}
    MaxWire = 1
    MaxOwed = 1
SPECIFICATION Spec
PROPERTIES
    TimeoutMeansNoSuback
