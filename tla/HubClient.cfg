\* Connections with clean sessions and with persistent ones, in any order.  No
\* packet identifier is used twice: PacketIdBound < MaxPacketId.  A 2-bit request
\* counter, so that it wraps.
CONSTANTS
    IdModulus = 4
    MaxPacketId = 9
    PacketIdBound = 3
    Used = {0, 2}
    Qualities = {0, 1}
    WaitInterval = 1
    Timeouts = {0, 2}
    CleanSessions = {FALSE, TRUE}
    MaxWire = 1
    MaxOwed = 2
SPECIFICATION Spec
INVARIANTS
    TypeOK
    NoAbandonedSubscribe
    AnswerHasTypeOfRequest
    FreshInv
PROPERTIES
    AckedSubscribeSucceeds
    SubscribedInSession
