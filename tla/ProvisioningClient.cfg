CONSTANTS
    LoopTime = 2
    Timeouts = {0, 2, 5}
    PollingInterval = 2
    RetryAfter = {0, 1}
    MaxPolls = 2
    MaxStrangers = 2
SPECIFICATION FairSpec
INVARIANTS
    TypeOK
    OneRequestAtATime
    SuccessMeansAssigned
    QueriesNameOperation
    SamePayloadInAllRequests
    SubackOnlyWhenAwaited
PROPERTIES
    VerdictIsFinal
    RetryAfterHonoured
    RegisterReturns
    ImplementsContract
