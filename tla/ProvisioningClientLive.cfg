\* No publication on another topic arrives.
CONSTANTS
    LoopTime = 2
    Timeouts = {0, 5}
    PollingInterval = 2
    RetryAfter = {0, 1}
    MaxPolls = 1
    MaxStrangers = 0
SPECIFICATION ServedSpec
PROPERTIES
    RegistrationEnds
