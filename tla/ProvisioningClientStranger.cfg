\* One publication on another topic.
CONSTANTS
    LoopTime = 2
    Timeouts = {0, 5}
    PollingInterval = 2
    RetryAfter = {0, 1}
    MaxPolls = 1
    MaxStrangers = 1
SPECIFICATION ServedSpec
PROPERTIES
    RegistrationEnds
