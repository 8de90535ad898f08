SPECIFICATION FairSpec
CONSTANTS
    DistressCap = 1
    NormalCap = 1
    MaxRetries = 1
    U32Max = 3
    MaxEvents = 3
    MaxFaults = 1
    Published = {"distress", "message"}
CONSTRAINT MCPublished
PROPERTY EventuallyDispatched
PROPERTY EventuallyAnswered
PROPERTY Resubscribes
CHECK_DEADLOCK FALSE
