SPECIFICATION Spec
CONSTANTS
    DistressCap = 1
    NormalCap = 1
    MaxRetries = 0
    U32Max = 3
    MaxEvents = 4
    MaxFaults = 0
    Published = {"distress", "message"}
CONSTRAINT MCPublished
INVARIANT BypassesNormalQueue
CHECK_DEADLOCK FALSE
