SPECIFICATION Spec
CONSTANTS
    DistressCap = 1
    NormalCap = 1
    MaxRetries = 0
    U32Max = 3
    MaxEvents = 2
    MaxFaults = 1
    Published = {"distress", "message"}
CONSTRAINT MCPublished
INVARIANT QueuedNotDropped
CHECK_DEADLOCK FALSE
