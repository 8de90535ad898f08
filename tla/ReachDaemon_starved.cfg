SPECIFICATION HangingSpec
CONSTANTS
    DistressCap = 1
    NormalCap = 1
    MaxRetries = 0
    U32Max = 3
    MaxEvents = 2
    MaxFaults = 0
    Published = {"distress", "message"}
CONSTRAINT MCPublished
PROPERTY SecondDistressNotStarved
CHECK_DEADLOCK FALSE
